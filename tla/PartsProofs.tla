----------------------------- MODULE PartsProofs -----------------------------
(***************************************************************************)
(* Theorems about two of the parts that MCParts composes. Pools: for any   *)
(* number of pools, sizes of items and chunks, and any order in which      *)
(* items are taken and given back. Flood control of Messages: for any      *)
(* clients, channels and limits, whatever is sent and however it is cut.   *)
(***************************************************************************)
EXTENDS Pools, Messages, LinkedListsProofs, FiniteSetTheorems

(* A pool, field by field.                                                 *)
Rec(c, u, e, f, n, m, ch, ea) ==
    [capacity |-> c, used |-> u, empty |-> e, full |-> f, n_empty |-> n, min_empty |-> m, chunks |-> ch, early |-> ea]

(* What a chunk says of itself, when T are its items that are in use.      *)
Chunk == [first_free : Seq(Nat), next_mem : Nat, n_allocated : Nat, clean : BOOLEAN]
Box(C, T, cap) ==
    /\ C \in Chunk /\ C.next_mem <= cap
    /\ C.n_allocated = Cardinality(T)
    /\ IsInjective(C.first_free) /\ ToSet(C.first_free) \cap T = {}
    /\ ToSet(C.first_free) \cup T = 1 .. C.next_mem

(* How the three lists, the counts and the marks of a pool fit its chunks. *)
(* The chunks that the next collection frees are the last min_empty of the *)
(* empty ones, and these have been empty since the last one.               *)
TakenOf(x, id, H, cap) == {i \in 1 .. cap : <<x, id, i>> \in H}
Lists(P) ==
    /\ P.used \in Seq(Nat) /\ P.empty \in Seq(Nat) /\ P.full \in Seq(Nat)
    /\ IsInjective(P.used) /\ IsInjective(P.empty) /\ IsInjective(P.full)
    /\ ToSet(P.used) \cap ToSet(P.empty) = {} /\ ToSet(P.used) \cap ToSet(P.full) = {}
    /\ ToSet(P.empty) \cap ToSet(P.full) = {}
    /\ ToSet(P.used) \cup ToSet(P.empty) \cup ToSet(P.full) = DOMAIN P.chunks
Marks(P) ==
    /\ P.n_empty = Len(P.empty) /\ P.min_empty \in 0 .. P.n_empty /\ P.early = {}
    /\ \A k \in 1 .. Len(P.empty) : k > P.n_empty - P.min_empty => P.chunks[P.empty[k]].clean
Shape(P) ==
    /\ P = Rec(P.capacity, P.used, P.empty, P.full, P.n_empty, P.min_empty, P.chunks, P.early)
    /\ P.capacity \in Nat /\ P.capacity >= 2
    /\ P.chunks = [id \in DOMAIN P.chunks |-> P.chunks[id]]
    /\ IsFiniteSet(DOMAIN P.chunks)
Boxes(P, x, H) == \A id \in DOMAIN P.chunks : Box(P.chunks[id], TakenOf(x, id, H, P.capacity), P.capacity)
Sound(P, x, H) == Shape(P) /\ Lists(P) /\ Marks(P) /\ Boxes(P, x, H)
Level(P, id) == P.chunks[id].n_allocated
Filled(P) ==
    /\ \A id \in ToSet(P.empty) : Level(P, id) = 0
    /\ \A id \in ToSet(P.full) : Level(P, id) = P.capacity
    /\ \A id \in ToSet(P.used) : Level(P, id) \in 1 .. P.capacity - 1

(* The same in the middle of mp_pool_get(), when the first used chunk may  *)
(* have no item yet.                                                       *)
Opened(P) ==
    /\ P.used # <<>> /\ Level(P, P.used[1]) \in 0 .. P.capacity - 1
    /\ \A id \in ToSet(P.empty) : Level(P, id) = 0
    /\ \A id \in ToSet(P.full) : Level(P, id) = P.capacity
    /\ \A id \in ToSet(P.used) \ {P.used[1]} : Level(P, id) \in 1 .. P.capacity - 1

-----------------------------------------------------------------------------
(* The rest of a list after its first node.                                *)
LEMMA TailFacts ==
    ASSUME NEW S, NEW q \in Seq(S), q # <<>>
    PROVE  /\ Tail(q) \in Seq(S) /\ Len(Tail(q)) = Len(q) - 1 /\ Len(q) \in Nat \ {0}
           /\ q[1] \in ToSet(q) /\ q[1] \in S
           /\ \A k \in 1 .. Len(Tail(q)) : Tail(q)[k] = q[k + 1]
           /\ IsInjective(q) => IsInjective(Tail(q)) /\ ToSet(Tail(q)) = ToSet(q) \ {q[1]}
<1> DEFINE r == Tail(q)
<1>1. /\ r \in Seq(S) /\ Len(q) \in Nat \ {0} /\ Len(r) = Len(q) - 1
      /\ DOMAIN r = 1 .. Len(q) - 1 /\ DOMAIN q = 1 .. Len(q)
      /\ \A i \in DOMAIN r : r[i] = q[i + 1]
      /\ 1 \in DOMAIN q /\ q[1] \in S
  OBVIOUS
<1> HIDE DEF r
<1>2. q[1] \in ToSet(q)
  BY <1>1 DEF ToSet
<1>3. ASSUME IsInjective(q)
      PROVE  IsInjective(r) /\ ToSet(r) = ToSet(q) \ {q[1]}
  <2>1. IsInjective(r)
    BY <1>1, <1>3 DEF IsInjective
  <2>2. ASSUME NEW i \in DOMAIN r PROVE r[i] \in ToSet(q) /\ r[i] # q[1]
    <3>1. i + 1 \in DOMAIN q /\ i + 1 # 1
      BY <1>1
    <3> QED BY <1>1, <1>3, <3>1 DEF IsInjective, ToSet
  <2>3. ASSUME NEW i \in DOMAIN q, q[i] # q[1] PROVE q[i] \in ToSet(r)
    <3>1. i - 1 \in DOMAIN r /\ r[i - 1] = q[i]
      BY <1>1, <2>3
    <3> QED BY <3>1 DEF ToSet
  <2> QED BY <2>1, <2>2, <2>3 DEF ToSet
<1> QED BY <1>1, <1>2, <1>3 DEF r

(* The numbers up to n are n.                                              *)
LEMMA CountUpTo == \A n \in Nat : IsFiniteSet(1 .. n) /\ Cardinality(1 .. n) = n
<1> SUFFICES ASSUME NEW n \in Nat PROVE IsFiniteSet(1 .. n) /\ Cardinality(1 .. n) = n
  OBVIOUS
<1>1. 1 \in Int /\ n \in Int
  OBVIOUS
<1>2. IsFiniteSet(1 .. n) /\ Cardinality(1 .. n) = IF 1 > n THEN 0 ELSE n - 1 + 1
  BY <1>1, FS_Interval
<1> QED BY <1>2

(* The items in use of a chunk are finitely many.                          *)
LEMMA BoxFinite ==
    ASSUME NEW C, NEW T, NEW cap \in Nat, Box(C, T, cap)
    PROVE  IsFiniteSet(T) /\ T \subseteq 1 .. C.next_mem /\ T \subseteq 1 .. cap /\ (C.n_allocated = 0 <=> T = {})
<1>1. T \subseteq 1 .. C.next_mem /\ C.next_mem \in Nat /\ C.next_mem <= cap
  BY DEF Box, Chunk
<1>2. IsFiniteSet(1 .. C.next_mem)
  BY <1>1, CountUpTo
<1>3. IsFiniteSet(T)
  BY <1>1, <1>2, FS_Subset
<1>4. Cardinality(T) = 0 <=> T = {}
  BY <1>3, FS_EmptySet
<1> QED BY <1>1, <1>3, <1>4 DEF Box

(* mp_pool_get() takes an item that nobody has, in a chunk with room.      *)
LEMMA BoxTake ==
    ASSUME NEW C, NEW T, NEW cap \in Nat, Box(C, T, cap), C.n_allocated < cap
    PROVE  /\ Item(C) \in 1 .. cap /\ Item(C) \notin T
           /\ Box(Taken(C), T \cup {Item(C)}, cap)
           /\ Taken(C).n_allocated = C.n_allocated + 1
<1>1. IsFiniteSet(T) /\ T \subseteq 1 .. C.next_mem /\ T \subseteq 1 .. cap
  BY BoxFinite
<1>2. /\ C \in Chunk /\ C.first_free \in Seq(Nat) /\ C.next_mem \in Nat /\ C.n_allocated \in Nat /\ C.next_mem <= cap
      /\ C.n_allocated = Cardinality(T) /\ IsInjective(C.first_free) /\ ToSet(C.first_free) \cap T = {}
      /\ ToSet(C.first_free) \cup T = 1 .. C.next_mem
  BY DEF Box, Chunk
<1>3. ASSUME NEW i, i \notin T PROVE Cardinality(T \cup {i}) = Cardinality(T) + 1
  BY <1>1, <1>3, FS_AddElement
<1>4. CASE C.first_free # <<>>
  <2> DEFINE i == C.first_free[1]
             r == Tail(C.first_free)
             D == [first_free |-> r, next_mem |-> C.next_mem, n_allocated |-> C.n_allocated + 1, clean |-> FALSE]
  <2>1. Item(C) = i
    BY <1>4 DEF Item
  <2>2. Taken(C) = D
    BY <1>2, <1>4 DEF Taken
  <2>3. /\ i \in ToSet(C.first_free) /\ r \in Seq(Nat) /\ IsInjective(r)
        /\ ToSet(r) = ToSet(C.first_free) \ {i}
    BY <1>2, <1>4, TailFacts
  <2> HIDE DEF i, r
  <2>4. i \notin T /\ i \in 1 .. cap
    BY <1>2, <2>3
  <2>5. D \in Chunk
    BY <1>2, <2>3 DEF Chunk
  <2>6. ToSet(r) \cap (T \cup {i}) = {} /\ ToSet(r) \cup (T \cup {i}) = 1 .. C.next_mem
    BY <1>2, <2>3
  <2>7. Box(D, T \cup {i}, cap)
    BY <1>2, <1>3, <2>3, <2>4, <2>5, <2>6 DEF Box
  <2> QED BY <2>1, <2>2, <2>4, <2>7
<1>5. CASE C.first_free = <<>>
  <2> DEFINE i == C.next_mem + 1
             D == [first_free |-> <<>>, next_mem |-> C.next_mem + 1, n_allocated |-> C.n_allocated + 1, clean |-> FALSE]
  <2>1. Item(C) = i
    BY <1>5 DEF Item
  <2>2. Taken(C) = D
    BY <1>2, <1>5 DEF Taken
  <2>3. ToSet(C.first_free) = {} /\ ToSet(<<>>) = {} /\ IsInjective(<<>>)
    BY <1>5 DEF ToSet, IsInjective
  <2>4. T = 1 .. C.next_mem
    BY <1>2, <2>3
  <2>5. Cardinality(T) = C.next_mem
    BY <1>2, <2>4, CountUpTo
  <2>6. i \notin T /\ i \in 1 .. cap
    BY <1>2, <2>4, <2>5
  <2>7. D \in Chunk
    BY <1>2 DEF Chunk
  <2>8. T \cup {i} = 1 .. i
    BY <1>2, <2>4
  <2>10. C.next_mem + 1 <= cap /\ C.n_allocated + 1 = Cardinality(T \cup {i})
    BY <1>2, <1>3, <2>6
  <2> HIDE DEF i
  <2>11. D.next_mem = i /\ D.n_allocated = C.n_allocated + 1 /\ D.first_free = <<>>
    BY DEF i
  <2> HIDE DEF D
  <2>9. Box(D, T \cup {i}, cap)
    BY <2>3, <2>7, <2>8, <2>10, <2>11 DEF Box, i
  <2> QED BY <2>1, <2>2, <2>6, <2>9, <2>11
<1> QED BY <1>4, <1>5

(* mp_pool_release() puts an item that is in use before the free ones; of  *)
(* a chunk without items in use all memory can be carved again.            *)
LEMMA BoxGive ==
    ASSUME NEW C, NEW T, NEW cap \in Nat, Box(C, T, cap), NEW i \in T
    PROVE  /\ C.n_allocated \in 1 .. cap
           /\ Box(Given(C, i), T \ {i}, cap)
           /\ Given(C, i).n_allocated = C.n_allocated - 1 /\ Given(C, i).clean = C.clean
           /\ C.n_allocated = 1 => /\ T = {i} /\ Box(Emptied(C), {}, cap)
                                   /\ Emptied(C).n_allocated = 0 /\ Emptied(C).clean = C.clean
<1>1. IsFiniteSet(T) /\ T \subseteq 1 .. C.next_mem /\ T \subseteq 1 .. cap
  BY BoxFinite
<1>2. /\ C \in Chunk /\ C.first_free \in Seq(Nat) /\ C.next_mem \in Nat /\ C.n_allocated \in Nat /\ C.next_mem <= cap
      /\ C.n_allocated = Cardinality(T) /\ IsInjective(C.first_free) /\ ToSet(C.first_free) \cap T = {}
      /\ ToSet(C.first_free) \cup T = 1 .. C.next_mem /\ C.clean \in BOOLEAN
  BY DEF Box, Chunk
<1>3. Cardinality(T \ {i}) = Cardinality(T) - 1
  BY <1>1, FS_RemoveElement
<1>4. C.n_allocated \in 1 .. cap
  <2>1. C.n_allocated # 0
    BY BoxFinite
  <2>2. IsFiniteSet(1 .. cap) /\ Cardinality(1 .. cap) = cap
    BY CountUpTo
  <2>3. Cardinality(T) <= cap
    BY <1>1, <2>2, FS_Subset
  <2> QED BY <1>2, <2>1, <2>3
<1> DEFINE r == <<i>> \o C.first_free
           D == [first_free |-> r, next_mem |-> C.next_mem, n_allocated |-> C.n_allocated - 1, clean |-> C.clean]
<1>5. Given(C, i) = D
  BY <1>2 DEF Given
<1>6. i \in Nat /\ i \notin ToSet(C.first_free)
  BY <1>1, <1>2
<1>7. r \in Seq(Nat) /\ ToSet(r) = ToSet(C.first_free) \cup {i} /\ IsInjective(r)
  BY <1>2, <1>6, PushFacts
<1> HIDE DEF r
<1>8. D \in Chunk
  BY <1>2, <1>4, <1>7 DEF Chunk
<1>9. ToSet(r) \cap (T \ {i}) = {} /\ ToSet(r) \cup (T \ {i}) = 1 .. C.next_mem
  BY <1>2, <1>7
<1>10. Box(D, T \ {i}, cap)
  BY <1>2, <1>3, <1>7, <1>8, <1>9 DEF Box
<1>11. ASSUME C.n_allocated = 1
       PROVE  /\ T = {i} /\ Box(Emptied(C), {}, cap)
              /\ Emptied(C).n_allocated = 0 /\ Emptied(C).clean = C.clean
  <2> DEFINE E == [first_free |-> <<>>, next_mem |-> 0, n_allocated |-> 0, clean |-> C.clean]
  <2>1. Emptied(C) = E
    BY <1>11 DEF Emptied
  <2>2. T \ {i} = {}
    <3>1. IsFiniteSet(T \ {i})
      BY <1>1, FS_RemoveElement
    <3>2. Cardinality(T \ {i}) = 0
      BY <1>2, <1>3, <1>11
    <3> QED BY <3>1, <3>2, FS_EmptySet
  <2>3. E \in Chunk
    BY <1>2 DEF Chunk
  <2>4. Cardinality({}) = 0 /\ ToSet(<<>>) = {} /\ IsInjective(<<>>) /\ 1 .. 0 = {}
    BY FS_EmptySet DEF ToSet, IsInjective
  <2>5. Box(E, {}, cap)
    BY <2>3, <2>4 DEF Box
  <2> QED BY <2>1, <2>2, <2>5
<1> QED BY <1>4, <1>5, <1>10, <1>11

-----------------------------------------------------------------------------
(* The items that the program holds of a pool are in its chunks.           *)
Inside(P, x, H) == \A it \in H : it[1] = x => it[2] \in DOMAIN P.chunks /\ it[3] \in 1 .. P.capacity

(* A chunk that is not the pool's has a name that no chunk has.            *)
LEMMA NewIdFacts ==
    ASSUME NEW P, IsFiniteSet(DOMAIN P.chunks)
    PROVE  NewId(P) \in Nat /\ NewId(P) \notin DOMAIN P.chunks
<1> DEFINE D == DOMAIN P.chunks
           n == Cardinality(D) + 1
<1>1. Cardinality(D) \in Nat
  BY FS_CardinalityType
<1>2. Cardinality(1 .. n) = n /\ IsFiniteSet(1 .. n)
  BY <1>1, CountUpTo
<1>3. \E k \in 1 .. n : k \notin D
  <2> SUFFICES ASSUME 1 .. n \subseteq D PROVE FALSE
    OBVIOUS
  <2>1. Cardinality(1 .. n) <= Cardinality(D)
    BY FS_Subset
  <2> QED BY <1>1, <1>2, <2>1
<1>4. NewId(P) \in 1 .. n /\ NewId(P) \notin D
  BY <1>3 DEF NewId
<1> QED BY <1>1, <1>4

(* The chunk that mp_pool_get() takes an item from is the first one of     *)
(* used_chunks, and has room.                                              *)
LEMMA UsableFacts ==
    ASSUME NEW P, NEW x, NEW H, Sound(P, x, H), Filled(P), Inside(P, x, H)
    PROVE  Sound(Usable(P), x, H) /\ Opened(Usable(P)) /\ Inside(Usable(P), x, H)
<1>0. Shape(P) /\ Lists(P) /\ Marks(P) /\ Boxes(P, x, H)
  BY DEF Sound
<1>1. CASE P.used # <<>>
  <2>1. Usable(P) = P
    BY <1>1 DEF Usable
  <2>2. P.used[1] \in ToSet(P.used)
    BY <1>0, <1>1, TailFacts DEF Lists
  <2>3. Opened(P)
    BY <1>0, <1>1, <2>2 DEF Opened, Filled, Shape
  <2> QED BY <2>1, <2>3
<1>2. CASE P.used = <<>> /\ P.empty # <<>>
  <2>00. P = Rec(P.capacity, P.used, P.empty, P.full, P.n_empty, P.min_empty, P.chunks, P.early)
    BY <1>0 DEF Shape
  <2>1. PICK e : e = P.empty[1]
    OBVIOUS
  <2>u. PICK u : u = <<e>> \o P.used
    OBVIOUS
  <2>t. PICK t : t = Tail(P.empty)
    OBVIOUS
  <2>2. PICK m : m = Min({P.min_empty, P.n_empty - 1})
    OBVIOUS
  <2>3. PICK Q : Q = Rec(P.capacity, u, t, P.full, P.n_empty - 1, m, P.chunks, P.early)
    OBVIOUS
  <2>4. Usable(P) = Q
    <3>1. PICK A : A = [P EXCEPT !.empty = t]
      OBVIOUS
    <3>2. A = Rec(P.capacity, P.used, t, P.full, P.n_empty, P.min_empty, P.chunks, P.early)
      BY <2>00, <3>1 DEF Rec
    <3>3. PICK B : B = [A EXCEPT !.n_empty = P.n_empty - 1]
      OBVIOUS
    <3>4. B = Rec(P.capacity, P.used, t, P.full, P.n_empty - 1, P.min_empty, P.chunks, P.early)
      BY <3>2, <3>3 DEF Rec
    <3>5. PICK D : D = [B EXCEPT !.min_empty = m]
      OBVIOUS
    <3>6. D = Rec(P.capacity, P.used, t, P.full, P.n_empty - 1, m, P.chunks, P.early)
      BY <3>4, <3>5 DEF Rec
    <3>7. [P EXCEPT !.empty = t, !.n_empty = P.n_empty - 1, !.min_empty = m] = D
      BY <3>1, <3>3, <3>5
    <3>8. D.used = P.used /\ [D EXCEPT !.used = u] = Q
      BY <2>3, <3>6 DEF Rec
    <3>9. add_newly_used_chunk_to_used_list(D, e) = Q
      BY <3>8, <2>u DEF add_newly_used_chunk_to_used_list
    <3> QED BY <1>2, <2>1, <2>2, <2>t, <3>7, <3>9 DEF Usable
  <2>5. /\ e \in Nat /\ e \in ToSet(P.empty) /\ Tail(P.empty) \in Seq(Nat) /\ IsInjective(Tail(P.empty))
        /\ ToSet(Tail(P.empty)) = ToSet(P.empty) \ {e} /\ Len(Tail(P.empty)) = Len(P.empty) - 1
        /\ Len(P.empty) \in Nat \ {0} /\ \A k \in 1 .. Len(Tail(P.empty)) : Tail(P.empty)[k] = P.empty[k + 1]
    BY <1>0, <1>2, <2>1, TailFacts DEF Lists
  <2>6. <<e>> \o P.used \in Seq(Nat) /\ ToSet(<<e>> \o P.used) = ToSet(P.used) \cup {e} /\ IsInjective(<<e>> \o P.used)
    BY <1>0, <2>5, PushFacts DEF Lists
  <2>7. (<<e>> \o P.used)[1] = e /\ <<e>> \o P.used # <<>> /\ ToSet(P.used) = {}
    BY <1>2 DEF ToSet
  <2>8. P.n_empty = Len(P.empty) /\ P.min_empty \in 0 .. P.n_empty
    BY <1>0 DEF Marks
  <2>9. m \in 0 .. P.n_empty - 1 /\ m <= P.min_empty
    <3>1. P.min_empty \in Int /\ P.n_empty - 1 \in Int
      BY <2>5, <2>8
    <3>2. \E z \in {P.min_empty, P.n_empty - 1} : \A y \in {P.min_empty, P.n_empty - 1} : z =< y
      BY <3>1
    <3>3. m \in {P.min_empty, P.n_empty - 1} /\ \A y \in {P.min_empty, P.n_empty - 1} : m =< y
      BY <3>2, <2>2 DEF Min
    <3> QED BY <3>1, <3>3, <2>5, <2>8
  <2>f. /\ Q.capacity = P.capacity /\ Q.used = u /\ Q.empty = t /\ Q.full = P.full
        /\ Q.n_empty = P.n_empty - 1 /\ Q.min_empty = m /\ Q.chunks = P.chunks /\ Q.early = P.early
    BY <2>3 DEF Rec
  <2>0. /\ Q.capacity = P.capacity /\ Q.used = <<e>> \o P.used /\ Q.empty = Tail(P.empty) /\ Q.full = P.full
        /\ Q.n_empty = P.n_empty - 1 /\ Q.min_empty = m /\ Q.chunks = P.chunks /\ Q.early = P.early
    BY <2>f, <2>u, <2>t
  <2>10. Shape(Q)
    BY <1>0, <2>0, <2>3, <2>f DEF Shape
  <2>11. Lists(Q)
    BY <1>0, <2>0, <2>5, <2>6 DEF Lists
  <2>12. Marks(Q)
    <3>1. Q.n_empty = Len(Q.empty) /\ Q.min_empty \in 0 .. Q.n_empty /\ Q.early = {}
      BY <1>0, <2>0, <2>5, <2>8, <2>9 DEF Marks
    <3>2. ASSUME NEW k \in 1 .. Len(Q.empty), k > Q.n_empty - Q.min_empty
          PROVE  Q.chunks[Q.empty[k]].clean
      <4>0. Q.empty = Tail(P.empty) /\ Q.n_empty = P.n_empty - 1 /\ Q.min_empty = m
        BY <2>0
      <4>2. k \in 1 .. Len(P.empty) - 1 /\ k > P.n_empty - 1 - m /\ k \in Int
        BY <3>2, <4>0, <2>5
      <4>3. k + 1 \in 1 .. Len(P.empty) /\ k + 1 > P.n_empty - P.min_empty
        BY <4>2, <2>5, <2>8, <2>9
      <4>1. k + 1 \in 1 .. Len(P.empty) /\ k + 1 > P.n_empty - P.min_empty /\ Q.empty[k] = P.empty[k + 1]
        BY <3>2, <4>0, <4>3, <2>5
      <4> QED BY <1>0, <4>1, <2>0 DEF Marks
    <3> QED BY <3>1, <3>2 DEF Marks
  <2>13. Boxes(Q, x, H)
    BY <1>0, <2>0 DEF Boxes
  <2>14. Opened(Q)
    <3>1. Level(P, e) = 0 /\ P.capacity \in Nat /\ P.capacity >= 2
      BY <1>0, <2>5 DEF Filled, Shape
    <3>2. Q.used[1] = e /\ Q.used # <<>> /\ ToSet(Q.used) = {e} /\ Q.chunks = P.chunks /\ Q.capacity = P.capacity
          /\ ToSet(Q.empty) \subseteq ToSet(P.empty) /\ Q.full = P.full
      BY <2>0, <2>5, <2>6, <2>7
    <3> QED BY <3>1, <3>2 DEF Opened, Filled, Level
  <2>15. Inside(Q, x, H)
    BY <2>0 DEF Inside
  <2> QED BY <2>4, <2>10, <2>11, <2>12, <2>13, <2>14, <2>15 DEF Sound
<1>3. CASE P.used = <<>> /\ P.empty = <<>>
  <2>00. P = Rec(P.capacity, P.used, P.empty, P.full, P.n_empty, P.min_empty, P.chunks, P.early)
    BY <1>0 DEF Shape
  <2>1. PICK e : e = NewId(P)
    OBVIOUS
  <2>u. PICK u : u = <<e>> \o P.used
    OBVIOUS
  <2>2. e \in Nat /\ e \notin DOMAIN P.chunks
    BY <1>0, <2>1, NewIdFacts DEF Shape
  <2>3. PICK N : N = [first_free |-> <<>>, next_mem |-> 0, n_allocated |-> 0, clean |-> FALSE]
    OBVIOUS
  <2>4. PICK ch : ch = [id \in DOMAIN P.chunks \cup {e} |-> IF id = e THEN N ELSE P.chunks[id]]
    OBVIOUS
  <2>5. /\ DOMAIN ch = DOMAIN P.chunks \cup {e} /\ ch[e] = N /\ \A id \in DOMAIN P.chunks : ch[id] = P.chunks[id]
        /\ ch = [id \in DOMAIN ch |-> ch[id]]
    BY <2>2, <2>4
  <2>6. PICK Q : Q = Rec(P.capacity, u, P.empty, P.full, P.n_empty, P.min_empty, ch, P.early)
    OBVIOUS
  <2>7. Usable(P) = Q
    <3>1. mp_chunk_new(P) = ch
      BY <2>1, <2>3, <2>4 DEF mp_chunk_new
    <3>2. PICK D : D = [P EXCEPT !.chunks = ch]
      OBVIOUS
    <3>3. D = Rec(P.capacity, P.used, P.empty, P.full, P.n_empty, P.min_empty, ch, P.early)
      BY <2>00, <3>2 DEF Rec
    <3>4. D.used = P.used /\ [D EXCEPT !.used = u] = Q
      BY <2>6, <3>3 DEF Rec
    <3>5. add_newly_used_chunk_to_used_list(D, e) = Q
      BY <3>4, <2>u DEF add_newly_used_chunk_to_used_list
    <3> QED BY <1>3, <2>1, <3>1, <3>2, <3>5 DEF Usable
  <2>8. <<e>> \o P.used \in Seq(Nat) /\ ToSet(<<e>> \o P.used) = {e} /\ IsInjective(<<e>> \o P.used)
    <3>1. ToSet(P.used) = {} /\ P.used \in Seq(Nat) /\ IsInjective(P.used)
      BY <1>0, <1>3 DEF ToSet, Lists
    <3>2. /\ <<e>> \o P.used \in Seq(Nat) /\ ToSet(<<e>> \o P.used) = ToSet(P.used) \cup {e}
          /\ IsInjective(P.used) /\ e \notin ToSet(P.used) => IsInjective(<<e>> \o P.used)
      BY <2>2, <3>1, PushFacts
    <3> QED BY <3>1, <3>2
  <2>9. (<<e>> \o P.used)[1] = e /\ <<e>> \o P.used # <<>> /\ ToSet(P.used) = {} /\ ToSet(P.empty) = {} /\ Len(P.empty) = 0
    BY <1>3 DEF ToSet
  <2>f. /\ Q.capacity = P.capacity /\ Q.used = u /\ Q.empty = P.empty /\ Q.full = P.full
        /\ Q.n_empty = P.n_empty /\ Q.min_empty = P.min_empty /\ Q.chunks = ch /\ Q.early = P.early
    BY <2>6 DEF Rec
  <2>0. /\ Q.capacity = P.capacity /\ Q.used = <<e>> \o P.used /\ Q.empty = P.empty /\ Q.full = P.full
        /\ Q.n_empty = P.n_empty /\ Q.min_empty = P.min_empty /\ Q.chunks = ch /\ Q.early = P.early
    BY <2>f, <2>u
  <2>10. Shape(Q)
    <3>1. IsFiniteSet(DOMAIN P.chunks \cup {e})
      BY <1>0, FS_AddElement DEF Shape
    <3> QED BY <1>0, <2>0, <2>f, <2>5, <2>6, <3>1 DEF Shape
  <2>11. Lists(Q)
    BY <1>0, <2>2, <2>5, <2>0, <2>8, <2>9 DEF Lists
  <2>12. Marks(Q)
    BY <1>0, <2>0, <2>9 DEF Marks
  <2>13. Boxes(Q, x, H)
    <3>1. TakenOf(x, e, H, P.capacity) = {}
      <4> SUFFICES ASSUME NEW i \in 1 .. P.capacity, <<x, e, i>> \in H PROVE FALSE
        BY DEF TakenOf
      <4>1. <<x, e, i>>[1] = x /\ <<x, e, i>>[2] = e
        OBVIOUS
      <4> QED BY <4>1, <2>2 DEF Inside
    <3>2. Box(N, {}, P.capacity)
      <4>1. N \in Chunk /\ N.next_mem = 0 /\ N.first_free = <<>> /\ N.n_allocated = 0
        BY <2>3 DEF Chunk
      <4>2. Cardinality({}) = 0 /\ ToSet(<<>>) = {} /\ IsInjective(<<>>) /\ 1 .. 0 = {}
        BY FS_EmptySet DEF ToSet, IsInjective
      <4>3. 0 <= P.capacity
        BY <1>0 DEF Shape
      <4> QED BY <4>1, <4>2, <4>3 DEF Box
    <3> QED BY <1>0, <2>5, <2>0, <3>1, <3>2 DEF Boxes
  <2>14. Opened(Q)
    <3>1. N.n_allocated = 0 /\ P.capacity \in Nat /\ P.capacity >= 2
      BY <1>0, <2>3 DEF Shape
    <3>2. /\ Q.used[1] = e /\ Q.used # <<>> /\ ToSet(Q.used) = {e} /\ Q.capacity = P.capacity
          /\ ToSet(Q.empty) = {} /\ Q.full = P.full /\ Q.chunks[e] = N
      BY <2>5, <2>0, <2>8, <2>9
    <3>3. \A id \in ToSet(P.full) : id \in DOMAIN P.chunks /\ Q.chunks[id] = P.chunks[id]
      BY <1>0, <2>5, <2>0 DEF Lists
    <3> QED BY <3>1, <3>2, <3>3 DEF Opened, Filled, Level
  <2>15. Inside(Q, x, H)
    BY <2>5, <2>0 DEF Inside
  <2> QED BY <2>7, <2>10, <2>11, <2>12, <2>13, <2>14, <2>15 DEF Sound
<1> QED BY <1>1, <1>2, <1>3

(* The name of an item tells its pool, its chunk and its place.            *)
LEMMA ItemNames ==
    /\ \A x, id, i, j : <<x, id, j>> = <<x, id, i>> <=> j = i
    /\ \A x, id, i, y, d, j : y # x \/ d # id => <<y, d, j>> # <<x, id, i>>
OBVIOUS

(* mp_pool_get(): the item comes from the first used chunk, which moves to *)
(* full_chunks with its last item.                                         *)
LEMMA GotFacts ==
    ASSUME NEW P, NEW x, NEW H, Sound(P, x, H), Opened(P), Inside(P, x, H), NEW id, id = P.used[1],
           NEW i, i = Item(P.chunks[id]), NEW G, G = H \cup {<<x, id, i>>}
    PROVE  /\ Sound(Got(P), x, G) /\ Filled(Got(P)) /\ Inside(Got(P), x, G)
           /\ id \in DOMAIN Got(P).chunks /\ i \in 1 .. Got(P).capacity
<1>0. Shape(P) /\ Lists(P) /\ Marks(P) /\ Boxes(P, x, H)
  BY DEF Sound
<1>1. /\ P = Rec(P.capacity, P.used, P.empty, P.full, P.n_empty, P.min_empty, P.chunks, P.early)
      /\ P.capacity \in Nat /\ P.capacity >= 2 /\ P.used # <<>>
  BY <1>0 DEF Shape, Opened
<1>2. /\ id \in ToSet(P.used) /\ id \in Nat /\ Tail(P.used) \in Seq(Nat) /\ IsInjective(Tail(P.used))
      /\ ToSet(Tail(P.used)) = ToSet(P.used) \ {id}
  BY <1>0, <1>1, TailFacts DEF Lists
<1>3. id \in DOMAIN P.chunks /\ id \notin ToSet(P.empty) /\ id \notin ToSet(P.full)
  BY <1>0, <1>2 DEF Lists
<1>4. PICK C : C = P.chunks[id]
  OBVIOUS
<1>5. PICK T : T = TakenOf(x, id, H, P.capacity)
  OBVIOUS
<1>6. Box(C, T, P.capacity) /\ C.n_allocated \in 0 .. P.capacity - 1
  BY <1>0, <1>3, <1>4, <1>5 DEF Boxes, Opened, Level
<1>7. PICK D : D = Taken(C)
  OBVIOUS
<1>8. i \in 1 .. P.capacity /\ Box(D, T \cup {i}, P.capacity) /\ D.n_allocated = C.n_allocated + 1
  <2>1. P.capacity \in Nat /\ C.n_allocated < P.capacity
    BY <1>1, <1>6
  <2>2. /\ Item(C) \in 1 .. P.capacity /\ Box(Taken(C), T \cup {Item(C)}, P.capacity)
        /\ Taken(C).n_allocated = C.n_allocated + 1
    BY <1>6, <2>1, BoxTake
  <2> QED BY <2>2, <1>4, <1>7
<1>9. PICK ch : ch = [P.chunks EXCEPT ![id] = D]
  OBVIOUS
<1>10. /\ DOMAIN ch = DOMAIN P.chunks /\ ch[id] = D /\ \A d \in DOMAIN P.chunks : d # id => ch[d] = P.chunks[d]
       /\ ch = [d \in DOMAIN ch |-> ch[d]] /\ IsFiniteSet(DOMAIN ch)
  BY <1>0, <1>3, <1>9 DEF Shape
<1>11. PICK Q : Q = Rec(P.capacity, P.used, P.empty, P.full, P.n_empty, P.min_empty, ch, P.early)
  OBVIOUS
<1>12. [P EXCEPT !.chunks[id] = Taken(P.chunks[id])] = Q
  BY <1>1, <1>4, <1>7, <1>9, <1>11 DEF Rec
<1>13. Q.chunks[id] = D /\ Q.used = P.used /\ Q.full = P.full
  BY <1>10, <1>11 DEF Rec
<1>14. \A d \in DOMAIN P.chunks : Box(ch[d], TakenOf(x, d, G, P.capacity), P.capacity)
  <2>0. i \in 1 .. P.capacity
    BY <1>8
  <2>3. /\ TakenOf(x, id, G, P.capacity) = T \cup {i}
        /\ \A y, d, c : y # x \/ d # id => TakenOf(y, d, G, c) = TakenOf(y, d, H, c)
    <3>1. TakenOf(x, id, G, P.capacity) = T \cup {i}
      BY <1>5, <2>0, ItemNames DEF TakenOf
    <3>2. \A y, d2, c : y # x \/ d2 # id => TakenOf(y, d2, G, c) = TakenOf(y, d2, H, c)
      BY ItemNames DEF TakenOf
    <3> QED BY <3>1, <3>2
  <2> SUFFICES ASSUME NEW d \in DOMAIN P.chunks PROVE Box(ch[d], TakenOf(x, d, G, P.capacity), P.capacity)
    OBVIOUS
  <2>1. CASE d = id
    <3>1. TakenOf(x, id, G, P.capacity) = T \cup {i}
      BY <2>3
    <3> QED BY <1>8, <1>10, <2>1, <3>1
  <2>2. CASE d # id
    <3>1. TakenOf(x, d, G, P.capacity) = TakenOf(x, d, H, P.capacity)
      BY <2>2, <2>3
    <3> QED BY <1>0, <1>10, <2>2, <3>1 DEF Boxes
  <2> QED BY <2>1, <2>2
<1>15. \A it \in G : it[1] = x => it[2] \in DOMAIN P.chunks /\ it[3] \in 1 .. P.capacity
  <2>1. <<x, id, i>>[2] = id /\ <<x, id, i>>[3] = i
    OBVIOUS
  <2> QED BY <1>3, <1>8, <2>1 DEF Inside
<1>16. \A R : /\ R.chunks = ch /\ R.capacity = P.capacity /\ R.empty = P.empty /\ R.n_empty = P.n_empty
              /\ R.min_empty = P.min_empty /\ R.early = P.early
              /\ R = Rec(R.capacity, R.used, R.empty, R.full, R.n_empty, R.min_empty, R.chunks, R.early)
              => Shape(R) /\ Boxes(R, x, G) /\ Inside(R, x, G) /\ Marks(R)
  <2> SUFFICES ASSUME NEW R, R.chunks = ch, R.capacity = P.capacity, R.empty = P.empty, R.n_empty = P.n_empty,
                      R.min_empty = P.min_empty, R.early = P.early,
                      R = Rec(R.capacity, R.used, R.empty, R.full, R.n_empty, R.min_empty, R.chunks, R.early)
               PROVE  Shape(R) /\ Boxes(R, x, G) /\ Inside(R, x, G) /\ Marks(R)
    OBVIOUS
  <2>1. Shape(R)
    BY <1>1, <1>10 DEF Shape
  <2>2. Boxes(R, x, G)
    BY <1>10, <1>14 DEF Boxes
  <2>3. Inside(R, x, G)
    BY <1>10, <1>15 DEF Inside
  <2>4. Marks(R)
    <3>1. ASSUME NEW k \in 1 .. Len(P.empty)
          PROVE  ch[P.empty[k]] = P.chunks[P.empty[k]]
      <4>1. P.empty[k] \in ToSet(P.empty)
        BY <1>0 DEF Lists, ToSet
      <4>2. P.empty[k] \in DOMAIN P.chunks /\ P.empty[k] # id
        BY <1>0, <1>3, <4>1 DEF Lists
      <4> QED BY <1>10, <4>2
    <3> QED BY <1>0, <3>1 DEF Marks
  <2> QED BY <2>1, <2>2, <2>3, <2>4
<1>17. \A d \in ToSet(P.used) \cup ToSet(P.empty) \cup ToSet(P.full) : d # id => ch[d] = P.chunks[d]
  BY <1>0, <1>10 DEF Lists
<1>18. CASE D.n_allocated = P.capacity
  <2>1. PICK u : u = Tail(P.used)
    OBVIOUS
  <2>2. PICK f : f = <<id>> \o P.full
    OBVIOUS
  <2>3. PICK A : A = [Q EXCEPT !.used = u]
    OBVIOUS
  <2>4. A = Rec(P.capacity, u, P.empty, P.full, P.n_empty, P.min_empty, ch, P.early)
    BY <1>11, <2>3 DEF Rec
  <2>5. PICK R : R = [A EXCEPT !.full = f]
    OBVIOUS
  <2>6. R = Rec(P.capacity, u, P.empty, f, P.n_empty, P.min_empty, ch, P.early)
    BY <2>4, <2>5 DEF Rec
  <2>7. Got(P) = R
    <3>1. [Q EXCEPT !.used = Tail(Q.used), !.full = <<id>> \o Q.full] = R
      BY <1>13, <2>1, <2>2, <2>3, <2>5
    <3> QED BY <1>12, <1>13, <1>18, <3>1 DEF Got
  <2>8. /\ R.capacity = P.capacity /\ R.used = u /\ R.empty = P.empty /\ R.full = f /\ R.n_empty = P.n_empty
        /\ R.min_empty = P.min_empty /\ R.chunks = ch /\ R.early = P.early
    BY <2>6 DEF Rec
  <2>9. f \in Seq(Nat) /\ ToSet(f) = ToSet(P.full) \cup {id} /\ IsInjective(f)
    BY <1>0, <1>2, <1>3, <2>2, PushFacts DEF Lists
  <2>10. Lists(R)
    BY <1>0, <1>2, <1>3, <1>10, <2>1, <2>8, <2>9 DEF Lists
  <2>11. Shape(R) /\ Boxes(R, x, G) /\ Inside(R, x, G) /\ Marks(R)
    BY <1>16, <2>6, <2>8
  <2>12. Filled(R)
    <3>1. ToSet(R.used) = ToSet(P.used) \ {id} /\ ToSet(R.empty) = ToSet(P.empty) /\ ToSet(R.full) = ToSet(P.full) \cup {id}
      BY <1>2, <2>1, <2>8, <2>9
    <3> QED BY <1>3, <1>10, <1>17, <1>18, <2>8, <3>1 DEF Filled, Opened, Level
  <2> QED BY <1>3, <1>8, <1>10, <2>7, <2>8, <2>10, <2>11, <2>12 DEF Sound
<1>19. CASE D.n_allocated # P.capacity
  <2>1. Got(P) = Q
    BY <1>12, <1>13, <1>19 DEF Got
  <2>2. /\ Q.capacity = P.capacity /\ Q.used = P.used /\ Q.empty = P.empty /\ Q.full = P.full /\ Q.n_empty = P.n_empty
        /\ Q.min_empty = P.min_empty /\ Q.chunks = ch /\ Q.early = P.early
    BY <1>11 DEF Rec
  <2>3. Lists(Q)
    BY <1>0, <1>10, <2>2 DEF Lists
  <2>4. Shape(Q) /\ Boxes(Q, x, G) /\ Inside(Q, x, G) /\ Marks(Q)
    BY <1>11, <1>16, <2>2
  <2>5. Filled(Q)
    <3>1. D.n_allocated \in 1 .. P.capacity - 1
      BY <1>1, <1>6, <1>8, <1>19
    <3> QED BY <1>3, <1>10, <1>17, <2>2, <3>1 DEF Filled, Opened, Level
  <2> QED BY <1>3, <1>8, <1>10, <2>1, <2>2, <2>3, <2>4, <2>5 DEF Sound
<1> QED BY <1>18, <1>19

(* Taking a chunk out of a list.                                           *)
LEMMA WithoutFacts ==
    ASSUME NEW S, NEW q \in Seq(S), NEW id
    PROVE  /\ Without(q, id) \in Seq(S) /\ ToSet(Without(q, id)) = ToSet(q) \ {id}
           /\ IsInjective(q) => IsInjective(Without(q, id))
<1>1. /\ Without(q, id) \in Seq(S) /\ ToSet(Without(q, id)) = ToSet(q) \cap (ToSet(q) \ {id})
      /\ IsInjective(q) => IsInjective(Without(q, id))
  BY KeepFacts DEF Without
<1> QED BY <1>1

(* mp_pool_release(): a full chunk becomes used, and a used one whose last *)
(* item comes back is put before the empty ones.                           *)
LEMMA ReleasedFacts ==
    ASSUME NEW P, NEW x, NEW H, Sound(P, x, H), Filled(P), Inside(P, x, H), NEW id, id \in DOMAIN P.chunks,
           NEW i, i \in 1 .. P.capacity, <<x, id, i>> \in H, NEW G, G = H \ {<<x, id, i>>}
    PROVE  /\ Sound(Released(P, id, i), x, G) /\ Filled(Released(P, id, i)) /\ Inside(Released(P, id, i), x, G)
<1>0. Shape(P) /\ Lists(P) /\ Marks(P) /\ Boxes(P, x, H)
  BY DEF Sound
<1>1. /\ P = Rec(P.capacity, P.used, P.empty, P.full, P.n_empty, P.min_empty, P.chunks, P.early)
      /\ P.capacity \in Nat /\ P.capacity >= 2 /\ id \in Nat
  <2>1. ToSet(P.used) \subseteq Nat /\ ToSet(P.empty) \subseteq Nat /\ ToSet(P.full) \subseteq Nat
    BY <1>0 DEF Lists, ToSet
  <2>2. id \in Nat
    BY <1>0, <2>1 DEF Lists
  <2> QED BY <1>0, <2>2 DEF Shape
<1>4. PICK C : C = P.chunks[id]
  OBVIOUS
<1>5. PICK T : T = TakenOf(x, id, H, P.capacity)
  OBVIOUS
<1>6. Box(C, T, P.capacity) /\ i \in T
  BY <1>0, <1>4, <1>5 DEF Boxes, TakenOf
<1>7. /\ C.n_allocated \in 1 .. P.capacity
      /\ Box(Given(C, i), T \ {i}, P.capacity)
      /\ Given(C, i).n_allocated = C.n_allocated - 1 /\ Given(C, i).clean = C.clean
      /\ C.n_allocated = 1 => /\ T = {i} /\ Box(Emptied(C), {}, P.capacity)
                              /\ Emptied(C).n_allocated = 0 /\ Emptied(C).clean = C.clean
  BY <1>1, <1>6, BoxGive
<1>8. PICK D : D = IF C.n_allocated # P.capacity /\ C.n_allocated = 1 THEN Emptied(C) ELSE Given(C, i)
  OBVIOUS
<1>9. Box(D, T \ {i}, P.capacity) /\ D.n_allocated = C.n_allocated - 1 /\ D.clean = C.clean
  <2>1. CASE C.n_allocated # P.capacity /\ C.n_allocated = 1
    <3>1. T \ {i} = {} /\ D = Emptied(C) /\ C.n_allocated - 1 = 0
      BY <1>7, <1>8, <2>1
    <3> QED BY <1>7, <2>1, <3>1
  <2>2. CASE ~ (C.n_allocated # P.capacity /\ C.n_allocated = 1)
    <3>1. D = Given(C, i)
      BY <1>8, <2>2
    <3> QED BY <1>7, <3>1
  <2> QED BY <2>1, <2>2
<1>10. PICK ch : ch = [P.chunks EXCEPT ![id] = D]
  OBVIOUS
<1>11. /\ DOMAIN ch = DOMAIN P.chunks /\ ch[id] = D /\ \A d \in DOMAIN P.chunks : d # id => ch[d] = P.chunks[d]
       /\ ch = [d \in DOMAIN ch |-> ch[d]] /\ IsFiniteSet(DOMAIN ch)
  BY <1>0, <1>10 DEF Shape
<1>12. \A d \in DOMAIN P.chunks : ch[d].clean = P.chunks[d].clean
  BY <1>4, <1>9, <1>11
<1>13. PICK Q : Q = Rec(P.capacity, P.used, P.empty, P.full, P.n_empty, P.min_empty, ch, P.early)
  OBVIOUS
<1>14. [P EXCEPT !.chunks[id] = D] = Q
  BY <1>1, <1>10, <1>13 DEF Rec
<1>15. \A d \in DOMAIN P.chunks : Box(ch[d], TakenOf(x, d, G, P.capacity), P.capacity)
  <2> SUFFICES ASSUME NEW d \in DOMAIN P.chunks PROVE Box(ch[d], TakenOf(x, d, G, P.capacity), P.capacity)
    OBVIOUS
  <2>0. /\ TakenOf(x, id, G, P.capacity) = T \ {i}
        /\ \A y, d2, c : y # x \/ d2 # id => TakenOf(y, d2, G, c) = TakenOf(y, d2, H, c)
    <3>1. TakenOf(x, id, G, P.capacity) = T \ {i}
      BY <1>5, ItemNames DEF TakenOf
    <3>2. \A y, d2, c : y # x \/ d2 # id => TakenOf(y, d2, G, c) = TakenOf(y, d2, H, c)
      BY ItemNames DEF TakenOf
    <3> QED BY <3>1, <3>2
  <2>1. CASE d = id
    BY <1>9, <1>11, <2>0, <2>1
  <2>2. CASE d # id
    <3>1. TakenOf(x, d, G, P.capacity) = TakenOf(x, d, H, P.capacity)
      BY <2>0, <2>2
    <3> QED BY <1>0, <1>11, <2>2, <3>1 DEF Boxes
  <2> QED BY <2>1, <2>2
<1>16. \A it \in G : it[1] = x => it[2] \in DOMAIN P.chunks /\ it[3] \in 1 .. P.capacity
  BY DEF Inside
<1>17. \A R : /\ R.chunks = ch /\ R.capacity = P.capacity
              /\ R = Rec(R.capacity, R.used, R.empty, R.full, R.n_empty, R.min_empty, R.chunks, R.early)
              => Shape(R) /\ Boxes(R, x, G) /\ Inside(R, x, G)
  <2> SUFFICES ASSUME NEW R, R.chunks = ch, R.capacity = P.capacity,
                      R = Rec(R.capacity, R.used, R.empty, R.full, R.n_empty, R.min_empty, R.chunks, R.early)
               PROVE  Shape(R) /\ Boxes(R, x, G) /\ Inside(R, x, G)
    OBVIOUS
  <2>1. Shape(R)
    BY <1>1, <1>11 DEF Shape
  <2>2. Boxes(R, x, G)
    BY <1>11, <1>15 DEF Boxes
  <2>3. Inside(R, x, G)
    BY <1>11, <1>16 DEF Inside
  <2> QED BY <2>1, <2>2, <2>3
<1>18. \A d \in ToSet(P.used) \cup ToSet(P.empty) \cup ToSet(P.full) : d # id => ch[d] = P.chunks[d]
  BY <1>0, <1>11 DEF Lists
<1>19. \A k \in 1 .. Len(P.empty) : ch[P.empty[k]].clean = P.chunks[P.empty[k]].clean
  <2> SUFFICES ASSUME NEW k \in 1 .. Len(P.empty) PROVE ch[P.empty[k]].clean = P.chunks[P.empty[k]].clean
    OBVIOUS
  <2>1. P.empty[k] \in ToSet(P.empty)
    BY <1>0 DEF Lists, ToSet
  <2> QED BY <1>0, <1>12, <2>1 DEF Lists
<1>20. /\ Level(P, id) = C.n_allocated /\ id \in ToSet(P.used) \cup ToSet(P.empty) \cup ToSet(P.full)
       /\ id \notin ToSet(P.empty)
  BY <1>0, <1>4, <1>7 DEF Level, Lists, Filled
<1>21. CASE C.n_allocated = P.capacity
  <2>1. PICK u : u = <<id>> \o P.used
    OBVIOUS
  <2>2. PICK f : f = Without(P.full, id)
    OBVIOUS
  <2>3. PICK A : A = [Q EXCEPT !.full = f]
    OBVIOUS
  <2>4. A = Rec(P.capacity, P.used, P.empty, f, P.n_empty, P.min_empty, ch, P.early)
    BY <1>13, <2>3 DEF Rec
  <2>5. PICK R : R = [A EXCEPT !.used = u]
    OBVIOUS
  <2>6. R = Rec(P.capacity, u, P.empty, f, P.n_empty, P.min_empty, ch, P.early)
    BY <2>4, <2>5 DEF Rec
  <2>7. Released(P, id, i) = R
    <3>1. [P EXCEPT !.chunks[id] = D, !.full = f, !.used = u] = R
      BY <1>14, <2>3, <2>5
    <3>2. D = Given(C, i)
      BY <1>8, <1>21
    <3> QED BY <1>4, <1>21, <2>1, <2>2, <3>1, <3>2 DEF Released
  <2>8. /\ R.capacity = P.capacity /\ R.used = u /\ R.empty = P.empty /\ R.full = f /\ R.n_empty = P.n_empty
        /\ R.min_empty = P.min_empty /\ R.chunks = ch /\ R.early = P.early
    BY <2>6 DEF Rec
  <2>9. id \in ToSet(P.full) /\ id \notin ToSet(P.used)
    BY <1>0, <1>1, <1>20, <1>21 DEF Filled, Lists
  <2>10. /\ u \in Seq(Nat) /\ ToSet(u) = ToSet(P.used) \cup {id} /\ IsInjective(u)
    BY <1>0, <1>1, <2>1, <2>9, PushFacts DEF Lists
  <2>11. f \in Seq(Nat) /\ ToSet(f) = ToSet(P.full) \ {id} /\ IsInjective(f)
    BY <1>0, <2>2, WithoutFacts DEF Lists
  <2>12. Lists(R)
    BY <1>0, <1>11, <1>20, <2>8, <2>9, <2>10, <2>11 DEF Lists
  <2>13. Marks(R)
    BY <1>0, <1>19, <2>8 DEF Marks
  <2>14. Filled(R)
    <3>1. D.n_allocated \in 1 .. P.capacity - 1
      BY <1>1, <1>9, <1>21
    <3> QED BY <1>11, <1>18, <1>20, <2>8, <2>10, <2>11, <3>1 DEF Filled, Level
  <2>15. Shape(R) /\ Boxes(R, x, G) /\ Inside(R, x, G)
    BY <1>17, <2>6, <2>8
  <2> QED BY <2>7, <2>12, <2>13, <2>14, <2>15 DEF Sound
<1>22. CASE C.n_allocated # P.capacity /\ C.n_allocated = 1
  <2>1. PICK u : u = Without(P.used, id)
    OBVIOUS
  <2>2. PICK e : e = <<id>> \o P.empty
    OBVIOUS
  <2>3. PICK A : A = [Q EXCEPT !.used = u]
    OBVIOUS
  <2>4. A = Rec(P.capacity, u, P.empty, P.full, P.n_empty, P.min_empty, ch, P.early)
    BY <1>13, <2>3 DEF Rec
  <2>5. PICK B : B = [A EXCEPT !.empty = e]
    OBVIOUS
  <2>6. B = Rec(P.capacity, u, e, P.full, P.n_empty, P.min_empty, ch, P.early)
    BY <2>4, <2>5 DEF Rec
  <2>7. PICK n : n = P.n_empty + 1
    OBVIOUS
  <2>8. PICK R : R = [B EXCEPT !.n_empty = n]
    OBVIOUS
  <2>9. R = Rec(P.capacity, u, e, P.full, n, P.min_empty, ch, P.early)
    BY <2>6, <2>8 DEF Rec
  <2>10. Released(P, id, i) = R
    <3>1. [P EXCEPT !.chunks[id] = D, !.used = u, !.empty = e, !.n_empty = n] = R
      BY <1>14, <2>3, <2>5, <2>8
    <3>2. D = Emptied(C)
      BY <1>8, <1>22
    <3> QED BY <1>4, <1>22, <2>1, <2>2, <2>7, <3>1, <3>2 DEF Released
  <2>11. /\ R.capacity = P.capacity /\ R.used = u /\ R.empty = e /\ R.full = P.full /\ R.n_empty = n
         /\ R.min_empty = P.min_empty /\ R.chunks = ch /\ R.early = P.early
    BY <2>9 DEF Rec
  <2>12. id \in ToSet(P.used) /\ id \notin ToSet(P.full)
    BY <1>0, <1>1, <1>20, <1>22 DEF Filled, Lists
  <2>13. /\ e \in Seq(Nat) /\ ToSet(e) = ToSet(P.empty) \cup {id} /\ IsInjective(e)
    BY <1>0, <1>1, <1>20, <2>2, PushFacts DEF Lists
  <2>14. u \in Seq(Nat) /\ ToSet(u) = ToSet(P.used) \ {id} /\ IsInjective(u)
    BY <1>0, <2>1, WithoutFacts DEF Lists
  <2>15. Lists(R)
    BY <1>0, <1>11, <1>20, <2>11, <2>12, <2>13, <2>14 DEF Lists
  <2>16. Marks(R)
    <3>1. /\ Len(P.empty) \in Nat /\ Len(e) = Len(P.empty) + 1 /\ \A k \in 2 .. Len(e) : e[k] = P.empty[k - 1]
      <4>1. P.empty \in Seq(Nat)
        BY <1>0 DEF Lists
      <4> QED BY <4>1, <2>2
    <3>2. P.n_empty = Len(P.empty) /\ P.min_empty \in 0 .. P.n_empty /\ P.early = {}
      BY <1>0 DEF Marks
    <3>3. ASSUME NEW k \in 1 .. Len(e), k > n - P.min_empty PROVE ch[e[k]].clean
      <4>1. k \in 2 .. Len(e) /\ k - 1 \in 1 .. Len(P.empty) /\ k - 1 > P.n_empty - P.min_empty
        BY <2>7, <3>1, <3>2, <3>3
      <4> QED BY <1>0, <1>19, <3>1, <4>1 DEF Marks
    <3>4. n = Len(e) /\ P.min_empty \in 0 .. n
      BY <2>7, <3>1, <3>2
    <3> QED BY <2>11, <3>2, <3>3, <3>4 DEF Marks
  <2>17. Filled(R)
    <3>1. D.n_allocated = 0 /\ Level(R, id) = D.n_allocated
      BY <1>9, <1>11, <1>18, <1>22, <2>11 DEF Level
    <3>2. \A y \in ToSet(P.used) \cup ToSet(P.empty) \cup ToSet(P.full) : y # id => Level(R, y) = Level(P, y)
      BY <1>11, <1>18, <2>11 DEF Level
    <3>3. \A y \in ToSet(R.empty) : Level(R, y) = 0
      BY <1>20, <2>11, <2>13, <3>1, <3>2 DEF Filled
    <3>4. \A y \in ToSet(R.full) : Level(R, y) = R.capacity
      BY <2>11, <2>12, <3>2 DEF Filled
    <3>5. \A y \in ToSet(R.used) : Level(R, y) \in 1 .. R.capacity - 1
      BY <2>11, <2>14, <3>2 DEF Filled
    <3> QED BY <3>3, <3>4, <3>5 DEF Filled
  <2>18. Shape(R) /\ Boxes(R, x, G) /\ Inside(R, x, G)
    BY <1>17, <2>9, <2>11
  <2> QED BY <2>10, <2>15, <2>16, <2>17, <2>18 DEF Sound
<1>23. CASE C.n_allocated # P.capacity /\ C.n_allocated # 1
  <2>1. Released(P, id, i) = Q
    <3>1. D = Given(C, i)
      BY <1>8, <1>23
    <3> QED BY <1>4, <1>14, <1>23, <3>1 DEF Released
  <2>2. /\ Q.capacity = P.capacity /\ Q.used = P.used /\ Q.empty = P.empty /\ Q.full = P.full /\ Q.n_empty = P.n_empty
        /\ Q.min_empty = P.min_empty /\ Q.chunks = ch /\ Q.early = P.early
    BY <1>13 DEF Rec
  <2>3. Lists(Q)
    BY <1>0, <1>11, <2>2 DEF Lists
  <2>4. Marks(Q)
    BY <1>0, <1>19, <2>2 DEF Marks
  <2>5. id \in ToSet(P.used) /\ id \notin ToSet(P.full)
    BY <1>0, <1>1, <1>20, <1>23 DEF Filled, Lists
  <2>6. Filled(Q)
    <3>1. D.n_allocated \in 1 .. P.capacity - 1
      BY <1>1, <1>7, <1>9, <1>23
    <3> QED BY <1>11, <1>18, <1>20, <2>2, <2>5, <3>1 DEF Filled, Level
  <2>7. Shape(Q) /\ Boxes(Q, x, G) /\ Inside(Q, x, G)
    BY <1>13, <1>17, <2>2
  <2> QED BY <2>1, <2>3, <2>4, <2>6, <2>7 DEF Sound
<1> QED BY <1>21, <1>22, <1>23

-----------------------------------------------------------------------------
(* A list that names a set, each member once, has as many nodes.           *)
LEMMA CountOnce ==
    ASSUME NEW n \in Nat, NEW f, NEW S, f \in [1 .. n -> S], \A i, j \in 1 .. n : f[i] = f[j] => i = j,
           \A y \in S : \E i \in 1 .. n : f[i] = y
    PROVE  IsFiniteSet(S) /\ Cardinality(S) = n
<1>1. IsFiniteSet(1 .. n) /\ Cardinality(1 .. n) = n
  BY CountUpTo
<1>2. f \in Bijection(1 .. n, S)
  BY DEF Bijection, Injection, Surjection, IsInjective
<1> QED BY <1>1, <1>2, FS_Bijection DEF ExistsBijection

(* A list without repetition of as many members as a set has, all in it.   *)
LEMMA ListsAll ==
    ASSUME NEW D, IsFiniteSet(D), NEW s, s \in SetToSeqs(D), D \subseteq Nat
    PROVE  s \in Seq(Nat) /\ IsInjective(s) /\ ToSet(s) = D
<1>1. PICK n \in Nat : n = Cardinality(D)
  BY FS_CardinalityType
<1>2. s \in [1 .. n -> D] /\ \A i, j \in 1 .. n : i # j => s[i] # s[j]
  BY <1>1 DEF SetToSeqs
<1>3. s \in Seq(Nat) /\ DOMAIN s = 1 .. n
  <2>1. s \in [1 .. n -> Nat]
    BY <1>2
  <2> QED BY <2>1
<1>4. IsInjective(s) /\ ToSet(s) \subseteq D
  BY <1>2 DEF IsInjective, ToSet
<1>5. Cardinality(ToSet(s)) = n
  <2>1. s \in [1 .. n -> ToSet(s)] /\ \A y \in ToSet(s) : \E i \in 1 .. n : s[i] = y
    BY <1>2 DEF ToSet
  <2>2. \A i, j \in 1 .. n : s[i] = s[j] => i = j
    BY <1>2
  <2> QED BY <2>1, <2>2, CountOnce
<1>6. ToSet(s) = D
  BY <1>1, <1>4, <1>5, FS_Subset
<1> QED BY <1>3, <1>4, <1>6

(* The chunks may be sorted in any order.                                  *)
LEMMA SortedFacts ==
    ASSUME NEW P, NEW x, NEW H, Sound(P, x, H), Filled(P), Inside(P, x, H), NEW Q \in mp_pool_sort_used_chunks(P)
    PROVE  Sound(Q, x, H) /\ Filled(Q) /\ Inside(Q, x, H)
<1>0. Shape(P) /\ Lists(P) /\ Marks(P) /\ Boxes(P, x, H)
  BY DEF Sound
<1>1. CASE Q = P
  BY <1>1
<1>2. CASE Q # P
  <2>1. PICK s \in SetToSeqs(ToSet(P.used)) : Q = [P EXCEPT !.used = s]
    BY <1>2 DEF mp_pool_sort_used_chunks
  <2>2. IsFiniteSet(ToSet(P.used)) /\ ToSet(P.used) \subseteq Nat
    <3>1. ToSet(P.used) \subseteq DOMAIN P.chunks /\ ToSet(P.used) \subseteq Nat
      BY <1>0 DEF Lists, ToSet
    <3>2. IsFiniteSet(DOMAIN P.chunks)
      BY <1>0 DEF Shape
    <3> QED BY <3>1, <3>2, FS_Subset
  <2>3. s \in Seq(Nat) /\ IsInjective(s) /\ ToSet(s) = ToSet(P.used)
    BY <2>2, ListsAll
  <2>4. P = Rec(P.capacity, P.used, P.empty, P.full, P.n_empty, P.min_empty, P.chunks, P.early)
    BY <1>0 DEF Shape
  <2>5. Q = Rec(P.capacity, s, P.empty, P.full, P.n_empty, P.min_empty, P.chunks, P.early)
    BY <2>1, <2>4 DEF Rec
  <2>6. /\ Q.capacity = P.capacity /\ Q.used = s /\ Q.empty = P.empty /\ Q.full = P.full /\ Q.n_empty = P.n_empty
        /\ Q.min_empty = P.min_empty /\ Q.chunks = P.chunks /\ Q.early = P.early
    BY <2>5 DEF Rec
  <2>7. Shape(Q)
    BY <1>0, <2>5, <2>6 DEF Shape
  <2>8. Lists(Q)
    BY <1>0, <2>3, <2>6 DEF Lists
  <2>9. Marks(Q)
    BY <1>0, <2>6 DEF Marks
  <2>10. Boxes(Q, x, H) /\ Inside(Q, x, H)
    BY <1>0, <2>6 DEF Boxes, Inside
  <2>11. Filled(Q)
    BY <2>3, <2>6 DEF Filled, Level
  <2> QED BY <2>7, <2>8, <2>9, <2>10, <2>11 DEF Sound
<1> QED BY <1>1, <1>2

(* The first nodes of a list.                                              *)
LEMMA FirstPart ==
    ASSUME NEW S, NEW q \in Seq(S), NEW n \in 0 .. Len(q)
    PROVE  /\ SubSeq(q, 1, n) \in Seq(S) /\ Len(SubSeq(q, 1, n)) = n /\ DOMAIN SubSeq(q, 1, n) = 1 .. n
           /\ \A k \in 1 .. n : SubSeq(q, 1, n)[k] = q[k]
OBVIOUS

(* What is kept of the empty chunks are the first ones; the others have    *)
(* been empty since the last collection.                                   *)
LEMMA CleanFacts ==
    ASSUME NEW P, NEW x, NEW H, Sound(P, x, H), Filled(P), Inside(P, x, H), \A it \in H : it = <<it[1], it[2], it[3]>>
    PROVE  LET Q == mp_pool_clean(P, 0, TRUE) IN Sound(Q, x, H) /\ Filled(Q) /\ Inside(Q, x, H)
<1>0. Shape(P) /\ Lists(P) /\ Marks(P) /\ Boxes(P, x, H)
  BY DEF Sound
<1>1. /\ P = Rec(P.capacity, P.used, P.empty, P.full, P.n_empty, P.min_empty, P.chunks, P.early)
      /\ P.capacity \in Nat /\ P.capacity >= 2 /\ P.empty \in Seq(Nat) /\ Len(P.empty) \in Nat
      /\ P.n_empty = Len(P.empty) /\ P.min_empty \in 0 .. P.n_empty /\ P.early = {}
      /\ DOMAIN P.empty = 1 .. Len(P.empty)
  <2>1. P.empty \in Seq(Nat)
    BY <1>0 DEF Lists
  <2> QED BY <1>0, <2>1 DEF Shape, Marks
<1>2. PICK n : n = P.n_empty - P.min_empty
  OBVIOUS
<1>3. n \in 0 .. Len(P.empty) /\ n \in Int
  BY <1>1, <1>2
<1>a. /\ n \in Nat /\ P.min_empty \in Nat /\ Len(P.empty) \in Nat /\ n + P.min_empty = Len(P.empty)
      /\ DOMAIN P.empty = 1 .. Len(P.empty)
  BY <1>1, <1>2
<1>4. Max({0, n}) = n /\ Min({n, Len(P.empty)}) = n
  <2>1. \E z \in {0, n} : \A y \in {0, n} : z >= y
    BY <1>3
  <2>2. Max({0, n}) \in {0, n} /\ \A y \in {0, n} : Max({0, n}) >= y
    BY <2>1 DEF Max
  <2>3. \E z \in {n, Len(P.empty)} : \A y \in {n, Len(P.empty)} : z =< y
    BY <1>1, <1>3
  <2>4. Min({n, Len(P.empty)}) \in {n, Len(P.empty)} /\ \A y \in {n, Len(P.empty)} : Min({n, Len(P.empty)}) =< y
    BY <2>3 DEF Min
  <2> QED BY <1>1, <1>3, <2>2, <2>4
<1>5. PICK kept : kept = SubSeq(P.empty, 1, n)
  OBVIOUS
<1>6. kept \in Seq(Nat) /\ Len(kept) = n /\ DOMAIN kept = 1 .. n /\ \A k \in 1 .. n : kept[k] = P.empty[k]
  <2>1. P.empty \in Seq(Nat) /\ n \in 0 .. Len(P.empty)
    BY <1>1, <1>3
  <2> QED BY <1>5, <2>1, FirstPart
<1>7. PICK freed : freed = ToSet(P.empty) \ ToSet(kept)
  OBVIOUS
<1>8. ToSet(kept) \subseteq ToSet(P.empty) /\ IsInjective(kept) /\ ToSet(P.empty) = ToSet(kept) \cup freed
  <2>0. \A k \in DOMAIN kept : k \in DOMAIN P.empty /\ kept[k] = P.empty[k]
    BY <1>1, <1>3, <1>6
  <2>1. ToSet(kept) \subseteq ToSet(P.empty)
    BY <2>0 DEF ToSet
  <2>2. IsInjective(P.empty)
    BY <1>0 DEF Lists
  <2>3. IsInjective(kept)
    BY <2>0, <2>2 DEF IsInjective
  <2> QED BY <1>7, <2>1, <2>3
<1>9. \A k \in 1 .. Len(P.empty) : P.empty[k] \in freed <=> k > n
  <2> SUFFICES ASSUME NEW k \in 1 .. Len(P.empty) PROVE P.empty[k] \in freed <=> k > n
    OBVIOUS
  <2>1. IsInjective(P.empty) /\ P.empty[k] \in ToSet(P.empty)
    BY <1>0, <1>1 DEF Lists, ToSet
  <2>2. P.empty[k] \in ToSet(kept) <=> \E j \in 1 .. n : P.empty[j] = P.empty[k]
    BY <1>6 DEF ToSet
  <2>3. \A j \in 1 .. n : P.empty[j] = P.empty[k] => j = k
    <3>1. \A j \in 1 .. n : j \in DOMAIN P.empty /\ k \in DOMAIN P.empty
      BY <1>a
    <3> QED BY <2>1, <3>1 DEF IsInjective
  <2> QED BY <1>3, <1>7, <2>1, <2>2, <2>3
<1>10. Cardinality(freed) = P.min_empty
  <2> DEFINE f == [j \in 1 .. P.min_empty |-> P.empty[n + j]]
  <2>1. \A j \in 1 .. P.min_empty : n + j \in 1 .. Len(P.empty) /\ n + j > n
    BY <1>a
  <2>2. f \in [1 .. P.min_empty -> freed]
    BY <1>9, <2>1
  <2>3. ASSUME NEW i \in 1 .. P.min_empty, NEW j \in 1 .. P.min_empty, f[i] = f[j] PROVE i = j
    <3>1. IsInjective(P.empty) /\ P.empty[n + i] = P.empty[n + j]
      BY <1>0, <2>3 DEF Lists
    <3>2. n + i = n + j
      BY <1>1, <2>1, <3>1 DEF IsInjective
    <3> QED BY <1>1, <1>3, <3>2
  <2>4. ASSUME NEW y \in freed PROVE \E j \in 1 .. P.min_empty : f[j] = y
    <3>1. PICK k \in 1 .. Len(P.empty) : P.empty[k] = y
      BY <1>1, <1>7 DEF ToSet
    <3>2. k > n
      BY <1>9, <3>1
    <3>3. k - n \in 1 .. P.min_empty /\ n + (k - n) = k
      <4>1. P.n_empty \in Int /\ P.min_empty \in Int /\ k \in Int /\ k <= P.n_empty
        BY <1>1
      <4> QED BY <1>2, <1>3, <3>2, <4>1
    <3> QED BY <3>1, <3>3
  <2> HIDE DEF f
  <2>5. P.min_empty \in Nat
    BY <1>1
  <2> QED BY <2>2, <2>3, <2>4, <2>5, CountOnce
<1>11. \A d \in freed : P.chunks[d].clean
  <2> SUFFICES ASSUME NEW d \in freed PROVE P.chunks[d].clean
    OBVIOUS
  <2>1. PICK k \in 1 .. Len(P.empty) : P.empty[k] = d
    BY <1>1, <1>7 DEF ToSet
  <2>2. k > P.n_empty - P.min_empty
    BY <1>2, <1>9, <2>1
  <2> QED BY <1>0, <2>1, <2>2 DEF Marks
<1>12. PICK ch : ch = [d \in DOMAIN P.chunks \ freed |-> Marked(P.chunks[d], d \in ToSet(kept))]
  OBVIOUS
<1>13. /\ DOMAIN ch = DOMAIN P.chunks \ freed /\ ch = [d \in DOMAIN ch |-> ch[d]]
       /\ \A d \in DOMAIN ch : IF d \in ToSet(kept) THEN ch[d] = Marked(P.chunks[d], TRUE)
                                                     ELSE ch[d] = Marked(P.chunks[d], FALSE)
  <2>1. DOMAIN ch = DOMAIN P.chunks \ freed /\ ch = [d \in DOMAIN ch |-> ch[d]]
    BY <1>12
  <2>2. ASSUME NEW d \in DOMAIN ch, d \in ToSet(kept) PROVE ch[d] = Marked(P.chunks[d], TRUE)
    <3>1. ch[d] = Marked(P.chunks[d], d \in ToSet(kept))
      BY <1>12, <2>1
    <3>2. (d \in ToSet(kept)) = TRUE
      BY <2>2
    <3> QED BY <3>1, <3>2, Zenon
  <2>3. ASSUME NEW d \in DOMAIN ch, d \notin ToSet(kept) PROVE ch[d] = Marked(P.chunks[d], FALSE)
    <3>1. ch[d] = Marked(P.chunks[d], d \in ToSet(kept))
      BY <1>12, <2>1
    <3>2. (d \in ToSet(kept)) = FALSE
      BY <2>3
    <3> QED BY <3>1, <3>2, Zenon
  <2> QED BY <2>1, <2>2, <2>3
<1>m. \A d \in DOMAIN ch : ch[d].n_allocated = P.chunks[d].n_allocated /\ (d \in ToSet(kept) => ch[d].clean = TRUE)
  <2> SUFFICES ASSUME NEW d \in DOMAIN ch
               PROVE  ch[d].n_allocated = P.chunks[d].n_allocated /\ (d \in ToSet(kept) => ch[d].clean = TRUE)
    OBVIOUS
  <2>1. \A b : /\ Marked(P.chunks[d], b).n_allocated = P.chunks[d].n_allocated
               /\ Marked(P.chunks[d], b).clean = b
    BY DEF Marked
  <2>2. CASE d \in ToSet(kept)
    <3>1. ch[d] = Marked(P.chunks[d], TRUE)
      BY <1>13, <2>2
    <3> QED BY <2>1, <3>1, Zenon
  <2>3. CASE d \notin ToSet(kept)
    <3>1. ch[d] = Marked(P.chunks[d], FALSE)
      BY <1>13, <2>3
    <3> QED BY <2>1, <2>3, <3>1, Zenon
  <2> QED BY <2>2, <2>3
<1>e. PICK none : none = {}
  OBVIOUS
<1>14. PICK Q : Q = Rec(P.capacity, P.used, kept, P.full, n, n, ch, none)
  OBVIOUS
<1>15. mp_pool_clean(P, 0, TRUE) = Q
  <2>1. PICK A : A = [P EXCEPT !.empty = kept]
    OBVIOUS
  <2>2. A = Rec(P.capacity, P.used, kept, P.full, P.n_empty, P.min_empty, P.chunks, P.early)
    BY <1>1, <2>1 DEF Rec
  <2>3. PICK B : B = [A EXCEPT !.n_empty = n]
    OBVIOUS
  <2>4. B = Rec(P.capacity, P.used, kept, P.full, n, P.min_empty, P.chunks, P.early)
    BY <2>2, <2>3 DEF Rec
  <2>5. PICK C : C = [B EXCEPT !.min_empty = n]
    OBVIOUS
  <2>6. C = Rec(P.capacity, P.used, kept, P.full, n, n, P.chunks, P.early)
    BY <2>4, <2>5 DEF Rec
  <2>7. PICK D : D = [C EXCEPT !.early = none]
    OBVIOUS
  <2>8. D = Rec(P.capacity, P.used, kept, P.full, n, n, P.chunks, none)
    BY <2>6, <2>7 DEF Rec
  <2>9. [D EXCEPT !.chunks = ch] = Q
    BY <1>14, <2>8 DEF Rec
  <2>10. {d \in freed : TRUE /\ ~ P.chunks[d].clean} = none
    BY <1>11, <1>e
  <2>11. P.n_empty - Cardinality(freed) = n
    BY <1>2, <1>10
  <2>12. [P EXCEPT !.empty = kept, !.n_empty = n, !.min_empty = n, !.early = none, !.chunks = ch] = Q
    BY <2>1, <2>3, <2>5, <2>7, <2>9
  <2> QED BY <1>2, <1>4, <1>5, <1>7, <1>12, <2>10, <2>11, <2>12 DEF mp_pool_clean
<1>16. /\ Q.capacity = P.capacity /\ Q.used = P.used /\ Q.empty = kept /\ Q.full = P.full /\ Q.n_empty = n
       /\ Q.min_empty = n /\ Q.chunks = ch /\ Q.early = none
  BY <1>14 DEF Rec
<1>17. Shape(Q)
  <2>1. IsFiniteSet(DOMAIN P.chunks) /\ DOMAIN ch \subseteq DOMAIN P.chunks
    BY <1>0, <1>13 DEF Shape
  <2>2. IsFiniteSet(DOMAIN ch)
    BY <2>1, FS_Subset
  <2> QED BY <1>1, <1>13, <1>14, <1>16, <2>2 DEF Shape
<1>18. Lists(Q)
  BY <1>0, <1>6, <1>8, <1>7, <1>13, <1>16 DEF Lists
<1>19. Marks(Q)
  <2>1. ASSUME NEW k \in 1 .. Len(kept) PROVE ch[kept[k]].clean
    <3>1. kept[k] \in ToSet(kept)
      BY <1>6 DEF ToSet
    <3>2. kept[k] \in DOMAIN ch
      BY <1>0, <1>7, <1>8, <1>13, <3>1 DEF Lists
    <3>3. ch[kept[k]].clean = TRUE
      BY <1>m, <3>1, <3>2
    <3> QED BY <3>3
  <2> QED BY <1>3, <1>6, <1>16, <1>e, <2>1 DEF Marks
<1>20. Boxes(Q, x, H)
  <2> SUFFICES ASSUME NEW d \in DOMAIN ch PROVE Box(ch[d], TakenOf(x, d, H, P.capacity), P.capacity)
    BY <1>16 DEF Boxes
  <2>1. Box(P.chunks[d], TakenOf(x, d, H, P.capacity), P.capacity)
    BY <1>0, <1>13 DEF Boxes
  <2>2. PICK b \in BOOLEAN : ch[d] = Marked(P.chunks[d], b)
    BY <1>13
  <2> QED BY <2>1, <2>2 DEF Box, Chunk, Marked
<1>21. Inside(Q, x, H)
  <2> SUFFICES ASSUME NEW it \in H, it[1] = x PROVE it[2] \in DOMAIN ch /\ it[3] \in 1 .. P.capacity
    BY <1>16 DEF Inside
  <2>1. it[2] \in DOMAIN P.chunks /\ it[3] \in 1 .. P.capacity
    BY DEF Inside
  <2>2. it[3] \in TakenOf(x, it[2], H, P.capacity)
    BY <2>1 DEF TakenOf
  <2>3. Level(P, it[2]) # 0
    <3>1. Box(P.chunks[it[2]], TakenOf(x, it[2], H, P.capacity), P.capacity)
      BY <1>0, <2>1 DEF Boxes
    <3> QED BY <1>1, <2>2, <3>1, BoxFinite DEF Level
  <2>4. it[2] \notin freed
    BY <1>7, <2>3 DEF Filled
  <2> QED BY <1>13, <2>1, <2>4
<1>22. Filled(Q)
  <2>1. \A d \in DOMAIN ch : ch[d].n_allocated = P.chunks[d].n_allocated
    BY <1>m
  <2>2. ToSet(P.used) \subseteq DOMAIN ch /\ ToSet(kept) \subseteq DOMAIN ch /\ ToSet(P.full) \subseteq DOMAIN ch
    BY <1>18, <1>16 DEF Lists
  <2> QED BY <1>8, <1>16, <2>1, <2>2 DEF Filled, Level
<1> QED BY <1>15, <1>17, <1>18, <1>19, <1>20, <1>21, <1>22 DEF Sound

-----------------------------------------------------------------------------
(* The invariant of all pools: each one is sound, and every item that is   *)
(* held belongs to a chunk of a pool.                                      *)
Inv ==
    /\ pools = [x \in DOMAIN pools |-> pools[x]]
    /\ \A x \in DOMAIN pools : Sound(pools[x], x, held) /\ Filled(pools[x]) /\ Inside(pools[x], x, held)
    /\ \A it \in held : it = <<it[1], it[2], it[3]>> /\ it[1] \in DOMAIN pools

(* The larger of two numbers.                                              *)
LEMMA Larger ==
    ASSUME NEW a \in Int, NEW b \in Int
    PROVE  Max({a, b}) \in Int /\ Max({a, b}) >= a /\ Max({a, b}) >= b
<1>1. \E z \in {a, b} : \A y \in {a, b} : z >= y
  OBVIOUS
<1>2. Max({a, b}) \in {a, b} /\ \A y \in {a, b} : Max({a, b}) >= y
  BY <1>1 DEF Max
<1> QED BY <1>2

(* tor_log2() is a number, whatever it is given.                           *)
LEMMA LogFacts == \A u : tor_log2(u) \in Nat
<1> SUFFICES ASSUME NEW u PROVE tor_log2(u) \in Nat
  OBVIOUS
<1>1. \A s, k : s.r \in Nat /\ k \in Nat => Shifted(s, k).r \in Nat
  BY DEF Shifted
<1>2. PICK s0 : s0 = [u |-> u, r |-> 0]
  OBVIOUS
<1>3. s0.r \in Nat
  BY <1>2
<1>4. tor_log2(u) = Shifted(Shifted(Shifted(Shifted(Shifted(s0, 16), 8), 4), 2), 1).r
  BY <1>2 DEF tor_log2
<1>5. Shifted(s0, 16).r \in Nat
  BY <1>1, <1>3
<1>6. Shifted(Shifted(s0, 16), 8).r \in Nat
  BY <1>1, <1>5
<1>7. Shifted(Shifted(Shifted(s0, 16), 8), 4).r \in Nat
  BY <1>1, <1>6
<1>8. Shifted(Shifted(Shifted(Shifted(s0, 16), 8), 4), 2).r \in Nat
  BY <1>1, <1>7
<1>9. Shifted(Shifted(Shifted(Shifted(Shifted(s0, 16), 8), 4), 2), 1).r \in Nat
  BY <1>1, <1>8
<1> QED BY <1>4, <1>9

(* mp_pool_new(): a chunk has room for two items.                          *)
LEMMA CapacityFacts ==
    ASSUME SizesRight, NEW item_size \in Nat, NEW chunk_capacity, alloc_size(item_size) * 2 + CHUNK_OVERHEAD <= 2^30
    PROVE  mp_pool_new(item_size, chunk_capacity).capacity \in Nat /\ mp_pool_new(item_size, chunk_capacity).capacity >= 2
<1>1. PICK a : a = alloc_size(item_size)
  OBVIOUS
<1>2. a \in Nat /\ a >= 1
  <2>1. PICK m : m = Max({HEADER + item_size, ALLOCATED})
    OBVIOUS
  <2>2. m \in Nat /\ m >= 1
    <3>1. HEADER + item_size \in Int /\ ALLOCATED \in Int /\ ALLOCATED >= 1
      BY DEF SizesRight
    <3> QED BY <2>1, <3>1, Larger
  <2>3. ALIGNMENT \in Nat /\ ALIGNMENT > 0
    BY DEF SizesRight
  <2>4. m % ALIGNMENT \in 0 .. ALIGNMENT - 1
    BY <2>2, <2>3
  <2>5. a = IF m % ALIGNMENT = 0 THEN m ELSE m + ALIGNMENT - (m % ALIGNMENT)
    BY <1>1, <2>1 DEF alloc_size
  <2> QED BY <2>2, <2>3, <2>4, <2>5
<1>3. PICK need : need = a * 2 + CHUNK_OVERHEAD
  OBVIOUS
<1>4. need \in Nat /\ need >= 2 /\ need <= 2^30 /\ CHUNK_OVERHEAD \in Nat /\ MIN_CHUNK \in Nat
  BY <1>1, <1>2, <1>3 DEF SizesRight
<1>5. \E k \in 1 .. 30 : 2^k >= need /\ 2^(k - 1) < need
  <2>1. \A k \in Nat : 2^k \in Int
    OBVIOUS
  <2> DEFINE T == {k \in 0 .. 30 : 2^k >= need}
  <2>2. 30 \in T /\ T \subseteq Nat
    BY <1>4, <2>1
  <2>8. \A k \in T : k \in 0 .. 30 /\ 2^k >= need
    OBVIOUS
  <2>9. \A k \in 0 .. 30 : k \notin T => ~ (2^k >= need)
    OBVIOUS
  <2>4. 0 \notin T
    <3>1. 2^0 = 1
      OBVIOUS
    <3> QED BY <1>4, <3>1
  <2> HIDE DEF T
  <2>3. PICK k \in T : \A j \in T : k <= j
    BY <2>2, LeastNumber
  <2>5. k \in 1 .. 30 /\ k - 1 \in 0 .. 30 /\ k - 1 \notin T
    <3>1. k \in 0 .. 30 /\ k # 0
      BY <2>3, <2>4, <2>8
    <3>2. ~ (k <= k - 1)
      BY <3>1
    <3> QED BY <2>3, <3>1, <3>2
  <2>6. 2^k >= need /\ ~ (2^(k - 1) >= need)
    BY <2>3, <2>5, <2>8, <2>9
  <2>7. 2^(k - 1) < need
    BY <1>4, <2>1, <2>5, <2>6
  <2> QED BY <2>5, <2>6, <2>7
<1>6. PICK k : k = CHOOSE j \in 1 .. 30 : 2^j >= need /\ 2^(j - 1) < need
  OBVIOUS
<1>7. k \in 1 .. 30 /\ 2^k >= need /\ 2^k \in Int
  <2> DEFINE Fits(j) == 2^j >= need /\ 2^(j - 1) < need
  <2>1. \E j \in 1 .. 30 : Fits(j)
    BY <1>5
  <2>2. k = CHOOSE j \in 1 .. 30 : Fits(j)
    BY <1>6
  <2> HIDE DEF Fits
  <2>3. k \in 1 .. 30 /\ Fits(k)
    BY <2>1, <2>2
  <2> QED BY <2>3 DEF Fits
<1>8. PICK round : round = round_to_power_of_2(Min({chunk_capacity, MAX_CHUNK}))
  OBVIOUS
<1>9. round \in Int
  <2>1. PICK u : u = Min({chunk_capacity, MAX_CHUNK})
    OBVIOUS
  <2>2. PICK l : l = tor_log2(u)
    OBVIOUS
  <2>3. 2^l \in Int /\ 2 * 2^l \in Int
    BY <2>2, LogFacts
  <2>4. round \in {1, 2^l, 2 * 2^l}
    BY <1>8, <2>1, <2>2 DEF round_to_power_of_2
  <2> QED BY <2>3, <2>4
<1>10. PICK doubled : doubled = Max({round, 2^k})
  OBVIOUS
<1>11. doubled \in Int /\ doubled >= need
  <2>1. PICK z \in Int : z = 2^k
    BY <1>7
  <2>2. doubled \in Int /\ doubled >= z
    BY <1>9, <1>10, <2>1, Larger
  <2> QED BY <1>4, <1>7, <2>1, <2>2
<1>12. PICK chunk : chunk = Max({doubled, MIN_CHUNK})
  OBVIOUS
<1>13. chunk \in Int /\ chunk - CHUNK_OVERHEAD >= 2 * a
  <2>1. chunk \in Int /\ chunk >= doubled
    <3>1. MIN_CHUNK \in Int
      BY <1>4
    <3> QED BY <1>11, <1>12, <3>1, Larger
  <2> QED BY <1>2, <1>3, <1>4, <1>11, <2>1
<1>14. mp_pool_new(item_size, chunk_capacity).capacity = (chunk - CHUNK_OVERHEAD) \div a
  BY <1>1, <1>3, <1>6, <1>8, <1>10, <1>12 DEF mp_pool_new
<1>15. (chunk - CHUNK_OVERHEAD) \div a \in Int /\ (chunk - CHUNK_OVERHEAD) \div a >= 2
  <2>1. PICK b \in Int : b = chunk - CHUNK_OVERHEAD
    BY <1>4, <1>13
  <2>2. PICK q \in Int : q = b \div a
    BY <1>2, <2>1
  <2>3. b < a * (q + 1)
    BY <1>2, <2>1, <2>2
  <2>4. q >= 2
    <3> SUFFICES ASSUME q + 1 <= 2 PROVE FALSE
      BY <2>2
    <3>1. a * (q + 1) <= a * 2
      BY <1>2, <2>2
    <3> QED BY <1>2, <1>13, <2>1, <2>3, <3>1
  <2> QED BY <2>1, <2>2, <2>4
<1> QED BY <1>14, <1>15

(* Two lists with nothing in common, one after the other.                  *)
LEMMA JoinFacts ==
    ASSUME NEW S, NEW p \in Seq(S), NEW q \in Seq(S)
    PROVE  /\ p \o q \in Seq(S) /\ ToSet(p \o q) = ToSet(p) \cup ToSet(q)
           /\ IsInjective(p) /\ IsInjective(q) /\ ToSet(p) \cap ToSet(q) = {} => IsInjective(p \o q)
<1> DEFINE r == p \o q
           m == Len(p)
<1>1. /\ r \in Seq(S) /\ m \in Nat /\ Len(q) \in Nat /\ DOMAIN p = 1 .. m /\ DOMAIN q = 1 .. Len(q)
      /\ DOMAIN r = 1 .. m + Len(q)
      /\ \A i \in 1 .. m : r[i] = p[i]
      /\ \A i \in 1 .. Len(q) : r[m + i] = q[i]
  OBVIOUS
<1> HIDE DEF r, m
<1>2. \A i \in DOMAIN r : \/ i \in DOMAIN p /\ r[i] = p[i]
                          \/ i - m \in DOMAIN q /\ r[i] = q[i - m]
  <2> SUFFICES ASSUME NEW i \in DOMAIN r, ~ (i <= m) PROVE i - m \in DOMAIN q /\ r[i] = q[i - m]
    BY <1>1
  <2>1. i - m \in 1 .. Len(q) /\ m + (i - m) = i
    BY <1>1
  <2>2. r[m + (i - m)] = q[i - m]
    BY <1>1, <2>1
  <2> QED BY <1>1, <2>1, <2>2
<1>3. ToSet(r) = ToSet(p) \cup ToSet(q)
  <2>1. ToSet(r) \subseteq ToSet(p) \cup ToSet(q)
    BY <1>2 DEF ToSet
  <2>2. ASSUME NEW i \in DOMAIN p PROVE p[i] \in ToSet(r)
    <3>1. i \in DOMAIN r /\ r[i] = p[i]
      BY <1>1
    <3> QED BY <3>1 DEF ToSet
  <2>3. ASSUME NEW i \in DOMAIN q PROVE q[i] \in ToSet(r)
    <3>1. m + i \in DOMAIN r /\ r[m + i] = q[i]
      BY <1>1
    <3> QED BY <3>1 DEF ToSet
  <2> QED BY <2>1, <2>2, <2>3 DEF ToSet
<1>4. ASSUME IsInjective(p), IsInjective(q), ToSet(p) \cap ToSet(q) = {}
      PROVE  IsInjective(r)
  <2> SUFFICES ASSUME NEW i \in DOMAIN r, NEW j \in DOMAIN r, r[i] = r[j] PROVE i = j
    BY DEF IsInjective
  <2>1. i \in Int /\ j \in Int
    BY <1>1
  <2>2. \A a \in DOMAIN p : \A b \in DOMAIN q : p[a] # q[b]
    BY <1>4 DEF ToSet
  <2>3. CASE i \in DOMAIN p /\ r[i] = p[i]
    BY <1>2, <1>4, <2>2, <2>3 DEF IsInjective
  <2>4. CASE i - m \in DOMAIN q /\ r[i] = q[i - m]
    <3>1. j - m \in DOMAIN q /\ r[j] = q[j - m]
      BY <1>2, <2>2, <2>4
    <3>2. i - m = j - m
      BY <1>4, <2>4, <3>1 DEF IsInjective
    <3> QED BY <1>1, <2>1, <3>2
  <2> QED BY <1>2, <2>3, <2>4
<1> QED BY <1>1, <1>3, <1>4 DEF r

(* What happens to the items of one pool is no matter of another pool.     *)
LEMMA OtherPool ==
    ASSUME NEW P, NEW y, NEW H, NEW G, Sound(P, y, H), Filled(P), Inside(P, y, H),
           NEW x, x # y, NEW id, NEW i, G = H \cup {<<x, id, i>>} \/ G = H \ {<<x, id, i>>}
    PROVE  Sound(P, y, G) /\ Filled(P) /\ Inside(P, y, G)
<1>1. \A d, c : TakenOf(y, d, G, c) = TakenOf(y, d, H, c)
  <2> SUFFICES ASSUME NEW d, NEW c PROVE TakenOf(y, d, G, c) = TakenOf(y, d, H, c)
    OBVIOUS
  <2>1. \A j : <<y, d, j>> \in G <=> <<y, d, j>> \in H
    BY ItemNames
  <2> QED BY <2>1 DEF TakenOf
<1>2. Boxes(P, y, G)
  BY <1>1 DEF Boxes, Sound
<1>3. Inside(P, y, G)
  <2>1. <<x, id, i>>[1] = x
    OBVIOUS
  <2> QED BY <2>1 DEF Inside
<1> QED BY <1>2, <1>3 DEF Sound

(* At the start there are pools, but no chunks and no items.               *)
LEMMA InvInit == ASSUME SizesRight PROVE PoolsInit => Inv
<1> SUFFICES ASSUME PoolsInit PROVE Inv
  OBVIOUS
<1>1. PICK Made \in Setups : pools = [x \in Made |-> mp_pool_new(Sizes[x][1], Sizes[x][2])]
  BY DEF PoolsInit
<1>2. held = {} /\ DOMAIN pools = Made /\ pools = [x \in DOMAIN pools |-> pools[x]]
  BY <1>1 DEF PoolsInit
<1>3. ASSUME NEW x \in Made
      PROVE  Sound(pools[x], x, held) /\ Filled(pools[x]) /\ Inside(pools[x], x, held)
  <2>1. Sizes[x][1] \in Nat /\ alloc_size(Sizes[x][1]) * 2 + CHUNK_OVERHEAD <= 2^30
    BY DEF SizesRight
  <2>2. PICK c : c = mp_pool_new(Sizes[x][1], Sizes[x][2]).capacity
    OBVIOUS
  <2>3. c \in Nat /\ c >= 2
    BY <2>1, <2>2, CapacityFacts
  <2>4. PICK P : P = pools[x]
    OBVIOUS
  <2>5. P = Rec(c, <<>>, <<>>, <<>>, 0, 0, <<>>, {})
    <3>1. P = mp_pool_new(Sizes[x][1], Sizes[x][2])
      BY <1>1, <2>4
    <3> QED BY <2>2, <3>1 DEF mp_pool_new, Rec
  <2>6. /\ P.capacity = c /\ P.used = <<>> /\ P.empty = <<>> /\ P.full = <<>> /\ P.n_empty = 0 /\ P.min_empty = 0
        /\ P.chunks = <<>> /\ P.early = {}
    BY <2>5 DEF Rec
  <2>7. <<>> \in Seq(Nat) /\ IsInjective(<<>>) /\ ToSet(<<>>) = {} /\ DOMAIN <<>> = {} /\ Len(<<>>) = 0 /\ 1 .. 0 = {}
    BY DEF IsInjective, ToSet
  <2>8. Shape(P)
    <3>1. <<>> = [id \in {} |-> <<>>[id]]
      OBVIOUS
    <3> QED BY <2>3, <2>5, <2>6, <2>7, <3>1, FS_EmptySet DEF Shape
  <2>9. Lists(P)
    BY <2>6, <2>7 DEF Lists
  <2>10. Marks(P)
    BY <2>6, <2>7 DEF Marks
  <2>11. Boxes(P, x, held) /\ Filled(P) /\ Inside(P, x, held)
    BY <1>2, <2>6, <2>7 DEF Boxes, Filled, Inside
  <2> QED BY <2>4, <2>8, <2>9, <2>10, <2>11 DEF Sound
<1> QED BY <1>2, <1>3 DEF Inv

(* Taking an item keeps all pools sound.                                   *)
LEMMA GetKeeps ==
    ASSUME Inv, NEW x \in DOMAIN pools, mp_pool_get(x)
    PROVE  Inv'
<1>1. PICK P : P = Usable(pools[x])
  OBVIOUS
<1>2. PICK id : id = P.used[1]
  OBVIOUS
<1>3. PICK i : i = Item(P.chunks[id])
  OBVIOUS
<1>4. pools' = [pools EXCEPT ![x] = Got(P)] /\ held' = held \cup {<<x, id, i>>}
  BY <1>1, <1>2, <1>3 DEF mp_pool_get
<1>5. Sound(P, x, held) /\ Opened(P) /\ Inside(P, x, held)
  BY <1>1, UsableFacts DEF Inv
<1>6. /\ Sound(Got(P), x, held') /\ Filled(Got(P)) /\ Inside(Got(P), x, held')
      /\ id \in DOMAIN Got(P).chunks /\ i \in 1 .. Got(P).capacity
  BY <1>2, <1>3, <1>4, <1>5, GotFacts
<1>7. /\ DOMAIN pools' = DOMAIN pools /\ pools' = [y \in DOMAIN pools' |-> pools'[y]] /\ pools'[x] = Got(P)
      /\ \A y \in DOMAIN pools : y # x => pools'[y] = pools[y]
  BY <1>4 DEF Inv
<1>8. ASSUME NEW y \in DOMAIN pools
      PROVE  Sound(pools'[y], y, held') /\ Filled(pools'[y]) /\ Inside(pools'[y], y, held')
  <2>1. CASE y = x
    BY <1>6, <1>7, <2>1
  <2>2. CASE y # x
    <3>1. pools'[y] = pools[y] /\ Sound(pools[y], y, held) /\ Filled(pools[y]) /\ Inside(pools[y], y, held)
      BY <1>7, <2>2 DEF Inv
    <3> QED BY <1>4, <2>2, <3>1, OtherPool
  <2> QED BY <2>1, <2>2
<1>9. ASSUME NEW it \in held' PROVE it = <<it[1], it[2], it[3]>> /\ it[1] \in DOMAIN pools'
  <2>1. it \in held \/ it = <<x, id, i>>
    BY <1>4
  <2> QED BY <1>7, <2>1 DEF Inv
<1> QED BY <1>7, <1>8, <1>9 DEF Inv

(* So does giving one back.                                                *)
LEMMA ReleaseKeeps ==
    ASSUME Inv, NEW item \in held, mp_pool_release(item)
    PROVE  Inv'
<1>1. PICK x : x = item[1]
  OBVIOUS
<1>2. PICK id : id = item[2]
  OBVIOUS
<1>3. PICK i : i = item[3]
  OBVIOUS
<1>4. item = <<x, id, i>> /\ x \in DOMAIN pools
  BY <1>1, <1>2, <1>3 DEF Inv
<1>5. PICK P : P = pools[x]
  OBVIOUS
<1>6. pools' = [pools EXCEPT ![x] = Released(P, id, i)] /\ held' = held \ {<<x, id, i>>}
  BY <1>1, <1>2, <1>3, <1>4, <1>5 DEF mp_pool_release
<1>7. Sound(P, x, held) /\ Filled(P) /\ Inside(P, x, held)
  BY <1>4, <1>5 DEF Inv
<1>8. id \in DOMAIN P.chunks /\ i \in 1 .. P.capacity /\ <<x, id, i>> \in held
  BY <1>1, <1>2, <1>3, <1>4, <1>7 DEF Inside
<1>9. Sound(Released(P, id, i), x, held') /\ Filled(Released(P, id, i)) /\ Inside(Released(P, id, i), x, held')
  BY <1>6, <1>7, <1>8, ReleasedFacts
<1>10. /\ DOMAIN pools' = DOMAIN pools /\ pools' = [y \in DOMAIN pools' |-> pools'[y]] /\ pools'[x] = Released(P, id, i)
       /\ \A y \in DOMAIN pools : y # x => pools'[y] = pools[y]
  BY <1>4, <1>6 DEF Inv
<1>11. ASSUME NEW y \in DOMAIN pools
       PROVE  Sound(pools'[y], y, held') /\ Filled(pools'[y]) /\ Inside(pools'[y], y, held')
  <2>1. CASE y = x
    BY <1>9, <1>10, <2>1
  <2>2. CASE y # x
    <3>1. pools'[y] = pools[y] /\ Sound(pools[y], y, held) /\ Filled(pools[y]) /\ Inside(pools[y], y, held)
      BY <1>10, <2>2 DEF Inv
    <3> QED BY <1>6, <2>2, <3>1, OtherPool
  <2> QED BY <2>1, <2>2
<1>12. ASSUME NEW it \in held' PROVE it = <<it[1], it[2], it[3]>> /\ it[1] \in DOMAIN pools'
  BY <1>6, <1>10 DEF Inv
<1> QED BY <1>10, <1>11, <1>12 DEF Inv

(* And so does a collection of all pools.                                  *)
LEMMA CollectKeeps ==
    ASSUME Inv, mp_pool_garbage_collect
    PROVE  Inv'
<1>1. PICK f : /\ \A x \in DOMAIN pools : f[x] \in mp_pool_sort_used_chunks(pools[x])
               /\ pools' = [x \in DOMAIN pools |-> mp_pool_clean(f[x], 0, TRUE)]
  BY DEF mp_pool_garbage_collect
<1>2. held' = held
  BY DEF mp_pool_garbage_collect
<1>3. /\ DOMAIN pools' = DOMAIN pools /\ pools' = [x \in DOMAIN pools' |-> pools'[x]]
      /\ \A x \in DOMAIN pools : pools'[x] = mp_pool_clean(f[x], 0, TRUE)
  BY <1>1
<1>4. ASSUME NEW x \in DOMAIN pools
      PROVE  Sound(pools'[x], x, held) /\ Filled(pools'[x]) /\ Inside(pools'[x], x, held)
  <2>1. Sound(pools[x], x, held) /\ Filled(pools[x]) /\ Inside(pools[x], x, held)
    BY DEF Inv
  <2>2. f[x] \in mp_pool_sort_used_chunks(pools[x])
    BY <1>1
  <2>3. Sound(f[x], x, held) /\ Filled(f[x]) /\ Inside(f[x], x, held)
    BY <2>1, <2>2, SortedFacts
  <2>4. \A it \in held : it = <<it[1], it[2], it[3]>>
    BY DEF Inv
  <2> QED BY <1>3, <2>3, <2>4, CleanFacts
<1> QED BY <1>2, <1>3, <1>4 DEF Inv

(* What the pools promise follows.                                         *)
LEMMA InvImplies == Inv => PoolsRight
<1> SUFFICES ASSUME Inv, NEW x \in DOMAIN pools
             PROVE  LET P == pools[x]
                        lists == P.used \o P.empty \o P.full
                        taken(id) == {i \in 1..P.capacity : <<x, id, i>> \in held}
                    IN /\ P.capacity >= 2
                       /\ mp_pool_assert_ok(P)
                       /\ IsInjective(lists) /\ ToSet(lists) = DOMAIN P.chunks
                       /\ \A item \in held : item[1] = x => item[2] \in DOMAIN P.chunks
                       /\ \A id \in DOMAIN P.chunks :
                            LET C == P.chunks[id]
                            IN /\ C.n_allocated = Cardinality(taken(id))
                               /\ IsInjective(C.first_free) /\ ToSet(C.first_free) \cap taken(id) = {}
                               /\ ToSet(C.first_free) \cup taken(id) = 1..C.next_mem
                       /\ P.min_empty <= P.n_empty /\ P.early = {}
  BY DEF PoolsRight
<1>1. PICK P : P = pools[x]
  OBVIOUS
<1>2. Shape(P) /\ Lists(P) /\ Marks(P) /\ Boxes(P, x, held) /\ Filled(P) /\ Inside(P, x, held)
  BY <1>1 DEF Inv, Sound
<1>3. P.capacity >= 2 /\ P.n_empty = Len(P.empty) /\ P.min_empty <= P.n_empty /\ P.early = {}
  BY <1>2 DEF Shape, Marks, Lists
<1>4. \A id \in DOMAIN P.chunks : Box(P.chunks[id], TakenOf(x, id, held, P.capacity), P.capacity)
  BY <1>2 DEF Boxes
<1>5. mp_pool_assert_ok(P)
  BY <1>2, <1>3, <1>4 DEF mp_pool_assert_ok, Filled, Level, Box
<1>6. IsInjective(P.used \o P.empty \o P.full) /\ ToSet(P.used \o P.empty \o P.full) = DOMAIN P.chunks
  <2>1. PICK a \in Seq(Nat) : a = P.used
    BY <1>2 DEF Lists
  <2>2. PICK b \in Seq(Nat) : b = P.empty
    BY <1>2 DEF Lists
  <2>3. PICK c \in Seq(Nat) : c = P.full
    BY <1>2 DEF Lists
  <2>4. /\ IsInjective(a) /\ IsInjective(b) /\ IsInjective(c) /\ ToSet(a) \cap ToSet(b) = {}
        /\ ToSet(a) \cap ToSet(c) = {} /\ ToSet(b) \cap ToSet(c) = {}
        /\ ToSet(a) \cup ToSet(b) \cup ToSet(c) = DOMAIN P.chunks
    BY <1>2, <2>1, <2>2, <2>3 DEF Lists
  <2>5. a \o b \in Seq(Nat) /\ IsInjective(a \o b) /\ ToSet(a \o b) = ToSet(a) \cup ToSet(b)
    BY <2>4, JoinFacts
  <2>6. IsInjective((a \o b) \o c) /\ ToSet((a \o b) \o c) = ToSet(a) \cup ToSet(b) \cup ToSet(c)
    <3>1. ToSet(a \o b) \cap ToSet(c) = {}
      BY <2>4, <2>5
    <3>2. PICK d \in Seq(Nat) : d = a \o b
      BY <2>5
    <3>3. IsInjective(d \o c) /\ ToSet(d \o c) = ToSet(d) \cup ToSet(c)
      <4>1. IsInjective(d) /\ IsInjective(c) /\ ToSet(d) \cap ToSet(c) = {}
        BY <2>4, <2>5, <3>1, <3>2
      <4> QED BY <4>1, JoinFacts
    <3> QED BY <2>5, <3>2, <3>3
  <2> QED BY <2>1, <2>2, <2>3, <2>4, <2>6
<1>7. \A item \in held : item[1] = x => item[2] \in DOMAIN P.chunks
  BY <1>2 DEF Inside
<1>8. ASSUME NEW id \in DOMAIN P.chunks
      PROVE  /\ P.chunks[id].n_allocated = Cardinality(TakenOf(x, id, held, P.capacity))
             /\ IsInjective(P.chunks[id].first_free)
             /\ ToSet(P.chunks[id].first_free) \cap TakenOf(x, id, held, P.capacity) = {}
             /\ ToSet(P.chunks[id].first_free) \cup TakenOf(x, id, held, P.capacity) = 1 .. P.chunks[id].next_mem
  BY <1>4 DEF Box
<1> QED BY <1>1, <1>3, <1>5, <1>6, <1>7, <1>8 DEF TakenOf

(* For any number of pools, any sizes, any limits and any order of getting *)
(* and giving back: the assertions of mp_pool_assert_ok() hold, a chunk is *)
(* on one list, an item is either held or free, no chunk with a held item  *)
(* is freed, and a collection frees only what has been empty since the     *)
(* last one (mp_pool_get(), mp_pool_release(), mp_pool_clean()).           *)
THEOREM PoolsStayRight == ASSUME SizesRight PROVE PoolsSpec => []PoolsRight
<1>1. PoolsInit => Inv
  BY InvInit
<1>2. Inv /\ [PoolsNext]_poolsvars => Inv'
  <2> SUFFICES ASSUME Inv, [PoolsNext]_poolsvars PROVE Inv'
    OBVIOUS
  <2>1. CASE \E x \in DOMAIN pools : mp_pool_get(x)
    BY <2>1, GetKeeps
  <2>2. CASE \E item \in held : mp_pool_release(item)
    BY <2>2, ReleaseKeeps
  <2>3. CASE mp_pool_garbage_collect
    BY <2>3, CollectKeeps
  <2>4. CASE UNCHANGED poolsvars
    BY <2>4 DEF Inv, poolsvars
  <2> QED BY <2>1, <2>2, <2>3, <2>4 DEF PoolsNext
<1>3. Inv => PoolsRight
  BY InvImplies
<1> QED BY <1>1, <1>2, <1>3, PTL DEF PoolsSpec

-----------------------------------------------------------------------------
(* What one target is charged with, and what is carried through a command. *)
Meter == [n : Nat, first : Nat, noticed : BOOLEAN]
Targets == Locals \cup DOMAIN Members
Paid(F, p) ==
    /\ F \in [Targets -> Meter] /\ p \in [Targets -> Nat]
    /\ \A t \in Targets : /\ F[t].first <= clock /\ p[t] <= F[t].n + F[t].first
                          /\ p[t] <= FloodCount + clock
Turn(o, f, c, w, p) == [out |-> o, flood |-> f, caller |-> c, owed |-> w, passed |-> p]
PaidFor(M) ==
    /\ M = Turn(M.out, M.flood, M.caller, M.owed, M.passed)
    /\ Paid(M.flood, M.passed)

(* The count falls by one a second, so what a target was sent stays below  *)
(* the count and the time it was last brought up to date at.               *)
LEMMA DecayedKeeps ==
    ASSUME clock \in Nat, NEW f \in Meter, f.first <= clock
    PROVE  /\ Decayed(f) \in Meter /\ Decayed(f).first <= clock
           /\ Decayed(f).n + Decayed(f).first >= f.n + f.first
<1>1. f.n \in Nat /\ f.first \in Nat /\ f.noticed \in BOOLEAN
  BY DEF Meter
<1> DEFINE n == f.n - (clock - f.first)
<1>2. CASE f.first + 1 < clock /\ n <= 0
  <2>1. Decayed(f) = [n |-> 0, first |-> clock, noticed |-> FALSE]
    BY <1>2 DEF Decayed
  <2>2. 0 + clock >= f.n + f.first
    BY <1>1, <1>2
  <2> QED BY <2>1, <2>2 DEF Meter
<1>3. CASE f.first + 1 < clock /\ ~(n <= 0)
  <2>1. Decayed(f) = [n |-> n, first |-> clock, noticed |-> f.noticed]
    BY <1>3 DEF Decayed
  <2>2. n \in Nat /\ n + clock >= f.n + f.first
    BY <1>1, <1>3
  <2> HIDE DEF n
  <2> QED BY <1>1, <2>1, <2>2 DEF Meter
<1>4. CASE ~(f.first + 1 < clock)
  <2>1. Decayed(f) = f
    BY <1>4 DEF Decayed
  <2> QED BY <1>1, <2>1
<1> QED BY <1>2, <1>3, <1>4

(* A message that is let through adds one to the count of its target, and  *)
(* one that is not adds nothing or two.                                    *)
LEMMA ChargedFor ==
    ASSUME clock \in Nat, FloodCount \in Nat, NEW F, NEW p, Paid(F, p), NEW t \in Targets
    PROVE  /\ flood_attack(F, t) \in [Targets -> Meter]
           /\ \A u \in Targets : u # t => flood_attack(F, t)[u] = F[u]
           /\ flood_attack(F, t)[t].first <= clock
           /\ p[t] <= flood_attack(F, t)[t].n + flood_attack(F, t)[t].first
           /\ ~Attack(F, t) => /\ p[t] + 1 <= flood_attack(F, t)[t].n + flood_attack(F, t)[t].first
                               /\ p[t] + 1 <= FloodCount + clock
<1>1. PICK f : f = Decayed(F[t])
  OBVIOUS
<1>2. F[t] \in Meter /\ F[t].first <= clock /\ F[t].n \in Nat /\ F[t].first \in Nat /\ p[t] \in Nat
      /\ p[t] <= F[t].n + F[t].first
  BY DEF Paid, Meter
<1>3. f \in Meter /\ f.first <= clock /\ f.n + f.first >= F[t].n + F[t].first
  BY <1>1, <1>2, DecayedKeeps
<1>4. f.n \in Nat /\ f.first \in Nat /\ f.noticed \in BOOLEAN /\ f = [n |-> f.n, first |-> f.first, noticed |-> f.noticed]
  BY <1>3 DEF Meter
<1>5. p[t] <= f.n + f.first
  BY <1>2, <1>3, <1>4
<1> DEFINE g == IF ~Floods(f) THEN [f EXCEPT !.n = @ + 1]
                ELSE IF f.noticed THEN f ELSE [f EXCEPT !.noticed = TRUE, !.n = @ + 2]
<1>6. flood_attack(F, t) = [F EXCEPT ![t] = g]
  BY <1>1 DEF flood_attack
<1>7. Attack(F, t) = Floods(f)
  BY <1>1 DEF Attack
<1>8. CASE ~Floods(f)
  <2>1. g = [n |-> f.n + 1, first |-> f.first, noticed |-> f.noticed]
    BY <1>4, <1>8
  <2>2. ~(f.n >= FloodCount)
    BY <1>8 DEF Floods
  <2>3. f.n + 1 <= FloodCount
    BY <1>4, <2>2
  <2>4. p[t] + 1 <= f.n + 1 + f.first /\ p[t] + 1 <= FloodCount + clock
    BY <1>2, <1>3, <1>4, <1>5, <2>3
  <2> HIDE DEF g
  <2>5. g \in Meter /\ g.first <= clock /\ g.n = f.n + 1 /\ g.first = f.first
    BY <1>3, <1>4, <2>1 DEF Meter
  <2>6. p[t] <= g.n + g.first /\ p[t] + 1 <= g.n + g.first
    BY <1>2, <1>4, <2>4, <2>5
  <2>7. flood_attack(F, t) \in [Targets -> Meter] /\ flood_attack(F, t)[t] = g
        /\ \A u \in Targets : u # t => flood_attack(F, t)[u] = F[u]
    BY <1>6, <2>5 DEF Paid
  <2> QED BY <2>4, <2>5, <2>6, <2>7
<1>9. CASE Floods(f)
  <2>1. g \in Meter /\ g.first = f.first /\ g.n \in Nat /\ g.n >= f.n
    <3>1. CASE f.noticed
      BY <1>3, <1>4, <1>9, <3>1
    <3>2. CASE ~f.noticed
      <4>1. g = [n |-> f.n + 2, first |-> f.first, noticed |-> TRUE]
        BY <1>4, <1>9, <3>2
      <4>2. f.n + 2 \in Nat /\ f.n + 2 >= f.n
        BY <1>4
      <4> HIDE DEF g
      <4> QED BY <1>4, <4>1, <4>2 DEF Meter
    <3> QED BY <3>1, <3>2
  <2> HIDE DEF g
  <2>2. p[t] <= g.n + g.first
    BY <1>2, <1>4, <1>5, <2>1
  <2>3. flood_attack(F, t) \in [Targets -> Meter] /\ flood_attack(F, t)[t] = g
        /\ \A u \in Targets : u # t => flood_attack(F, t)[u] = F[u]
    BY <1>6, <2>1 DEF Paid
  <2> QED BY <1>3, <1>7, <1>9, <2>1, <2>2, <2>3
<1> QED BY <1>8, <1>9

(* A target that is not in the tables has no count.                        *)
LEMMA NotCharged ==
    ASSUME NEW F, F \in [Targets -> Meter], NEW t, t \notin Targets
    PROVE  flood_attack(F, t) = F
BY DEF flood_attack

(* A message that is refused leaves every target within its bound.         *)
LEMMA RefusedKeeps ==
    ASSUME clock \in Nat, FloodCount \in Nat, NEW F, NEW p, Paid(F, p), NEW t
    PROVE  Paid(flood_attack(F, t), p)
<1>1. CASE t \notin Targets
  BY <1>1, NotCharged DEF Paid
<1>2. CASE t \in Targets
  <2>1. PICK G : G = flood_attack(F, t)
    OBVIOUS
  <2>2. /\ G \in [Targets -> Meter] /\ \A u \in Targets : u # t => G[u] = F[u]
        /\ G[t].first <= clock /\ p[t] <= G[t].n + G[t].first
    BY <1>2, <2>1, ChargedFor
  <2> QED BY <2>1, <2>2 DEF Paid
<1> QED BY <1>1, <1>2

(* A message that is let through adds one to what its target got.          *)
LEMMA LetThroughKeeps ==
    ASSUME clock \in Nat, FloodCount \in Nat, NEW F, NEW p, Paid(F, p), NEW t, ~Attack(F, t)
    PROVE  Paid(flood_attack(F, t), [p EXCEPT ![t] = @ + 1])
<1>1. CASE t \notin Targets
  <2>1. [p EXCEPT ![t] = @ + 1] = p
    BY <1>1 DEF Paid
  <2> QED BY <1>1, <2>1, NotCharged DEF Paid
<1>2. CASE t \in Targets
  <2>1. PICK G : G = flood_attack(F, t)
    OBVIOUS
  <2>2. /\ G \in [Targets -> Meter] /\ \A u \in Targets : u # t => G[u] = F[u]
        /\ G[t].first <= clock /\ p[t] + 1 <= G[t].n + G[t].first /\ p[t] + 1 <= FloodCount + clock
    BY <1>2, <2>1, ChargedFor
  <2>3. PICK r : r = [p EXCEPT ![t] = @ + 1]
    OBVIOUS
  <2>4. p \in [Targets -> Nat]
    BY DEF Paid
  <2>5. r \in [Targets -> Nat] /\ r[t] = p[t] + 1 /\ \A u \in Targets : u # t => r[u] = p[u]
    BY <1>2, <2>3, <2>4
  <2>6. ASSUME NEW u \in Targets
        PROVE  G[u].first <= clock /\ r[u] <= G[u].n + G[u].first /\ r[u] <= FloodCount + clock
    BY <2>2, <2>5, <2>6 DEF Paid
  <2>7. Paid(G, r)
    BY <2>2, <2>5, <2>6 DEF Paid
  <2> QED BY <2>1, <2>3, <2>7
<1> QED BY <1>1, <1>2

-----------------------------------------------------------------------------
(* What a command changes, field by field.                                 *)
LEMMA TurnFields ==
    ASSUME NEW o, NEW f, NEW c, NEW w, NEW p, NEW z
    PROVE  /\ Turn(o, f, c, w, p).out = o /\ Turn(o, f, c, w, p).flood = f /\ Turn(o, f, c, w, p).caller = c
           /\ Turn(o, f, c, w, p).owed = w /\ Turn(o, f, c, w, p).passed = p
           /\ [Turn(o, f, c, w, p) EXCEPT !.out = z] = Turn(z, f, c, w, p)
           /\ [Turn(o, f, c, w, p) EXCEPT !.flood = z] = Turn(o, z, c, w, p)
           /\ [Turn(o, f, c, w, p) EXCEPT !.caller = z] = Turn(o, f, z, w, p)
           /\ [Turn(o, f, c, w, p) EXCEPT !.owed = z] = Turn(o, f, c, z, p)
           /\ [Turn(o, f, c, w, p) EXCEPT !.passed = z] = Turn(o, f, c, w, z)
<1>1. PICK T : T = Turn(o, f, c, w, p)
  OBVIOUS
<1>2. T = [out |-> o, flood |-> f, caller |-> c, owed |-> w, passed |-> p]
  BY <1>1 DEF Turn
<1>3. T.out = o /\ T.flood = f /\ T.caller = c /\ T.owed = w /\ T.passed = p
  BY <1>2
<1>4. [T EXCEPT !.out = z] = Turn(z, f, c, w, p)
  BY <1>2 DEF Turn
<1>5. [T EXCEPT !.flood = z] = Turn(o, z, c, w, p)
  BY <1>2 DEF Turn
<1>6. [T EXCEPT !.caller = z] = Turn(o, f, z, w, p)
  BY <1>2 DEF Turn
<1>7. [T EXCEPT !.owed = z] = Turn(o, f, c, z, p)
  BY <1>2 DEF Turn
<1>8. [T EXCEPT !.passed = z] = Turn(o, f, c, w, z)
  BY <1>2 DEF Turn
<1> QED BY <1>1, <1>3, <1>4, <1>5, <1>6, <1>7, <1>8

(* Whatever is queued and owed, only the counters and what was passed      *)
(* decide whether a command has kept the bound.                            *)
LEMMA TurnPaid ==
    ASSUME NEW o, NEW f, NEW c, NEW w, NEW p, Paid(f, p)
    PROVE  PaidFor(Turn(o, f, c, w, p))
BY TurnFields DEF PaidFor

(* An error reply to the source is not counted for any target.             *)
LEMMA ReplyKeeps ==
    ASSUME NEW M, PaidFor(M), NEW src, NEW notice
    PROVE  PaidFor(Reply(M, src, notice))
<1>1. PICK o : o = sendto_one(M.out, src)
  OBVIOUS
<1>2. [M EXCEPT !.out = o] = Turn(o, M.flood, M.caller, M.owed, M.passed)
  BY TurnFields DEF PaidFor
<1> QED BY <1>1, <1>2, TurnPaid DEF Reply, PaidFor

(* Sending a line to those it is due to is not counted either.             *)
LEMMA SentKeeps ==
    ASSUME NEW M, PaidFor(M), NEW o, NEW due
    PROVE  PaidFor(Sent(M, o, due)) /\ Sent(M, o, due).flood = M.flood /\ Sent(M, o, due).passed = M.passed
<1>1. PICK N : N = [M EXCEPT !.out = o]
  OBVIOUS
<1>2. N = Turn(o, M.flood, M.caller, M.owed, M.passed)
  BY <1>1, TurnFields DEF PaidFor
<1>3. PICK w : w = M.owed \cup due
  OBVIOUS
<1>4. [M EXCEPT !.out = o, !.owed = @ \cup due] = [N EXCEPT !.owed = w]
  BY <1>1, <1>3
<1>5. [N EXCEPT !.owed = w] = Turn(o, M.flood, M.caller, w, M.passed)
  BY <1>2, TurnFields
<1>6. Sent(M, o, due) = Turn(o, M.flood, M.caller, w, M.passed)
  BY <1>4, <1>5 DEF Sent
<1>7. Paid(M.flood, M.passed)
  BY DEF PaidFor
<1>8. PaidFor(Turn(o, M.flood, M.caller, w, M.passed))
  BY <1>7, TurnPaid
<1> QED BY <1>6, <1>8, TurnFields

(* A message withheld as an attack is counted and not passed on.           *)
LEMMA WithheldKeeps ==
    ASSUME clock \in Nat, FloodCount \in Nat, NEW M, PaidFor(M), NEW t, NEW o
    PROVE  PaidFor(Withheld(M, o, t))
<1>1. PICK N : N = [M EXCEPT !.out = o]
  OBVIOUS
<1>2. N = Turn(o, M.flood, M.caller, M.owed, M.passed)
  BY <1>1, TurnFields DEF PaidFor
<1>3. PICK G : G = flood_attack(M.flood, t)
  OBVIOUS
<1>4. [M EXCEPT !.out = o, !.flood = flood_attack(@, t)] = [N EXCEPT !.flood = G]
  BY <1>1, <1>3
<1>5. [N EXCEPT !.flood = G] = Turn(o, G, M.caller, M.owed, M.passed)
  BY <1>2, TurnFields
<1>6. Paid(G, M.passed)
  BY <1>3, RefusedKeeps DEF PaidFor
<1> QED BY <1>4, <1>5, <1>6, TurnPaid DEF Withheld

(* A message that is no attack is counted and passed on.                   *)
LEMMA ThroughKeeps ==
    ASSUME clock \in Nat, FloodCount \in Nat, NEW M, PaidFor(M), NEW t, ~Attack(M.flood, t)
    PROVE  PaidFor(LetThrough(M, t))
<1>1. PICK G : G = flood_attack(M.flood, t)
  OBVIOUS
<1>2. PICK N : N = [M EXCEPT !.flood = G]
  OBVIOUS
<1>3. N = Turn(M.out, G, M.caller, M.owed, M.passed)
  BY <1>2, TurnFields DEF PaidFor
<1>4. PICK r : r = [M.passed EXCEPT ![t] = @ + 1]
  OBVIOUS
<1>5. [M EXCEPT !.flood = flood_attack(@, t), !.passed[t] = @ + 1] = [N EXCEPT !.passed = r]
  BY <1>1, <1>2, <1>4
<1>6. [N EXCEPT !.passed = r] = Turn(M.out, G, M.caller, M.owed, r)
  BY <1>3, TurnFields
<1>7. Paid(G, r)
  BY <1>1, <1>4, LetThroughKeeps DEF PaidFor
<1> QED BY <1>5, <1>6, <1>7, TurnPaid DEF LetThrough

(* PRIVMSG or NOTICE to a channel (msg_channel).                           *)
LEMMA ChannelKeeps ==
    ASSUME clock \in Nat, FloodCount \in Nat, NEW M, PaidFor(M), NEW src, NEW ch, NEW type, NEW notice
    PROVE  PaidFor(msg_channel(M, src, ch, type, notice))
<1> DEFINE sent == sendto_channel_butone(M.out, src, ch, type)
           lo == New(M.out)
           due == {<<IF m.who \in Locals THEN lo ELSE lo + 1, From[m.who]>> : m \in Eligible(M.out, src, ch, type)}
                  \cup {<<lo, None>>, <<lo + 1, None>>}
           N == Sent(M, sent, due)
           told == Notices(M, src, ch, notice)
<1>1. msg_channel(M, src, ch, type, notice) =
        IF CanSend[src, ch] = "no" THEN Reply(M, src, notice)
        ELSE IF CanSend[src, ch] = "OPV" THEN N
        ELSE IF Attack(M.flood, ch) THEN Withheld(M, told, ch) ELSE LetThrough(N, ch)
  BY DEF msg_channel
<1>2. PaidFor(N) /\ N.flood = M.flood
  BY SentKeeps
<1> HIDE DEF N, told
<1>3. PaidFor(Reply(M, src, notice)) /\ PaidFor(Withheld(M, told, ch))
  BY ReplyKeeps, WithheldKeeps
<1>4. ~Attack(M.flood, ch) => PaidFor(LetThrough(N, ch))
  BY <1>2, ThroughKeeps
<1> QED BY <1>1, <1>2, <1>3, <1>4

(* The notice of caller ID changes its own time only.                      *)
LEMMA CallerKeeps ==
    ASSUME NEW M, PaidFor(M), NEW src, NEW to, NEW notice
    PROVE  PaidFor(CallerIdNotice(M, src, to, notice))
<1>1. PICK L : L = Reply(M, src, notice)
  OBVIOUS
<1>2. PaidFor(L)
  BY <1>1, ReplyKeeps
<1>3. PICK o : o = sendto_one(L.out, to)
  OBVIOUS
<1>4. PICK N : N = [L EXCEPT !.out = o]
  OBVIOUS
<1>5. N = Turn(o, L.flood, L.caller, L.owed, L.passed)
  BY <1>2, <1>4, TurnFields DEF PaidFor
<1>6. PICK r : r = [L.caller EXCEPT ![to] = clock]
  OBVIOUS
<1>7. [L EXCEPT !.out = sendto_one(@, to), !.caller[to] = clock] = [N EXCEPT !.caller = r]
  BY <1>3, <1>4, <1>6
<1>8. [N EXCEPT !.caller = r] = Turn(o, L.flood, r, L.owed, L.passed)
  BY <1>5, TurnFields
<1>9. Paid(L.flood, L.passed)
  BY <1>2 DEF PaidFor
<1>10. PaidFor([L EXCEPT !.out = sendto_one(@, to), !.caller[to] = clock])
  BY <1>7, <1>8, <1>9, TurnPaid
<1> QED BY <1>1, <1>10 DEF CallerIdNotice

(* What caller ID stops is counted, and told of if an attack.              *)
LEMMA CountedKeeps ==
    ASSUME clock \in Nat, FloodCount \in Nat, NEW M, PaidFor(M), NEW src, NEW to, NEW notice
    PROVE  PaidFor(CountedNotice(M, src, to, notice))
<1>1. PICK o : o = (IF Attack(M.flood, to) THEN Notices(M, src, to, notice) ELSE M.out)
  OBVIOUS
<1>2. PaidFor(Withheld(M, o, to))
  BY WithheldKeeps
<1> QED BY <1>1, <1>2 DEF CountedNotice

(* A message to a client is passed on when it is not counted, or no        *)
(* attack (msg_client).                                                    *)
LEMMA DirectKeeps ==
    ASSUME clock \in Nat, FloodCount \in Nat, NEW M, PaidFor(M), NEW to, NEW counted,
           counted => ~Attack(M.flood, to)
    PROVE  PaidFor(Direct(M, to, counted))
<1> DEFINE due == IF IsDead(M.out, From[to]) THEN {} ELSE {<<New(M.out), From[to]>>}
           sent == Sent(M, sendto_anywhere(M.out, to), due)
<1>1. PaidFor(sent) /\ sent.flood = M.flood
  BY SentKeeps
<1>2. Direct(M, to, counted) = IF counted THEN LetThrough(sent, to) ELSE sent
  BY DEF Direct
<1> HIDE DEF sent
<1>3. CASE counted
  <2>1. ~Attack(sent.flood, to)
    BY <1>1, <1>3
  <2> QED BY <1>1, <1>2, <1>3, <2>1, ThroughKeeps
<1>4. CASE ~counted
  BY <1>1, <1>2, <1>4
<1> QED BY <1>3, <1>4

(* PRIVMSG or NOTICE to a client (msg_client).                             *)
LEMMA ClientKeeps ==
    ASSUME clock \in Nat, FloodCount \in Nat, NEW M0, PaidFor(M0), NEW src, NEW to, NEW notice
    PROVE  PaidFor(msg_client(M0, src, to, notice))
<1> DEFINE counted == to \in Locals /\ flood_attack_client(src)
           deliver(M) ==
             IF src \in Locals /\ to \in RegOnly /\ src \notin Operators /\ src # to THEN Reply(M, src, notice)
             ELSE IF to \in CallerId /\ <<src, to>> \notin Accepts
             THEN CountedNotice(CallerIdNotice(Reply(M, src, notice), src, to, notice), src, to, TRUE)
             ELSE IF counted /\ Attack(M.flood, to) THEN CountedNotice(M, src, to, notice)
             ELSE Direct(M, to, counted)
<1>1. PICK M : M = IF src \in Locals /\ to \in Away THEN Reply(M0, src, notice) ELSE M0
  OBVIOUS
<1>2. PaidFor(M)
  BY <1>1, ReplyKeeps
<1>3. msg_client(M0, src, to, notice) = deliver(M)
  BY <1>1 DEF msg_client
<1>4. PICK L : L = Reply(M, src, notice)
  OBVIOUS
<1>5. PaidFor(L)
  BY <1>2, <1>4, ReplyKeeps
<1>6. PICK K : K = CallerIdNotice(L, src, to, notice)
  OBVIOUS
<1>7. PaidFor(K)
  BY <1>5, <1>6, CallerKeeps
<1>8. PaidFor(CountedNotice(K, src, to, TRUE)) /\ PaidFor(CountedNotice(M, src, to, notice))
  BY <1>2, <1>7, CountedKeeps
<1>9. ~(counted /\ Attack(M.flood, to)) => PaidFor(Direct(M, to, counted))
  BY <1>2, DirectKeeps
<1> HIDE DEF counted
<1> QED BY <1>3, <1>4, <1>5, <1>6, <1>8, <1>9

(* PRIVMSG to the users a mask covers (handle_special).                    *)
LEMMA SpecialKeeps ==
    ASSUME NEW M, PaidFor(M), NEW src, NEW t
    PROVE  PaidFor(handle_special(M, src, t))
<1> DEFINE o == sendto_match_butone(M.out, src, t.name)
           due == {<<New(M.out), c>> : c \in MaskCovers[t.name] \cup {None}}
                  \cup {<<New(M.out) + 1, s>> : s \in (Links \ {From[src]}) \cup {None}}
<1>1. handle_special(M, src, t) = IF src \notin Operators THEN Reply(M, src, FALSE) ELSE Sent(M, o, due)
  BY DEF handle_special
<1> HIDE DEF o, due
<1> QED BY <1>1, ReplyKeeps, SentKeeps

(* A list of targets under way: what is carried, those found so far, and   *)
(* whether there are already as many as may be.                            *)
Job(M, targets, full) == [M |-> M, targets |-> targets, full |-> full]
JobRight(A, S) ==
    /\ A = Job(A.M, A.targets, A.full)
    /\ PaidFor(A.M) /\ A.targets \in Seq(S)

(* A list under way, field by field.                                       *)
LEMMA JobFields ==
    ASSUME NEW M, NEW q, NEW f, NEW z
    PROVE  /\ Job(M, q, f).M = M /\ Job(M, q, f).targets = q /\ Job(M, q, f).full = f
           /\ [Job(M, q, f) EXCEPT !.M = z] = Job(z, q, f)
           /\ [Job(M, q, f) EXCEPT !.targets = z] = Job(M, z, f)
           /\ [Job(M, q, f) EXCEPT !.full = z] = Job(M, q, z)
<1>1. PICK T : T = Job(M, q, f)
  OBVIOUS
<1>2. T = [M |-> M, targets |-> q, full |-> f]
  BY <1>1 DEF Job
<1>3. T.M = M /\ T.targets = q /\ T.full = f
  BY <1>2
<1>4. [T EXCEPT !.M = z] = Job(z, q, f)
  BY <1>2 DEF Job
<1>5. [T EXCEPT !.targets = z] = Job(M, z, f)
  BY <1>2 DEF Job
<1>6. [T EXCEPT !.full = z] = Job(M, q, z)
  BY <1>2 DEF Job
<1> QED BY <1>1, <1>3, <1>4, <1>5, <1>6

(* A list is in order if what it carries is, and its targets are some of   *)
(* those named.                                                            *)
LEMMA JobMade ==
    ASSUME NEW M, NEW q, NEW f, NEW S, PaidFor(M), q \in Seq(S)
    PROVE  JobRight(Job(M, q, f), S)
BY JobFields DEF JobRight

(* One more target is looked at (build_target_list).                       *)
LEMMA AddKeeps ==
    ASSUME NEW S, NEW A, JobRight(A, S), NEW src, NEW t \in S, NEW notice
    PROVE  JobRight(AddTarget(A, src, t, notice), S)
<1> DEFINE M1 == handle_special(A.M, src, t)
           M2 == Reply(A.M, src, notice)
           M3 == Reply(A.M, src, FALSE)
<1>1. PaidFor(A.M) /\ A.targets \in Seq(S)
  BY DEF JobRight
<1>2. PaidFor(M1) /\ PaidFor(M2) /\ PaidFor(M3)
  BY <1>1, SpecialKeeps, ReplyKeeps
<1>3. A = Job(A.M, A.targets, A.full)
  BY DEF JobRight
<1>4. PICK q : q = Append(A.targets, t)
  OBVIOUS
<1>5. q \in Seq(S)
  BY <1>1, <1>4
<1>6. AddTarget(A, src, t, notice) \in
        {A, [A EXCEPT !.M = M1], [A EXCEPT !.M = M2], [A EXCEPT !.M = M3],
         [A EXCEPT !.M = M3, !.full = TRUE], [A EXCEPT !.targets = q]}
  <2>1. [A EXCEPT !.M = handle_special(@, src, t)] = [A EXCEPT !.M = M1]
        /\ [A EXCEPT !.M = Reply(@, src, notice)] = [A EXCEPT !.M = M2]
        /\ [A EXCEPT !.M = Reply(@, src, FALSE)] = [A EXCEPT !.M = M3]
        /\ [A EXCEPT !.M = Reply(@, src, FALSE), !.full = TRUE] = [A EXCEPT !.M = M3, !.full = TRUE]
        /\ [A EXCEPT !.targets = Append(@, t)] = [A EXCEPT !.targets = q]
    BY <1>4
  <2> HIDE DEF M1, M2, M3
  <2> QED BY <2>1 DEF AddTarget
<1> HIDE DEF M1, M2, M3
<1>7. [A EXCEPT !.M = M1] = Job(M1, A.targets, A.full) /\ [A EXCEPT !.M = M2] = Job(M2, A.targets, A.full)
      /\ [A EXCEPT !.M = M3] = Job(M3, A.targets, A.full) /\ [A EXCEPT !.targets = q] = Job(A.M, q, A.full)
  BY <1>3, JobFields
<1>8. PICK L : L = [A EXCEPT !.M = M3]
  OBVIOUS
<1>9. [A EXCEPT !.M = M3, !.full = TRUE] = [L EXCEPT !.full = TRUE]
  BY <1>8
<1>10. [L EXCEPT !.full = TRUE] = Job(M3, A.targets, TRUE)
  <2>1. PICK yes : yes = TRUE
    OBVIOUS
  <2>2. L = Job(M3, A.targets, A.full)
    BY <1>7, <1>8
  <2>3. [L EXCEPT !.full = yes] = Job(M3, A.targets, yes)
    BY <2>2, JobFields
  <2> QED BY <2>1, <2>3
<1>11. /\ JobRight(Job(M1, A.targets, A.full), S) /\ JobRight(Job(M2, A.targets, A.full), S)
       /\ JobRight(Job(M3, A.targets, A.full), S) /\ JobRight(Job(A.M, q, A.full), S)
       /\ JobRight(Job(M3, A.targets, TRUE), S)
  BY <1>1, <1>2, <1>5, JobMade
<1> QED BY <1>6, <1>7, <1>9, <1>10, <1>11

(* All targets of a command are looked at: what is left are some of them,  *)
(* in a sequence (build_target_list).                                      *)
LEMMA ListKeeps ==
    ASSUME NEW M, PaidFor(M), NEW src, NEW list, Len(list) \in Nat, NEW notice
    PROVE  LET B == build_target_list(M, src, list, notice)
           IN PaidFor(B.M) /\ Len(B.targets) \in Nat
<1> DEFINE n == Len(list)
           S == {list[i] : i \in 1 .. n}
           Start == [M |-> M, targets |-> <<>>, full |-> FALSE]
           Run(m, k) == k = [i \in 0 .. m |-> IF i = 0 THEN Start ELSE AddTarget(k[i - 1], src, list[i], notice)]
           A == {m \in 0 .. n : \E k : Run(m, k)}
           made == CHOOSE k : Run(n, k)
<1>0. n \in Nat
  OBVIOUS
<1>1. build_target_list(M, src, list, notice) = made[n]
  BY DEF build_target_list
<1> HIDE DEF n, Start
<1>2. 0 \in A
  <2>1. Run(0, [i \in 0 .. 0 |-> Start])
    OBVIOUS
  <2> HIDE DEF Run
  <2> QED BY <2>1, <1>0
<1>3. ASSUME NEW m \in 1 .. n, m - 1 \in A
      PROVE  m \in A
  <2>1. PICK k : Run(m - 1, k)
    BY <1>3
  <2> DEFINE k2 == [i \in 0 .. m |-> IF i = m THEN AddTarget(k[m - 1], src, list[m], notice) ELSE k[i]]
  <2>2. ASSUME NEW i \in 0 .. m
        PROVE  k2[i] = IF i = 0 THEN Start ELSE AddTarget(k2[i - 1], src, list[i], notice)
    <3>1. CASE i = m
      <4>1. k2[i - 1] = k[m - 1] /\ i # 0
        BY <3>1, <1>0
      <4> QED BY <4>1, <3>1
    <3>2. CASE i # m
      <4>1. i \in 0 .. m - 1 /\ k2[i] = k[i] /\ (i # 0 => k2[i - 1] = k[i - 1])
        BY <3>2, <1>0
      <4> HIDE DEF k2
      <4> QED BY <4>1, <2>1
    <3> QED BY <3>1, <3>2
  <2>3. k2 = [i \in 0 .. m |-> k2[i]]
    OBVIOUS
  <2> HIDE DEF k2
  <2>4. Run(m, k2)
    BY <2>2, <2>3
  <2> HIDE DEF Run
  <2> QED BY <2>4, <1>0
<1> HIDE DEF A
<1>4. 0 .. n \subseteq A
  BY <1>0, <1>2, <1>3, UpTo
<1>5. Run(n, made)
  <2>1. n \in A
    BY <1>0, <1>4
  <2> HIDE DEF Run
  <2> QED BY <2>1 DEF A
<1> HIDE DEF made
<1>6. \A i \in 0 .. n : made[i] = IF i = 0 THEN Start ELSE AddTarget(made[i - 1], src, list[i], notice)
  BY ONLY <1>5
<1> HIDE DEF Run
<1> DEFINE B == {i \in 0 .. n : JobRight(made[i], S)}
<1>7. 0 \in B
  <2>1. Start = Job(M, <<>>, FALSE)
    BY DEF Start, Job
  <2> HIDE DEF S
  <2>2. <<>> \in Seq(S)
    OBVIOUS
  <2>3. JobRight(Start, S)
    BY <2>1, <2>2, JobMade
  <2> QED BY <1>0, <1>6, <2>3
<1>8. ASSUME NEW i \in 1 .. n, i - 1 \in B
      PROVE  i \in B
  <2>1. i \in 0 .. n /\ i # 0 /\ made[i] = AddTarget(made[i - 1], src, list[i], notice)
    BY <1>0, <1>6
  <2>2. JobRight(made[i - 1], S)
    BY <1>8
  <2>3. list[i] \in S
    BY <1>8
  <2> HIDE DEF S
  <2>4. JobRight(made[i], S)
    BY <2>1, <2>2, <2>3, AddKeeps
  <2> QED BY <2>1, <2>4
<1> HIDE DEF B
<1>9. 0 .. n \subseteq B
  BY <1>0, <1>7, <1>8, UpTo
<1>10. n \in B
  BY <1>0, <1>9
<1>11. JobRight(made[n], S)
  BY <1>10 DEF B
<1> HIDE DEF S
<1> QED BY <1>1, <1>11 DEF JobRight

(* One target is sent to, client or channel.                               *)
LEMMA DeliverKeeps ==
    ASSUME clock \in Nat, FloodCount \in Nat, NEW M, PaidFor(M), NEW src, NEW t, NEW notice
    PROVE  PaidFor(DeliverTo(M, src, t, notice))
<1>1. PaidFor(msg_client(M, src, t.name, notice)) /\ PaidFor(msg_channel(M, src, t.name, t.type, notice))
  BY ClientKeeps, ChannelKeeps
<1> QED BY <1>1 DEF DeliverTo

(* All targets of a command are sent to, in their order.                   *)
LEMMA DeliveringKeeps ==
    ASSUME clock \in Nat, FloodCount \in Nat, NEW M, PaidFor(M), NEW src, NEW targets, Len(targets) \in Nat, NEW notice
    PROVE  PaidFor(Delivering(M, src, targets, notice))
<1> DEFINE n == Len(targets)
           Run(m, k) == k = [i \in 0 .. m |-> IF i = 0 THEN M ELSE DeliverTo(k[i - 1], src, targets[i], notice)]
           A == {m \in 0 .. n : \E k : Run(m, k)}
           made == CHOOSE k : Run(n, k)
<1>0. n \in Nat
  OBVIOUS
<1>1. Delivering(M, src, targets, notice) = made[n]
  BY DEF Delivering
<1> HIDE DEF n
<1>2. 0 \in A
  <2>1. Run(0, [i \in 0 .. 0 |-> M])
    OBVIOUS
  <2> HIDE DEF Run
  <2> QED BY <2>1, <1>0
<1>3. ASSUME NEW m \in 1 .. n, m - 1 \in A
      PROVE  m \in A
  <2>1. PICK k : Run(m - 1, k)
    BY <1>3
  <2> DEFINE k2 == [i \in 0 .. m |-> IF i = m THEN DeliverTo(k[m - 1], src, targets[m], notice) ELSE k[i]]
  <2>2. ASSUME NEW i \in 0 .. m
        PROVE  k2[i] = IF i = 0 THEN M ELSE DeliverTo(k2[i - 1], src, targets[i], notice)
    <3>1. CASE i = m
      <4>1. k2[i - 1] = k[m - 1] /\ i # 0
        BY <3>1, <1>0
      <4> QED BY <4>1, <3>1
    <3>2. CASE i # m
      <4>1. i \in 0 .. m - 1 /\ k2[i] = k[i] /\ (i # 0 => k2[i - 1] = k[i - 1])
        BY <3>2, <1>0
      <4> HIDE DEF k2
      <4> QED BY <4>1, <2>1
    <3> QED BY <3>1, <3>2
  <2>3. k2 = [i \in 0 .. m |-> k2[i]]
    OBVIOUS
  <2> HIDE DEF k2
  <2>4. Run(m, k2)
    BY <2>2, <2>3
  <2> HIDE DEF Run
  <2> QED BY <2>4, <1>0
<1> HIDE DEF A
<1>4. 0 .. n \subseteq A
  BY <1>0, <1>2, <1>3, UpTo
<1>5. Run(n, made)
  <2>1. n \in A
    BY <1>0, <1>4
  <2> HIDE DEF Run
  <2> QED BY <2>1 DEF A
<1> HIDE DEF made
<1>6. \A i \in 0 .. n : made[i] = IF i = 0 THEN M ELSE DeliverTo(made[i - 1], src, targets[i], notice)
  BY ONLY <1>5
<1> HIDE DEF Run
<1> DEFINE B == {i \in 0 .. n : PaidFor(made[i])}
<1>7. 0 \in B
  BY <1>0, <1>6
<1>8. ASSUME NEW i \in 1 .. n, i - 1 \in B
      PROVE  i \in B
  <2>1. i \in 0 .. n /\ i # 0 /\ made[i] = DeliverTo(made[i - 1], src, targets[i], notice)
    BY <1>0, <1>6
  <2>2. PaidFor(made[i - 1])
    BY <1>8
  <2>3. PaidFor(made[i])
    BY <2>1, <2>2, DeliverKeeps
  <2> QED BY <2>1, <2>3
<1> HIDE DEF B
<1>9. 0 .. n \subseteq B
  BY <1>0, <1>7, <1>8, UpTo
<1>10. n \in B
  BY <1>0, <1>9
<1> QED BY <1>1, <1>10 DEF B

(* A command as a whole leaves every target within its bound (m_message).  *)
LEMMA MessageKeeps ==
    ASSUME clock \in Nat, FloodCount \in Nat, NEW M, PaidFor(M), NEW src, NEW list, Len(list) \in Nat, NEW notice
    PROVE  PaidFor(m_message(M, src, list, notice))
<1>1. PICK B : B = build_target_list(M, src, list, notice)
  OBVIOUS
<1>2. PaidFor(B.M) /\ Len(B.targets) \in Nat
  BY <1>1, ListKeeps
<1>3. PaidFor(Delivering(B.M, src, B.targets, notice))
  BY <1>2, DeliveringKeeps
<1> QED BY <1>1, <1>3 DEF m_message

-----------------------------------------------------------------------------
(* The receive queue of a client and what it may still send, and the count *)
(* of the lines it has sent.                                               *)
Reading(q, s, a, d, f) == [recvq |-> q, sent_parsed |-> s, allow_read |-> a, done |-> d, flush |-> f]
ReaderRight(R) ==
    /\ R = Reading(R.recvq, R.sent_parsed, R.allow_read, R.done, R.flush)
    /\ R.recvq \in Seq(Tokens) /\ R.sent_parsed \in Nat /\ R.done \in BOOLEAN
Tally(n, s) == [n |-> n, since |-> s]
TallyRight(P) == P = Tally(P.n, P.since) /\ P.n \in Nat

(* A client reads on as long as it has parsed no more than it may, or no   *)
(* more than one line a second since; what is waiting for flood_recalc()   *)
(* counts for the second that passes until then.                           *)
Quota(R, P) ==
    \/ P.since = None
    \/ /\ P.since \in Nat /\ P.since <= clock
       /\ R.done /\ R.allow_read = MAX_FLOOD /\ R.sent_parsed <= MAX_FLOOD
       /\ \/ R.flush = None /\ P.n - R.sent_parsed <= clock - P.since + 2
          \/ /\ R.flush \in Nat /\ R.flush <= clock + 1
             /\ P.n <= R.sent_parsed \/ P.n - R.sent_parsed <= R.flush - P.since + 1
Readers ==
    /\ recv = [c \in Conns |-> recv[c]]
    /\ \A c \in Conns : ReaderRight(recv[c])
Tallies ==
    /\ parsed = [c \in Locals |-> parsed[c]]
    /\ \A c \in Locals : TallyRight(parsed[c])
Alarms == \A c \in Locals : recv[c].flush = None \/ (recv[c].flush \in Nat /\ recv[c].flush <= clock + 1)
Quotas == \A c \in Locals \ Operators : Quota(recv[c], parsed[c])
FloodInv ==
    /\ clock \in Nat
    /\ wire \in [Conns -> Seq(Tokens)]
    /\ Readers /\ Tallies /\ Alarms /\ Quotas
    /\ Paid(flood, passed)

(* A receive queue, field by field.                                        *)
LEMMA ReadingFields ==
    ASSUME NEW q, NEW s, NEW a, NEW d, NEW f, NEW z
    PROVE  /\ Reading(q, s, a, d, f).recvq = q /\ Reading(q, s, a, d, f).sent_parsed = s
           /\ Reading(q, s, a, d, f).allow_read = a /\ Reading(q, s, a, d, f).done = d
           /\ Reading(q, s, a, d, f).flush = f
           /\ [Reading(q, s, a, d, f) EXCEPT !.recvq = z] = Reading(z, s, a, d, f)
           /\ [Reading(q, s, a, d, f) EXCEPT !.sent_parsed = z] = Reading(q, z, a, d, f)
           /\ [Reading(q, s, a, d, f) EXCEPT !.allow_read = z] = Reading(q, s, z, d, f)
           /\ [Reading(q, s, a, d, f) EXCEPT !.done = z] = Reading(q, s, a, z, f)
           /\ [Reading(q, s, a, d, f) EXCEPT !.flush = z] = Reading(q, s, a, d, z)
<1>1. PICK T : T = Reading(q, s, a, d, f)
  OBVIOUS
<1>2. T = [recvq |-> q, sent_parsed |-> s, allow_read |-> a, done |-> d, flush |-> f]
  BY <1>1 DEF Reading
<1>3. T.recvq = q /\ T.sent_parsed = s /\ T.allow_read = a /\ T.done = d /\ T.flush = f
  BY <1>2
<1>4. [T EXCEPT !.recvq = z] = Reading(z, s, a, d, f)
  BY <1>2 DEF Reading
<1>5. [T EXCEPT !.sent_parsed = z] = Reading(q, z, a, d, f)
  BY <1>2 DEF Reading
<1>6. [T EXCEPT !.allow_read = z] = Reading(q, s, z, d, f)
  BY <1>2 DEF Reading
<1>7. [T EXCEPT !.done = z] = Reading(q, s, a, z, f)
  BY <1>2 DEF Reading
<1>8. [T EXCEPT !.flush = z] = Reading(q, s, a, d, z)
  BY <1>2 DEF Reading
<1> QED BY <1>1, <1>3, <1>4, <1>5, <1>6, <1>7, <1>8

(* A receive queue is in order if its fields are.                          *)
LEMMA ReadingMade ==
    ASSUME NEW q \in Seq(Tokens), NEW s \in Nat, NEW a, NEW d \in BOOLEAN, NEW f
    PROVE  ReaderRight(Reading(q, s, a, d, f))
<1>1. PICK T : T = Reading(q, s, a, d, f)
  OBVIOUS
<1>2. T.recvq = q /\ T.sent_parsed = s /\ T.allow_read = a /\ T.done = d /\ T.flush = f
  BY <1>1, ReadingFields
<1>3. T = Reading(T.recvq, T.sent_parsed, T.allow_read, T.done, T.flush)
  BY <1>1, <1>2
<1>4. T.recvq \in Seq(Tokens) /\ T.sent_parsed \in Nat /\ T.done \in BOOLEAN
  BY <1>2
<1> QED BY <1>1, <1>3, <1>4 DEF ReaderRight

(* A line that is taken off a queue is one that was in it.                 *)
LEMMA ExtractKeeps ==
    ASSUME NEW q \in Seq(Tokens)
    PROVE  /\ extract_one_line(q).rest \in Seq(Tokens)
           /\ extract_one_line(q).line = [text |-> None] \/ extract_one_line(q).line \in Tokens
<1> DEFINE I == {i \in 1 .. Len(q) : q[i] = [text |-> EOL]}
           e == IF I # {} THEN Min(I) ELSE 0
           more == e # 0 /\ e < Len(q) /\ q[e + 1] = [text |-> EOL]
<1>1. Len(q) \in Nat
  OBVIOUS
<1>2. e \in 0 .. Len(q)
  <2>1. CASE I = {}
    BY <1>1, <2>1
  <2>2. CASE I # {}
    <3>1. I \in SUBSET Nat
      BY <1>1
    <3>2. PICK i \in I : \A j \in I : i <= j
      BY <2>2, <3>1, LeastNumber
    <3>3. Min(I) \in I
      BY <3>2 DEF Min
    <3> QED BY <1>1, <2>2, <3>3
  <2> QED BY <2>1, <2>2
<1>3. extract_one_line(q) = [line |-> IF e > 1 THEN q[1] ELSE [text |-> None],
                             rest |-> IF e = 0 THEN q ELSE SubSeq(q, e + (IF more THEN 2 ELSE 1), Len(q))]
  BY DEF extract_one_line, SelectInSeq
<1>4. PICK r : r = (IF e = 0 THEN q ELSE SubSeq(q, e + (IF more THEN 2 ELSE 1), Len(q)))
  OBVIOUS
<1>5. PICK l : l = (IF e > 1 THEN q[1] ELSE [text |-> None])
  OBVIOUS
<1> HIDE DEF e
<1>6. l = [text |-> None] \/ l \in Tokens
  BY <1>1, <1>2, <1>5
<1>7. PICK a \in Nat \ {0} : a = e + (IF more THEN 2 ELSE 1)
  BY <1>1, <1>2
<1> HIDE DEF more
<1>8. SubSeq(q, a, Len(q)) \in Seq(Tokens)
  <2>1. \A i \in a .. Len(q) : q[i] \in Tokens
    BY <1>1, <1>7
  <2> QED BY <1>1, <1>7, <2>1
<1>9. r \in Seq(Tokens)
  BY <1>4, <1>7, <1>8
<1>10. extract_one_line(q) = [line |-> l, rest |-> r]
  BY <1>3, <1>4, <1>5
<1> QED BY <1>6, <1>9, <1>10

(* A line that is parsed costs one of the allowance.                       *)
LEMMA ConsumedIs ==
    ASSUME NEW R, ReaderRight(R), NEW rest \in Seq(Tokens)
    PROVE  /\ Consumed(R, rest) = Reading(rest, R.sent_parsed + 1, R.allow_read, R.done, R.flush)
           /\ ReaderRight(Consumed(R, rest))
<1>1. PICK z : z = R.sent_parsed + 1
  OBVIOUS
<1>2. PICK N : N = [R EXCEPT !.recvq = rest]
  OBVIOUS
<1>3. N = Reading(rest, R.sent_parsed, R.allow_read, R.done, R.flush)
  BY <1>2, ReadingFields DEF ReaderRight
<1>4. [R EXCEPT !.recvq = rest, !.sent_parsed = @ + 1] = [N EXCEPT !.sent_parsed = z]
  BY <1>1, <1>2
<1>5. [N EXCEPT !.sent_parsed = z] = Reading(rest, z, R.allow_read, R.done, R.flush)
  BY <1>3, ReadingFields
<1>6. z \in Nat /\ R.done \in BOOLEAN
  BY <1>1 DEF ReaderRight
<1>7. ReaderRight(Reading(rest, z, R.allow_read, R.done, R.flush))
  BY <1>6, ReadingMade
<1> QED BY <1>1, <1>4, <1>5, <1>7 DEF Consumed

(* flood_endgrace() starts the allowance anew and leaves the queue.        *)
LEMMA EndgraceIs ==
    ASSUME MAX_FLOOD \in Nat, NEW R, ReaderRight(R)
    PROVE  /\ flood_endgrace(R) = Reading(R.recvq, 0, MAX_FLOOD, TRUE, R.flush)
           /\ ReaderRight(flood_endgrace(R))
<1>1. PICK yes : yes = TRUE
  OBVIOUS
<1>2. PICK N : N = [R EXCEPT !.done = yes]
  OBVIOUS
<1>3. N = Reading(R.recvq, R.sent_parsed, R.allow_read, yes, R.flush)
  BY <1>2, ReadingFields DEF ReaderRight
<1>4. PICK K : K = [N EXCEPT !.allow_read = MAX_FLOOD]
  OBVIOUS
<1>5. K = Reading(R.recvq, R.sent_parsed, MAX_FLOOD, yes, R.flush)
  BY <1>3, <1>4, ReadingFields
<1>6. [R EXCEPT !.done = yes, !.allow_read = MAX_FLOOD, !.sent_parsed = 0] = [K EXCEPT !.sent_parsed = 0]
  BY <1>2, <1>4
<1>7. [K EXCEPT !.sent_parsed = 0] = Reading(R.recvq, 0, MAX_FLOOD, yes, R.flush)
  BY <1>5, ReadingFields
<1>8. flood_endgrace(R) = Reading(R.recvq, 0, MAX_FLOOD, TRUE, R.flush)
  BY <1>1, <1>6, <1>7 DEF flood_endgrace
<1>9. R.recvq \in Seq(Tokens) /\ 0 \in Nat /\ TRUE \in BOOLEAN
  BY DEF ReaderRight
<1>10. ReaderRight(Reading(R.recvq, 0, MAX_FLOOD, TRUE, R.flush))
  BY <1>9, ReadingMade
<1> QED BY <1>8, <1>10

(* What flood_recalc() changes.                                            *)
LEMMA RecalcIs ==
    ASSUME NEW R, ReaderRight(R), NEW s \in Nat, NEW f
    PROVE  /\ [R EXCEPT !.sent_parsed = s, !.flush = f] = Reading(R.recvq, s, R.allow_read, R.done, f)
           /\ ReaderRight([R EXCEPT !.sent_parsed = s, !.flush = f])
<1>1. PICK N : N = [R EXCEPT !.sent_parsed = s]
  OBVIOUS
<1>2. N = Reading(R.recvq, s, R.allow_read, R.done, R.flush)
  BY <1>1, ReadingFields DEF ReaderRight
<1>3. [R EXCEPT !.sent_parsed = s, !.flush = f] = [N EXCEPT !.flush = f]
  BY <1>1
<1>4. [N EXCEPT !.flush = f] = Reading(R.recvq, s, R.allow_read, R.done, f)
  BY <1>2, ReadingFields
<1>5. R.recvq \in Seq(Tokens) /\ R.done \in BOOLEAN
  BY DEF ReaderRight
<1>6. ReaderRight(Reading(R.recvq, s, R.allow_read, R.done, f))
  BY <1>5, ReadingMade
<1> QED BY <1>3, <1>4, <1>6

(* What the end of the loop changes.                                       *)
LEMMA RestIs ==
    ASSUME NEW R, ReaderRight(R), NEW q \in Seq(Tokens), NEW f
    PROVE  /\ [R EXCEPT !.recvq = q, !.flush = f] = Reading(q, R.sent_parsed, R.allow_read, R.done, f)
           /\ ReaderRight([R EXCEPT !.recvq = q, !.flush = f])
<1>1. PICK N : N = [R EXCEPT !.recvq = q]
  OBVIOUS
<1>2. N = Reading(q, R.sent_parsed, R.allow_read, R.done, R.flush)
  BY <1>1, ReadingFields DEF ReaderRight
<1>3. [R EXCEPT !.recvq = q, !.flush = f] = [N EXCEPT !.flush = f]
  BY <1>1
<1>4. [N EXCEPT !.flush = f] = Reading(q, R.sent_parsed, R.allow_read, R.done, f)
  BY <1>2, ReadingFields
<1>5. R.sent_parsed \in Nat /\ R.done \in BOOLEAN
  BY DEF ReaderRight
<1>6. ReaderRight(Reading(q, R.sent_parsed, R.allow_read, R.done, f))
  BY <1>5, ReadingMade
<1> QED BY <1>3, <1>4, <1>6

-----------------------------------------------------------------------------
(* What a client has sent stays within its quota when a line is parsed,    *)
LEMMA QuotaOfLine ==
    ASSUME clock \in Nat, MAX_FLOOD \in Nat,
           NEW R, ReaderRight(R), NEW P, TallyRight(P), Quota(R, P), ~(R.sent_parsed >= R.allow_read),
           NEW Q, Q.sent_parsed = R.sent_parsed + 1, Q.allow_read = R.allow_read, Q.done = R.done, Q.flush = R.flush,
           NEW T, T.since = P.since, R.done => T.n = P.n + 1
    PROVE  Quota(Q, T)
<1>1. CASE P.since = None
  BY <1>1 DEF Quota
<1>2. CASE P.since # None
  <2>1. /\ P.since \in Nat /\ P.since <= clock
        /\ R.done /\ R.allow_read = MAX_FLOOD /\ R.sent_parsed <= MAX_FLOOD
        /\ \/ R.flush = None /\ P.n - R.sent_parsed <= clock - P.since + 2
           \/ /\ R.flush \in Nat /\ R.flush <= clock + 1
              /\ P.n <= R.sent_parsed \/ P.n - R.sent_parsed <= R.flush - P.since + 1
    BY <1>2 DEF Quota
  <2>2. R.sent_parsed \in Nat /\ P.n \in Nat
    BY DEF ReaderRight, TallyRight
  <2>3. Q.sent_parsed <= MAX_FLOOD
    BY <2>1, <2>2
  <2>4. T.n = P.n + 1
    BY <2>1
  <2>5. T.n - Q.sent_parsed = P.n - R.sent_parsed /\ (P.n <= R.sent_parsed => T.n <= Q.sent_parsed)
    BY <2>2, <2>4
  <2> QED BY <2>1, <2>3, <2>5 DEF Quota
<1> QED BY <1>1, <1>2

(* when the grace period ends,                                             *)
LEMMA QuotaOfGrace ==
    ASSUME clock \in Nat, MAX_FLOOD \in Nat \ {0},
           NEW R, R.sent_parsed = 1, R.allow_read = MAX_FLOOD, R.done,
           R.flush = None \/ (R.flush \in Nat /\ R.flush <= clock + 1)
    PROVE  Quota(R, Tally(1, clock))
<1>1. PICK P : P = Tally(1, clock)
  OBVIOUS
<1>2. P.n = 1 /\ P.since = clock
  BY <1>1 DEF Tally
<1>3. P.n - R.sent_parsed <= clock - P.since + 2 /\ P.n <= R.sent_parsed /\ R.sent_parsed <= MAX_FLOOD
  BY <1>2
<1>4. Quota(R, P)
  BY <1>2, <1>3 DEF Quota
<1> QED BY <1>1, <1>4

(* when time has passed and two more lines are allowed,                    *)
LEMMA QuotaOfRecalc ==
    ASSUME clock \in Nat, MAX_FLOOD \in Nat,
           NEW R, ReaderRight(R), NEW P, TallyRight(P), Quota(R, P), R.flush # None, R.flush < clock,
           NEW Q, Q.sent_parsed = (IF R.done /\ R.sent_parsed > 2 THEN R.sent_parsed - 2 ELSE 0),
           Q.allow_read = R.allow_read, Q.done = R.done, Q.flush = None
    PROVE  Quota(Q, P)
<1>1. CASE P.since = None
  BY <1>1 DEF Quota
<1>2. CASE P.since # None
  <2>1. /\ P.since \in Nat /\ P.since <= clock
        /\ R.done /\ R.allow_read = MAX_FLOOD /\ R.sent_parsed <= MAX_FLOOD
        /\ R.flush \in Nat
        /\ P.n <= R.sent_parsed \/ P.n - R.sent_parsed <= R.flush - P.since + 1
    BY <1>2 DEF Quota
  <2>2. R.sent_parsed \in Nat /\ P.n \in Nat
    BY DEF ReaderRight, TallyRight
  <2>3. Q.sent_parsed = IF R.sent_parsed > 2 THEN R.sent_parsed - 2 ELSE 0
    BY <2>1
  <2>4. Q.sent_parsed <= MAX_FLOOD /\ R.sent_parsed - Q.sent_parsed <= 2 /\ Q.sent_parsed \in Nat
    BY <2>1, <2>2, <2>3
  <2>5. P.n - R.sent_parsed <= clock - P.since
    BY <2>1, <2>2
  <2>6. P.n - Q.sent_parsed <= clock - P.since + 2
    BY <2>1, <2>2, <2>4, <2>5
  <2> QED BY <2>1, <2>4, <2>6 DEF Quota
<1> QED BY <1>1, <1>2

(* and when that has been done and it is to be done again.                 *)
LEMMA QuotaOfRest ==
    ASSUME clock \in Nat, MAX_FLOOD \in Nat,
           NEW R, ReaderRight(R), NEW P, TallyRight(P), Quota(R, P),
           NEW Q, Q.sent_parsed = R.sent_parsed, Q.allow_read = R.allow_read, Q.done = R.done,
           Q.flush \in {R.flush, None, clock + 1}
    PROVE  Quota(Q, P)
<1>1. CASE P.since = None
  BY <1>1 DEF Quota
<1>2. CASE P.since # None
  <2>1. /\ P.since \in Nat /\ P.since <= clock
        /\ R.done /\ R.allow_read = MAX_FLOOD /\ R.sent_parsed <= MAX_FLOOD
        /\ \/ R.flush = None /\ P.n - R.sent_parsed <= clock - P.since + 2
           \/ /\ R.flush \in Nat /\ R.flush <= clock + 1
              /\ P.n <= R.sent_parsed \/ P.n - R.sent_parsed <= R.flush - P.since + 1
    BY <1>2 DEF Quota
  <2>2. R.sent_parsed \in Nat /\ P.n \in Nat
    BY DEF ReaderRight, TallyRight
  <2>3. P.n - R.sent_parsed <= clock - P.since + 2
    BY <2>1, <2>2
  <2>4. CASE Q.flush = R.flush
    BY <2>1, <2>4 DEF Quota
  <2>5. CASE Q.flush = None
    BY <2>1, <2>3, <2>5 DEF Quota
  <2>6. CASE Q.flush = clock + 1
    <3>1. Q.flush \in Nat /\ Q.flush <= clock + 1 /\ P.n - R.sent_parsed <= Q.flush - P.since + 1
      BY <2>1, <2>2, <2>3, <2>6
    <3> QED BY <2>1, <3>1 DEF Quota
  <2> QED BY <2>4, <2>5, <2>6
<1> QED BY <1>1, <1>2

(* What is within the quota is within the bound.                           *)
LEMMA QuotaBounds ==
    ASSUME clock \in Nat, MAX_FLOOD \in Nat,
           NEW R, ReaderRight(R), NEW P, TallyRight(P), Quota(R, P), P.since # None
    PROVE  P.n <= MAX_FLOOD + 2 + (clock - P.since)
<1>1. /\ P.since \in Nat /\ P.since <= clock /\ R.sent_parsed <= MAX_FLOOD
      /\ \/ P.n - R.sent_parsed <= clock - P.since + 2
         \/ /\ R.flush \in Nat /\ R.flush <= clock + 1
            /\ P.n <= R.sent_parsed \/ P.n - R.sent_parsed <= R.flush - P.since + 1
  BY DEF Quota
<1>2. R.sent_parsed \in Nat /\ P.n \in Nat
  BY DEF ReaderRight, TallyRight
<1>3. P.n - R.sent_parsed <= clock - P.since + 2
  BY <1>1, <1>2
<1> QED BY <1>1, <1>2, <1>3

-----------------------------------------------------------------------------
(* A step that concerns one connection.                                    *)
LEMMA ReaderStep ==
    ASSUME FloodInv, NEW c \in Conns, NEW Q, ReaderRight(Q), recv' = [recv EXCEPT ![c] = Q],
           Q.flush \in {recv[c].flush, None, clock + 1},
           NEW P, parsed' = [parsed EXCEPT ![c] = P], c \in Locals => TallyRight(P),
           c \in Locals \ Operators => Quota(Q, P),
           clock' = clock, wire' \in [Conns -> Seq(Tokens)], Paid(flood', passed')
    PROVE  FloodInv'
<1>1. clock \in Nat /\ Readers /\ Tallies /\ Alarms /\ Quotas
  BY DEF FloodInv
<1>2. recv = [x \in Conns |-> recv[x]] /\ parsed = [x \in Locals |-> parsed[x]]
  BY <1>1 DEF Readers, Tallies
<1>3. recv' = [x \in Conns |-> recv'[x]] /\ recv'[c] = Q /\ \A x \in Conns : x # c => recv'[x] = recv[x]
  BY <1>2
<1>4. parsed' = [x \in Locals |-> parsed'[x]] /\ (c \in Locals => parsed'[c] = P)
      /\ \A x \in Locals : x # c => parsed'[x] = parsed[x]
  BY <1>2
<1>5. Readers'
  <2>1. \A x \in Conns : ReaderRight(recv'[x])
    BY <1>1, <1>3 DEF Readers
  <2> QED BY <1>3, <2>1 DEF Readers, ReaderRight, Reading
<1>6. Tallies'
  <2>1. \A x \in Locals : TallyRight(parsed'[x])
    BY <1>1, <1>4 DEF Tallies
  <2> QED BY <1>4, <2>1 DEF Tallies, TallyRight, Tally
<1>7. Alarms'
  <2>1. ASSUME NEW x \in Locals
        PROVE  recv'[x].flush = None \/ (recv'[x].flush \in Nat /\ recv'[x].flush <= clock + 1)
    <3>1. x \in Conns
      BY DEF Conns
    <3>2. recv[x].flush = None \/ (recv[x].flush \in Nat /\ recv[x].flush <= clock + 1)
      BY <1>1 DEF Alarms
    <3>3. CASE x = c
      <4>1. clock + 1 \in Nat /\ clock + 1 <= clock + 1
        BY <1>1
      <4> QED BY <1>3, <3>2, <3>3, <4>1
    <3>4. CASE x # c
      BY <1>3, <3>1, <3>2, <3>4
    <3> QED BY <3>3, <3>4
  <2> QED BY <2>1 DEF Alarms
<1>8. Quotas'
  <2>1. ASSUME NEW x \in Locals \ Operators
        PROVE  Quota(recv'[x], parsed'[x])
    <3>1. x \in Conns /\ x \in Locals
      BY DEF Conns
    <3>2. CASE x = c
      BY <1>3, <1>4, <3>1, <3>2
    <3>3. CASE x # c
      BY <1>1, <1>3, <1>4, <3>1, <3>3 DEF Quotas
    <3> QED BY <3>2, <3>3
  <2> QED BY <2>1 DEF Quotas, Quota
<1>9. Paid(flood, passed)'
  BY DEF Paid
<1> QED BY <1>1, <1>5, <1>6, <1>7, <1>8, <1>9 DEF FloodInv

(* A step that leaves the queues to read, the counters and the clock       *)
(* alone keeps every bound.                                                *)
LEMMA SameStep ==
    ASSUME FloodInv, UNCHANGED <<recv, flood, clock, wire, parsed, passed>>
    PROVE  FloodInv'
<1>1. Readers' /\ Tallies'
  BY DEF FloodInv, Readers, Tallies, ReaderRight, Reading, TallyRight, Tally
<1>2. Alarms' /\ Quotas'
  BY DEF FloodInv, Alarms, Quotas, Quota
<1>3. Paid(flood, passed)'
  BY DEF FloodInv, Paid
<1> QED BY <1>1, <1>2, <1>3 DEF FloodInv

(* A second passes: every bound grows by one and no counter does.          *)
LEMMA TickStep ==
    ASSUME FloodInv, MessageTick, FloodCount \in Nat
    PROVE  FloodInv'
<1>1. clock \in Nat /\ clock' = clock + 1 /\ UNCHANGED <<recv, flood, wire, parsed, passed>>
  BY DEF FloodInv, MessageTick
<1>2. Readers' /\ Tallies'
  BY <1>1 DEF FloodInv, Readers, Tallies, ReaderRight, Reading, TallyRight, Tally
<1>3. Alarms'
  <2>1. ASSUME NEW c \in Locals
        PROVE  recv[c].flush = None \/ (recv[c].flush \in Nat /\ recv[c].flush <= clock + 1 + 1)
    <3>1. recv[c].flush = None \/ (recv[c].flush \in Nat /\ recv[c].flush <= clock + 1)
      BY DEF FloodInv, Alarms
    <3> QED BY <1>1, <3>1
  <2> QED BY <1>1, <2>1 DEF Alarms
<1>4. Quotas'
  <2>1. ASSUME NEW c \in Locals \ Operators
        PROVE  Quota(recv[c], parsed[c])'
    <3>1. Quota(recv[c], parsed[c])
      BY DEF FloodInv, Quotas
    <3>2. recv[c].sent_parsed \in Nat /\ parsed[c].n \in Nat
      BY DEF FloodInv, Readers, ReaderRight, Tallies, TallyRight, Conns
    <3>3. CASE parsed[c].since = None
      BY <1>1, <3>3 DEF Quota
    <3>4. CASE parsed[c].since # None
      <4> DEFINE R == recv[c]
                 P == parsed[c]
      <4>1. /\ P.since \in Nat /\ P.since <= clock
            /\ R.done /\ R.allow_read = MAX_FLOOD /\ R.sent_parsed <= MAX_FLOOD
            /\ \/ R.flush = None /\ P.n - R.sent_parsed <= clock - P.since + 2
               \/ /\ R.flush \in Nat /\ R.flush <= clock + 1
                  /\ P.n <= R.sent_parsed \/ P.n - R.sent_parsed <= R.flush - P.since + 1
        BY <3>1, <3>4 DEF Quota
      <4>2. R' = R /\ P' = P
        BY <1>1
      <4>3. P.since <= clock'
        BY <1>1, <4>1
      <4>4. P.n - R.sent_parsed <= clock - P.since + 2 => P.n - R.sent_parsed <= clock' - P.since + 2
        BY <1>1, <3>2, <4>1
      <4>5. R.flush \in Nat /\ R.flush <= clock + 1 => R.flush <= clock' + 1
        BY <1>1
      <4> HIDE DEF R, P
      <4> QED BY <4>1, <4>2, <4>3, <4>4, <4>5 DEF Quota, R, P
    <3> QED BY <3>3, <3>4
  <2> QED BY <2>1 DEF Quotas
<1>5. Paid(flood, passed)'
  <2>1. Paid(flood, passed)
    BY DEF FloodInv
  <2>2. ASSUME NEW t \in Targets
        PROVE  flood[t].first <= clock + 1 /\ passed[t] <= FloodCount + (clock + 1)
    <3>1. flood[t].first \in Nat /\ passed[t] \in Nat
      BY <2>1 DEF Paid, Meter
    <3>2. flood[t].first <= clock /\ passed[t] <= FloodCount + clock
      BY <2>1 DEF Paid
    <3> QED BY <1>1, <3>1, <3>2
  <2> QED BY <1>1, <2>1, <2>2 DEF Paid
<1>6. clock' \in Nat /\ wire' \in [Conns -> Seq(Tokens)]
  BY <1>1 DEF FloodInv
<1> QED BY <1>2, <1>3, <1>4, <1>5, <1>6 DEF FloodInv

(* Data that arrives costs nothing until it is parsed (read_packet).       *)
LEMMA ReadStep ==
    ASSUME LimitsRight, FloodInv, NEW c \in Conns, read_packet(c)
    PROVE  FloodInv'
<1>1. PICK n \in 1 .. Len(wire[c]) :
        /\ recv' = [recv EXCEPT ![c].recvq = @ \o SubSeq(wire[c], 1, n)]
        /\ wire' = [wire EXCEPT ![c] = SubSeq(@, n + 1, Len(@))]
  BY DEF read_packet
<1>2. UNCHANGED <<flood, clock, parsed, passed>>
  BY DEF read_packet
<1>3. wire \in [Conns -> Seq(Tokens)] /\ wire[c] \in Seq(Tokens) /\ ReaderRight(recv[c]) /\ Paid(flood, passed)
  BY DEF FloodInv, Readers
<1>4. SubSeq(wire[c], 1, n) \in Seq(Tokens) /\ SubSeq(wire[c], n + 1, Len(wire[c])) \in Seq(Tokens)
  BY <1>3
<1>5. wire' \in [Conns -> Seq(Tokens)]
  BY <1>1, <1>3, <1>4
<1>6. PICK R : R = recv[c]
  OBVIOUS
<1>7. PICK q : q = R.recvq \o SubSeq(wire[c], 1, n)
  OBVIOUS
<1>8. q \in Seq(Tokens)
  BY <1>3, <1>4, <1>6, <1>7 DEF ReaderRight
<1>9. PICK Q : Q = [R EXCEPT !.recvq = q]
  OBVIOUS
<1>10. Q = Reading(q, R.sent_parsed, R.allow_read, R.done, R.flush)
  <2>1. R = Reading(R.recvq, R.sent_parsed, R.allow_read, R.done, R.flush)
    BY <1>3, <1>6 DEF ReaderRight
  <2>2. PICK T : T = Reading(R.recvq, R.sent_parsed, R.allow_read, R.done, R.flush)
    OBVIOUS
  <2>3. [T EXCEPT !.recvq = q] = Reading(q, R.sent_parsed, R.allow_read, R.done, R.flush)
    BY <2>2, ReadingFields
  <2>4. T = R
    BY <2>1, <2>2
  <2> QED BY <1>9, <2>3, <2>4
<1>11. ReaderRight(Q)
  <2>1. R.sent_parsed \in Nat /\ R.done \in BOOLEAN
    BY <1>3, <1>6 DEF ReaderRight
  <2> QED BY <1>8, <1>10, <2>1, ReadingMade
<1>12. recv' = [recv EXCEPT ![c] = Q]
  BY <1>1, <1>6, <1>7, <1>9
<1>13. Q.sent_parsed = R.sent_parsed /\ Q.allow_read = R.allow_read /\ Q.done = R.done /\ Q.flush = R.flush
  BY <1>10, ReadingFields
<1>14. c \in Locals => TallyRight(parsed[c])
  BY DEF FloodInv, Tallies
<1>15. c \in Locals \ Operators => Quota(Q, parsed[c])
  <2>1. ASSUME c \in Locals \ Operators PROVE Quota(Q, parsed[c])
    <3>1. Quota(R, parsed[c]) /\ TallyRight(parsed[c]) /\ clock \in Nat /\ MAX_FLOOD \in Nat /\ ReaderRight(R)
      BY <1>3, <1>6, <1>14, <2>1 DEF FloodInv, Quotas, LimitsRight
    <3>2. Q.flush \in {R.flush, None, clock + 1}
      BY <1>13
    <3> QED BY <1>13, <3>1, <3>2, QuotaOfRest
  <2> QED BY <2>1
<1>16. parsed' = [parsed EXCEPT ![c] = parsed[c]]
  BY <1>2 DEF FloodInv, Tallies
<1>17. Q.flush \in {recv[c].flush, None, clock + 1}
  BY <1>6, <1>13
<1>18. Paid(flood', passed')
  BY <1>2, <1>3
<1> QED BY <1>2, <1>5, <1>11, <1>12, <1>14, <1>15, <1>16, <1>17, <1>18, ReaderStep

(* A line is parsed (parse_client_queued): it is charged to the client,    *)
(* ends the grace period or starts it anew, and if it is a message it is   *)
(* charged to its targets.                                                 *)
LEMMA LineStep ==
    ASSUME LimitsRight, FloodInv, NEW c \in Conns, parse_client_queued(c)
    PROVE  FloodInv'
<1> DEFINE x == extract_one_line(recv[c].recvq)
           R0 == recv[c]
           ends == EndsGrace(c, x.line)
           R == IF ends THEN flood_endgrace(R0) ELSE R0
           Q == Consumed(R, x.rest)
           P == IF ends THEN [n |-> 1, since |-> clock]
                ELSE IF R.done /\ c \in Locals THEN [parsed[c] EXCEPT !.n = @ + 1] ELSE parsed[c]
<1>1. /\ clock \in Nat /\ MAX_FLOOD \in Nat \ {0} /\ FloodCount \in Nat /\ ReaderRight(R0)
      /\ recv = [y \in Conns |-> recv[y]] /\ parsed = [y \in Locals |-> parsed[y]]
      /\ (c \in Locals => TallyRight(parsed[c])) /\ Paid(flood, passed)
      /\ wire \in [Conns -> Seq(Tokens)]
  BY DEF FloodInv, Readers, Tallies, LimitsRight
<1>2. /\ ~Limited(c) /\ x.line.text # None /\ client_dopacket(c, x.line)
      /\ recv' = [recv EXCEPT ![c] = Q]
      /\ parsed' = IF ends THEN [parsed EXCEPT ![c] = [n |-> 1, since |-> clock]]
                   ELSE IF R.done /\ c \in Locals THEN [parsed EXCEPT ![c].n = @ + 1] ELSE parsed
      /\ clock' = clock /\ wire' = wire
  BY DEF parse_client_queued
<1>3. x.rest \in Seq(Tokens) /\ (x.line = [text |-> None] \/ x.line \in Tokens)
  BY <1>1, ExtractKeeps DEF ReaderRight
<1>4. x.line \in Tokens
  <2> HIDE DEF x
  <2> QED BY <1>2, <1>3
<1>5. Paid(flood', passed')
  <2> DEFINE M == Turn(out, flood, caller, owed, passed)
             text == x.line.text
             N == IF text \in {"PRIVMSG", "NOTICE"}
                  THEN m_message(M, x.line.src, x.line.targets, text = "NOTICE") ELSE M
  <2>1. flood' = N.flood /\ passed' = N.passed
    BY <1>2 DEF client_dopacket, Turn
  <2>2. PaidFor(M)
    BY <1>1, TurnPaid
  <2>3. text \in {"PRIVMSG", "NOTICE"} => Len(x.line.targets) \in Nat
    BY <1>4 DEF LimitsRight
  <2> HIDE DEF M, x
  <2>4. PaidFor(N)
    <3>1. CASE text \in {"PRIVMSG", "NOTICE"}
      <4>1. PICK b : b = (text = "NOTICE")
        OBVIOUS
      <4>2. PaidFor(m_message(M, x.line.src, x.line.targets, b))
        BY <1>1, <2>2, <2>3, <3>1, MessageKeeps
      <4> QED BY <3>1, <4>1, <4>2
    <3>2. CASE text \notin {"PRIVMSG", "NOTICE"}
      BY <2>2, <3>2
    <3> QED BY <3>1, <3>2
  <2> HIDE DEF N
  <2> QED BY <2>1, <2>4 DEF PaidFor
<1> HIDE DEF x, ends
<1>6. ReaderRight(R)
  BY <1>1, EndgraceIs
<1>7. ReaderRight(Q) /\ Q = Reading(x.rest, R.sent_parsed + 1, R.allow_read, R.done, R.flush)
  <2> HIDE DEF R
  <2> QED BY <1>3, <1>6, ConsumedIs
<1>8. Q.sent_parsed = R.sent_parsed + 1 /\ Q.allow_read = R.allow_read /\ Q.done = R.done /\ Q.flush = R.flush
  <2> HIDE DEF R, Q
  <2> QED BY <1>7, ReadingFields
<1>9. ends => R.sent_parsed = 0 /\ R.allow_read = MAX_FLOOD /\ R.done = TRUE /\ R.flush = R0.flush
  <2>1. flood_endgrace(R0) = Reading(R0.recvq, 0, MAX_FLOOD, TRUE, R0.flush)
    BY <1>1, EndgraceIs
  <2>2. PICK yes : yes = TRUE
    OBVIOUS
  <2>3. PICK G : G = Reading(R0.recvq, 0, MAX_FLOOD, yes, R0.flush)
    OBVIOUS
  <2>4. G.sent_parsed = 0 /\ G.allow_read = MAX_FLOOD /\ G.done = yes /\ G.flush = R0.flush
    BY <2>3, ReadingFields
  <2>5. ends => R = G
    BY <2>1, <2>2, <2>3
  <2> HIDE DEF R, R0
  <2> QED BY <2>2, <2>4, <2>5
<1>10. Q.flush \in {recv[c].flush, None, clock + 1}
  <2>1. R.flush = R0.flush
    BY <1>9
  <2> QED BY <1>8, <2>1
<1>11. parsed' = [parsed EXCEPT ![c] = P]
  <2>1. CASE ends
    BY <1>2, <2>1
  <2>2. CASE ~ends /\ R.done /\ c \in Locals
    BY <1>2, <2>2
  <2>3. CASE ~ends /\ ~(R.done /\ c \in Locals)
    <3>1. parsed' = parsed /\ P = parsed[c]
      BY <1>2, <2>3
    <3> HIDE DEF P
    <3> QED BY <1>1, <3>1
  <2> QED BY <2>1, <2>2, <2>3
<1>12. ASSUME c \in Locals
       PROVE  TallyRight(P) /\ (~ends => P.since = parsed[c].since /\ (R.done => P.n = parsed[c].n + 1))
  <2>1. PICK T : T = parsed[c]
    OBVIOUS
  <2>2. T = [n |-> T.n, since |-> T.since] /\ T.n \in Nat
    BY <1>1, <1>12, <2>1 DEF TallyRight, Tally
  <2>3. CASE ends
    <3>1. P = Tally(1, clock)
      BY <2>3 DEF Tally
    <3> HIDE DEF P
    <3>2. P.n = 1 /\ P.since = clock
      BY <3>1 DEF Tally
    <3> QED BY <2>3, <3>1, <3>2 DEF TallyRight
  <2>4. CASE ~ends /\ R.done
    <3>1. P = [T EXCEPT !.n = T.n + 1]
      BY <1>12, <2>1, <2>4
    <3>2. [T EXCEPT !.n = T.n + 1] = [n |-> T.n + 1, since |-> T.since]
      BY <2>2
    <3> HIDE DEF P, R
    <3>3. P = Tally(T.n + 1, T.since)
      BY <3>1, <3>2 DEF Tally
    <3>4. P.n = T.n + 1 /\ P.since = T.since /\ T.n + 1 \in Nat
      BY <2>2, <3>3 DEF Tally
    <3> QED BY <2>1, <2>4, <3>3, <3>4 DEF TallyRight
  <2>5. CASE ~ends /\ ~R.done
    <3>1. P = T
      BY <2>1, <2>5
    <3> HIDE DEF P, R
    <3> QED BY <1>1, <1>12, <2>1, <2>5, <3>1
  <2> QED BY <2>3, <2>4, <2>5
<1>13. ASSUME c \in Locals \ Operators
       PROVE  Quota(Q, P)
  <2>1. CASE ends
    <3>1. P = Tally(1, clock)
      BY <2>1 DEF Tally
    <3>2. R0.flush = None \/ (R0.flush \in Nat /\ R0.flush <= clock + 1)
      BY <1>13 DEF FloodInv, Alarms
    <3> HIDE DEF P, R, R0
    <3>3. Q.sent_parsed = 1 /\ Q.allow_read = MAX_FLOOD /\ Q.done /\ Q.flush = R0.flush
      BY <1>8, <1>9, <2>1
    <3> HIDE DEF Q
    <3>4. Quota(Q, Tally(1, clock))
      BY <1>1, <3>2, <3>3, QuotaOfGrace
    <3> QED BY <3>1, <3>4
  <2>2. CASE ~ends
    <3>1. R = R0
      BY <2>2
    <3>2. Quota(R0, parsed[c]) /\ ~(R0.sent_parsed >= R0.allow_read) /\ c \in Locals
      BY <1>2, <1>13 DEF FloodInv, Quotas, Limited, checkflood
    <3>3. TallyRight(parsed[c]) /\ P.since = parsed[c].since /\ (R.done => P.n = parsed[c].n + 1)
      BY <1>1, <1>12, <2>2, <3>2
    <3> HIDE DEF P, R, R0, Q
    <3>4. Quota(R, parsed[c]) /\ ~(R.sent_parsed >= R.allow_read)
      BY <3>1, <3>2
    <3> QED BY <1>1, <1>6, <1>8, <3>3, <3>4, QuotaOfLine
  <2> QED BY <2>1, <2>2
<1>14. wire' \in [Conns -> Seq(Tokens)] /\ clock' = clock /\ recv' = [recv EXCEPT ![c] = Q]
  BY <1>1, <1>2
<1> HIDE DEF Q, P, R, R0
<1> QED BY <1>5, <1>7, <1>10, <1>11, <1>12, <1>13, <1>14, ReaderStep

(* The loop over the lines ends, and the timer is set again if it was the  *)
(* timer that ran it (read_packet, flood_recalc).                          *)
LEMMA RestStep ==
    ASSUME LimitsRight, FloodInv, NEW c \in Conns, Rest(c)
    PROVE  FloodInv'
<1> DEFINE x == extract_one_line(recv[c].recvq)
           R == recv[c]
           q == IF IsDefunct(out, c) \/ Limited(c) THEN R.recvq ELSE x.rest
           f == IF run.read THEN R.flush ELSE IF IsDead(out, c) THEN None ELSE clock + 1
<1>1. /\ clock \in Nat /\ MAX_FLOOD \in Nat /\ ReaderRight(R)
      /\ parsed = [y \in Locals |-> parsed[y]]
      /\ (c \in Locals => TallyRight(parsed[c])) /\ Paid(flood, passed)
      /\ wire \in [Conns -> Seq(Tokens)]
  BY DEF FloodInv, Readers, Tallies, LimitsRight
<1>2. recv' = [recv EXCEPT ![c] = [R EXCEPT !.recvq = q, !.flush = f]]
      /\ UNCHANGED <<flood, clock, wire, parsed, passed>>
  BY DEF Rest
<1>3. q \in Seq(Tokens)
  <2>1. x.rest \in Seq(Tokens)
    BY <1>1, ExtractKeeps DEF ReaderRight
  <2> HIDE DEF x
  <2> QED BY <1>1, <2>1 DEF ReaderRight
<1>4. f \in {R.flush, None, clock + 1}
  OBVIOUS
<1> HIDE DEF q, f
<1>5. PICK Q : Q = [R EXCEPT !.recvq = q, !.flush = f]
  OBVIOUS
<1>6. ReaderRight(Q) /\ Q = Reading(q, R.sent_parsed, R.allow_read, R.done, f)
  <2> HIDE DEF R
  <2> QED BY <1>1, <1>3, <1>5, RestIs
<1>7. Q.sent_parsed = R.sent_parsed /\ Q.allow_read = R.allow_read /\ Q.done = R.done /\ Q.flush = f
  <2> HIDE DEF R
  <2> QED BY <1>6, ReadingFields
<1>8. ASSUME c \in Locals \ Operators
      PROVE  Quota(Q, parsed[c])
  <2>1. Quota(R, parsed[c]) /\ TallyRight(parsed[c])
    BY <1>1, <1>8 DEF FloodInv, Quotas
  <2>2. Q.flush \in {R.flush, None, clock + 1}
    BY <1>4, <1>7
  <2> HIDE DEF R
  <2> QED BY <1>1, <1>7, <2>1, <2>2, QuotaOfRest
<1>9. parsed' = [parsed EXCEPT ![c] = parsed[c]]
  BY <1>1, <1>2
<1>10. recv' = [recv EXCEPT ![c] = Q] /\ Q.flush \in {recv[c].flush, None, clock + 1}
  BY <1>2, <1>4, <1>5, <1>7
<1>11. Paid(flood', passed') /\ wire' \in [Conns -> Seq(Tokens)] /\ clock' = clock
  BY <1>1, <1>2
<1> QED BY <1>1, <1>6, <1>8, <1>9, <1>10, <1>11, ReaderStep

(* The timer gives back two lines for the two seconds that passed, or all  *)
(* when there were no more (flood_recalc).                                 *)
LEMMA RecalcStep ==
    ASSUME LimitsRight, FloodInv, NEW c \in Conns, flood_recalc(c)
    PROVE  FloodInv'
<1> DEFINE R == recv[c]
           s == IF R.done /\ R.sent_parsed > 2 THEN R.sent_parsed - 2 ELSE 0
<1>1. /\ clock \in Nat /\ MAX_FLOOD \in Nat /\ ReaderRight(R)
      /\ parsed = [y \in Locals |-> parsed[y]]
      /\ (c \in Locals => TallyRight(parsed[c])) /\ Paid(flood, passed)
      /\ wire \in [Conns -> Seq(Tokens)]
  BY DEF FloodInv, Readers, Tallies, LimitsRight
<1>2. recv' = [recv EXCEPT ![c] = [R EXCEPT !.sent_parsed = s, !.flush = None]]
      /\ R.flush # None /\ R.flush < clock
      /\ UNCHANGED <<flood, clock, wire, parsed, passed>>
  BY DEF flood_recalc
<1>3. s \in Nat
  BY <1>1 DEF ReaderRight
<1>4. PICK Q : Q = [R EXCEPT !.sent_parsed = s, !.flush = None]
  OBVIOUS
<1>5. ReaderRight(Q) /\ Q = Reading(R.recvq, s, R.allow_read, R.done, None)
  <2> HIDE DEF R, s
  <2> QED BY <1>1, <1>3, <1>4, RecalcIs
<1>6. Q.sent_parsed = s /\ Q.allow_read = R.allow_read /\ Q.done = R.done /\ Q.flush = None
  <2> HIDE DEF R, s
  <2> QED BY <1>5, ReadingFields
<1>7. ASSUME c \in Locals \ Operators
      PROVE  Quota(Q, parsed[c])
  <2>1. Quota(R, parsed[c]) /\ TallyRight(parsed[c])
    BY <1>1, <1>7 DEF FloodInv, Quotas
  <2> HIDE DEF R
  <2> QED BY <1>1, <1>2, <1>6, <2>1, QuotaOfRecalc
<1>8. parsed' = [parsed EXCEPT ![c] = parsed[c]]
  BY <1>1, <1>2
<1>9. recv' = [recv EXCEPT ![c] = Q] /\ Q.flush \in {recv[c].flush, None, clock + 1}
  BY <1>2, <1>4, <1>6
<1>10. Paid(flood', passed') /\ wire' \in [Conns -> Seq(Tokens)] /\ clock' = clock
  BY <1>1, <1>2
<1> QED BY <1>1, <1>5, <1>7, <1>8, <1>9, <1>10, ReaderStep

(* No client has sent anything yet, and the timers of the local ones run   *)
(* out at the first second.                                                *)
LEMMA FloodStart ==
    ASSUME LimitsRight, MessagesInit
    PROVE  FloodInv
<1>1. MAX_FLOOD \in Nat /\ FloodCount \in Nat
  BY DEF LimitsRight
<1>2. clock = 0 /\ wire \in [Conns -> Seq(Tokens)]
  BY DEF LimitsRight, MessagesInit
<1>3. \A c \in Conns : recv[c] = Reading(<<>>, 0, MAX_FLOOD_BURST, FALSE, IF c \in Locals THEN 1 ELSE None)
  BY DEF MessagesInit, Reading
<1>4. Readers
  <2>1. ASSUME NEW c \in Conns
        PROVE  ReaderRight(recv[c])
    <3>1. <<>> \in Seq(Tokens)
      OBVIOUS
    <3> QED BY <1>3, <3>1, ReadingMade
  <2> QED BY <2>1 DEF Readers, MessagesInit
<1>5. \A c \in Locals : parsed[c] = Tally(0, None)
  BY DEF MessagesInit, Tally
<1>6. Tallies /\ Quotas
  <2>1. ASSUME NEW c \in Locals
        PROVE  TallyRight(parsed[c]) /\ Quota(recv[c], parsed[c])
    <3>1. parsed[c].n = 0 /\ parsed[c].since = None
      BY <1>5 DEF Tally
    <3> QED BY <1>5, <3>1 DEF TallyRight, Quota
  <2>2. parsed = [c \in Locals |-> parsed[c]]
    BY DEF MessagesInit
  <2> QED BY <2>1, <2>2 DEF Tallies, Quotas
<1>7. Alarms
  <2>1. ASSUME NEW c \in Locals
        PROVE  recv[c].flush = 1
    <3>1. PICK no : no = FALSE
      OBVIOUS
    <3>2. recv[c] = Reading(<<>>, 0, MAX_FLOOD_BURST, no, 1)
      BY <1>3, <3>1 DEF Conns
    <3> QED BY <3>2, ReadingFields
  <2> QED BY <1>2, <2>1 DEF Alarms
<1>8. Paid(flood, passed)
  <2>1. flood = [t \in Targets |-> [n |-> 0, first |-> 0, noticed |-> FALSE]] /\ passed = [t \in Targets |-> 0]
    BY DEF MessagesInit, Targets
  <2>2. flood \in [Targets -> Meter] /\ passed \in [Targets -> Nat]
    BY <2>1 DEF Meter
  <2>3. \A t \in Targets : flood[t].first = 0 /\ flood[t].n = 0 /\ passed[t] = 0
    BY <2>1
  <2> QED BY <1>1, <1>2, <2>2, <2>3 DEF Paid
<1> QED BY <1>2, <1>4, <1>6, <1>7, <1>8 DEF FloodInv

(* Every step keeps the invariant, action by action.                       *)
LEMMA FloodNext ==
    ASSUME LimitsRight, FloodInv, [MessagesNext]_messagesvars
    PROVE  FloodInv'
<1>1. FloodCount \in Nat
  BY DEF LimitsRight
<1>2. ASSUME NEW c \in Conns, read_packet(c)
      PROVE  FloodInv'
  BY <1>2, ReadStep
<1>3. ASSUME NEW c \in Conns, flood_recalc(c)
      PROVE  FloodInv'
  BY <1>3, RecalcStep
<1>4. ASSUME NEW c \in Conns, parse_client_queued(c)
      PROVE  FloodInv'
  BY <1>4, LineStep
<1>5. ASSUME NEW c \in Conns, Rest(c)
      PROVE  FloodInv'
  BY <1>5, RestStep
<1>6. ASSUME NEW c \in Conns, sendq_unblocked(c) \/ dead_link_on_read(c) \/ PeerReads(c) \/ PeerResets(c)
      PROVE  FloodInv'
  <2>1. UNCHANGED <<recv, flood, clock, wire, parsed, passed>>
    BY <1>6 DEF sendq_unblocked, dead_link_on_read, PeerReads, PeerResets
  <2> QED BY <2>1, SameStep
<1>7. CASE send_queued_all \/ exit_aborted_clients
  <2>1. UNCHANGED <<recv, flood, clock, wire, parsed, passed>>
    BY <1>7 DEF send_queued_all, exit_aborted_clients
  <2> QED BY <2>1, SameStep
<1>8. CASE MessageTick
  BY <1>1, <1>8, TickStep
<1>9. CASE UNCHANGED messagesvars
  <2>1. UNCHANGED <<recv, flood, clock, wire, parsed, passed>>
    BY <1>9 DEF messagesvars
  <2> QED BY <2>1, SameStep
<1> QED BY <1>2, <1>3, <1>4, <1>5, <1>6, <1>7, <1>8, <1>9 DEF MessagesNext

(* The invariant keeps clients and targets within what FloodBounded says.  *)
LEMMA FloodInvBounds ==
    ASSUME LimitsRight, FloodInv
    PROVE  FloodBounded
<1>1. ASSUME NEW c \in {u \in Locals : checkflood(u) /\ parsed[u].since # None}
      PROVE  parsed[c].n <= MAX_FLOOD + 2 + (clock - parsed[c].since)
  <2>1. c \in Locals \ Operators /\ c \in Conns
    BY DEF checkflood, Conns
  <2>2. Quota(recv[c], parsed[c]) /\ ReaderRight(recv[c]) /\ TallyRight(parsed[c]) /\ clock \in Nat /\ MAX_FLOOD \in Nat
    BY <2>1 DEF FloodInv, Quotas, Readers, Tallies, LimitsRight
  <2> QED BY <1>1, <2>2, QuotaBounds
<1>2. \A t \in DOMAIN passed : passed[t] <= FloodCount + clock
  BY DEF FloodInv, Paid
<1> QED BY <1>1, <1>2 DEF FloodBounded

(***************************************************************************)
(* No client that is not exempt gets more lines parsed than MAX_FLOOD + 2  *)
(* and one for every second since its grace period ended, however its data *)
(* is cut up, whenever flood_recalc() runs and whatever else happens; and  *)
(* no target gets more messages than FloodCount and one per second         *)
(* (packet.c, m_message.c).                                                *)
(***************************************************************************)
THEOREM FloodHeld == ASSUME LimitsRight PROVE MessagesSpec => []FloodBounded
<1>1. MessagesInit => FloodInv
  BY FloodStart
<1>2. FloodInv /\ [MessagesNext]_messagesvars => FloodInv'
  BY FloodNext
<1>3. FloodInv => FloodBounded
  BY FloodInvBounds
<1> QED BY <1>1, <1>2, <1>3, PTL DEF MessagesSpec
=============================================================================
