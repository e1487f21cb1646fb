------------------------------- MODULE Pools -------------------------------
(***************************************************************************)
(* The memory pools (mempool.c) that clients, connections, channels, bans, *)
(* members, buffers and list nodes are allocated from. The three lists of  *)
(* chunks of a pool, doubly linked in the code, are sequences; an item is  *)
(* its chunk and its place in it. held are the items the program has,      *)
(* which it gives back in any order. For the property, clean marks the     *)
(* chunks that have been empty since the last collection and early holds   *)
(* those a collection freed without that.                                  *)
(***************************************************************************)
EXTENDS Integers, Sequences, FiniteSets, FiniteSetsExt, LinkedLists, Absent

CONSTANTS
    ALIGNMENT, MIN_CHUNK, MAX_CHUNK, CHUNK_OVERHEAD,
    HEADER,      \* offsetof(mp_allocated_t, u.mem)
    ALLOCATED,   \* sizeof(mp_allocated_t)
    Setups,      \* the sets of pools that are made
    Sizes,       \* pool -> <<item_size, chunk_capacity>>
    Limit        \* bound: pool -> the most chunks it may have at once

VARIABLES pools, held
poolsvars == <<pools, held>>

(* The shift of 32 is left out: no size is that large.                     *)
Shifted(s, k) == IF s.u >= 2^k THEN [u |-> s.u \div 2^k, r |-> s.r + k] ELSE s
tor_log2(u) == Shifted(Shifted(Shifted(Shifted(Shifted([u |-> u, r |-> 0], 16), 8), 4), 2), 1).r
round_to_power_of_2(u) ==
    LET low == 2^tor_log2(u)
        high == 2 * low
    IN IF u = 0 THEN 1 ELSE IF high - u < u - low THEN high ELSE low
alloc_size(item_size) ==
    LET need == Max({HEADER + item_size, ALLOCATED})
    IN IF need % ALIGNMENT = 0 THEN need ELSE need + ALIGNMENT - (need % ALIGNMENT)
mp_pool_new(item_size, chunk_capacity) ==
    LET alloc == alloc_size(item_size)
        round == round_to_power_of_2(Min({chunk_capacity, MAX_CHUNK}))
        need == alloc * 2 + CHUNK_OVERHEAD
        doubled == Max({round, 2^(CHOOSE k \in 1..30 : 2^k >= need /\ 2^(k - 1) < need)})
    IN [capacity |-> (Max({doubled, MIN_CHUNK}) - CHUNK_OVERHEAD) \div alloc,
        used |-> <<>>, empty |-> <<>>, full |-> <<>>, n_empty |-> 0, min_empty |-> 0, chunks |-> <<>>, early |-> {}]

-----------------------------------------------------------------------------
(* P.chunks[id] is a chunk: its items that were freed, most recent first,  *)
(* how many were carved from its memory and how many are allocated.        *)
NewId(P) == CHOOSE k \in 1..(Cardinality(DOMAIN P.chunks) + 1) : k \notin DOMAIN P.chunks
mp_chunk_new(P) ==
    [id \in DOMAIN P.chunks \cup {NewId(P)} |->
        IF id = NewId(P) THEN [first_free |-> <<>>, next_mem |-> 0, n_allocated |-> 0, clean |-> FALSE] ELSE P.chunks[id]]
add_newly_used_chunk_to_used_list(P, id) == [P EXCEPT !.used = <<id>> \o @]
Usable_fault(P) ==   \* the low mark of empty chunks is not kept
    IF P.used # <<>> THEN P
    ELSE IF P.empty # <<>> THEN add_newly_used_chunk_to_used_list([P EXCEPT !.empty = Tail(@), !.n_empty = @ - 1], P.empty[1])
    ELSE add_newly_used_chunk_to_used_list([P EXCEPT !.chunks = mp_chunk_new(P)], NewId(P))
Usable(P) ==
    IF P.used # <<>> THEN P
    ELSE IF P.empty # <<>>
    THEN add_newly_used_chunk_to_used_list([P EXCEPT !.empty = Tail(@), !.n_empty = @ - 1, !.min_empty = Min({@, P.n_empty - 1})],
                                           P.empty[1])
    ELSE add_newly_used_chunk_to_used_list([P EXCEPT !.chunks = mp_chunk_new(P)], NewId(P))
Item(C) == IF C.first_free # <<>> THEN C.first_free[1] ELSE C.next_mem + 1
Taken(C) ==
    LET reused == C.first_free # <<>>
    IN [first_free |-> IF reused THEN Tail(C.first_free) ELSE <<>>, next_mem |-> IF reused THEN C.next_mem ELSE C.next_mem + 1,
        n_allocated |-> C.n_allocated + 1, clean |-> FALSE]
Got(P) ==
    LET id == P.used[1]
        Q == [P EXCEPT !.chunks[id] = Taken(@)]
    IN IF Q.chunks[id].n_allocated = P.capacity THEN [Q EXCEPT !.used = Tail(@), !.full = <<id>> \o @] ELSE Q
mp_pool_get(x) ==
    \E P \in {Usable(pools[x])} :
        /\ Cardinality(DOMAIN P.chunks) <= Limit[x]
        /\ pools' = [pools EXCEPT ![x] = Got(P)]
        /\ held' = held \cup {<<x, P.used[1], Item(P.chunks[P.used[1]])>>}

Without(s, id) == Keep(s, ToSet(s) \ {id})
Given(C, i) ==
    [first_free |-> <<i>> \o C.first_free, next_mem |-> C.next_mem, n_allocated |-> C.n_allocated - 1, clean |-> C.clean]
Emptied(C) == [first_free |-> <<>>, next_mem |-> 0, n_allocated |-> C.n_allocated - 1, clean |-> C.clean]
Released(P, id, i) ==
    LET n == P.chunks[id].n_allocated
    IN IF n = P.capacity THEN [P EXCEPT !.chunks[id] = Given(@, i), !.full = Without(@, id), !.used = <<id>> \o @]
       ELSE IF n = 1 THEN [P EXCEPT !.chunks[id] = Emptied(@), !.used = Without(@, id), !.empty = <<id>> \o @,
                                    !.n_empty = @ + 1]
       ELSE [P EXCEPT !.chunks[id] = Given(@, i)]
mp_pool_release(item) ==
    /\ pools' = [pools EXCEPT ![item[1]] = Released(@, item[2], item[3])]
    /\ held' = held \ {item}

(* qsort() leaves chunks with as many items in any order.                  *)
Descending(P, s) == \A k \in 1..(Len(s) - 1) : P.chunks[s[k]].n_allocated >= P.chunks[s[k + 1]].n_allocated
mp_pool_sort_used_chunks(P) ==
    IF Descending(P, P.used) THEN {P}
    ELSE {[P EXCEPT !.used = s] : s \in {t \in SetToSeqs(ToSet(P.used)) : Descending(P, t)}}
Marked(C, clean) ==
    [first_free |-> C.first_free, next_mem |-> C.next_mem, n_allocated |-> C.n_allocated, clean |-> clean]
mp_pool_clean(P, n_to_keep, keep_recently_used) ==
    LET keep == IF keep_recently_used THEN Max({n_to_keep, P.n_empty - P.min_empty}) ELSE n_to_keep
        kept == SubSeq(P.empty, 1, Min({keep, Len(P.empty)}))
        freed == ToSet(P.empty) \ ToSet(kept)
    IN [P EXCEPT !.empty = kept, !.n_empty = @ - Cardinality(freed), !.min_empty = P.n_empty - Cardinality(freed),
                 !.early = {id \in freed : keep_recently_used /\ ~P.chunks[id].clean},
                 !.chunks = [id \in DOMAIN @ \ freed |-> Marked(@[id], id \in ToSet(kept))]]
mp_pool_garbage_collect ==
    /\ \E f \in [DOMAIN pools -> UNION {mp_pool_sort_used_chunks(pools[x]) : x \in DOMAIN pools}] :
         /\ \A x \in DOMAIN pools : f[x] \in mp_pool_sort_used_chunks(pools[x])
         /\ pools' = [x \in DOMAIN pools |-> mp_pool_clean(f[x], 0, TRUE)]
    /\ UNCHANGED held

PoolsInit == held = {} /\ pools \in {[x \in Made |-> mp_pool_new(Sizes[x][1], Sizes[x][2])] : Made \in Setups}
PoolsNext ==
    \/ \E x \in DOMAIN pools : mp_pool_get(x)
    \/ \E item \in held : mp_pool_release(item)
    \/ mp_pool_garbage_collect
PoolsSpec == PoolsInit /\ [][PoolsNext]_poolsvars

(* The sizes: alignment and headers are numbers of bytes, and two items of *)
(* any pool fit in a gigabyte, which mp_pool_new() needs for its shifts.   *)
SizesRight ==
    /\ ALIGNMENT \in Nat \ {0} /\ ALLOCATED \in Nat \ {0}
    /\ HEADER \in Nat /\ CHUNK_OVERHEAD \in Nat /\ MIN_CHUNK \in Nat
    /\ \A Made \in Setups : \A x \in Made :
         Sizes[x][1] \in Nat /\ alloc_size(Sizes[x][1]) * 2 + CHUNK_OVERHEAD <= 2^30

-----------------------------------------------------------------------------
mp_pool_assert_ok(P) ==
    /\ \A id \in ToSet(P.empty) : P.chunks[id].n_allocated = 0
    /\ \A id \in ToSet(P.full) : P.chunks[id].n_allocated = P.capacity
    /\ \A id \in ToSet(P.used) : P.chunks[id].n_allocated \in 1..(P.capacity - 1)
    /\ P.n_empty = Len(P.empty)
    /\ \A id \in DOMAIN P.chunks : P.chunks[id].next_mem <= P.capacity

(* However items come and go, the assertions of mp_pool_assert_ok() hold,  *)
(* every chunk is on one list, an item is either held or free and no chunk *)
(* with a held item is freed. A collection frees only what has been empty  *)
(* since the last one, as the comment of mp_pool_clean() says, and a chunk *)
(* has room for two items, without which it could not become empty         *)
(* (mp_pool_get(), mp_pool_release(), mp_pool_clean(), mp_pool_new()).     *)
PoolsRight ==
    \A x \in DOMAIN pools :
        LET P == pools[x]
            lists == P.used \o P.empty \o P.full
            taken(id) == {i \in 1..P.capacity : <<x, id, i>> \in held}
        IN /\ P.capacity >= 2
           /\ mp_pool_assert_ok(P)
           /\ IsInjective(lists) /\ ToSet(lists) = DOMAIN P.chunks
           /\ \A item \in held : item[1] = x => item[2] \in DOMAIN P.chunks
           /\ \A id \in DOMAIN P.chunks :
                LET C == P.chunks[id]
                IN /\ C.n_allocated = Cardinality(taken(id))
                   /\ IsInjective(C.first_free) /\ ToSet(C.first_free) \cap taken(id) = {}
                   /\ ToSet(C.first_free) \cup taken(id) = 1..C.next_mem
           /\ P.min_empty <= P.n_empty /\ P.early = {}
=============================================================================
