----------------------------- MODULE LinkedLists -----------------------------
(***************************************************************************)
(* The dlink_list of src/list.c and include/list.h as a sequence of the    *)
(* data its nodes point to, first node first.                              *)
(***************************************************************************)
EXTENDS Integers, Sequences, SequencesExt

(* dlinkDelete() of every node whose data is not in T.                     *)
Keep(q, T) ==
    LET kept[i \in 0 .. Len(q)] ==
          IF i = 0 THEN <<>>
          ELSE IF q[i] \in T THEN Append(kept[i - 1], q[i]) ELSE kept[i - 1]
    IN kept[Len(q)]

(* list->head, and node->next of the node of c, as DLINK_FOREACH_SAFE      *)
(* fetches it before it looks at the node.                                 *)
First(q, none) == IF q = <<>> THEN none ELSE Head(q)
After(q, c, none) ==
    LET i == CHOOSE i \in DOMAIN q : q[i] = c
    IN IF i < Len(q) THEN q[i + 1] ELSE none
=============================================================================
