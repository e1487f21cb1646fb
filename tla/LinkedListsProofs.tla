-------------------------- MODULE LinkedListsProofs --------------------------
(***************************************************************************)
(* What the operations on a dlink_list do, for lists of any length.  The   *)
(* induction over the length is by the least counterexample, a set of      *)
(* natural numbers, so that no theorem is needed that takes a predicate.   *)
(***************************************************************************)
EXTENDS LinkedLists, WellFoundedInduction, TLAPS

(* A set of natural numbers that is not empty has a least element.          *)
LEMMA LeastNumber ==
    ASSUME NEW T \in SUBSET Nat, T # {}
    PROVE  \E x \in T : \A y \in T : x <= y
<1> DEFINE R == {z \in Nat \X Nat : z[1] < z[2]}
<1>1. IsWellFoundedOn(R, Nat)
  BY NatLessThanWellFounded DEF OpToRel, IsWellFoundedOn
<1>2. PICK x \in T : \A y \in T : ~ (<<y, x>> \in R)
  BY <1>1, WFMin
<1>3. x \in Nat /\ \A y \in T : ~ (y < x)
  BY <1>2
<1> QED BY <1>3

(* k solves the recursion that defines Keep(q, T), up to the n-th node.     *)
Solves(k, q, T, n) ==
    \A i \in 0 .. n :
       k[i] = IF i = 0 THEN <<>>
              ELSE IF q[i] \in T THEN Append(k[i - 1], q[i]) ELSE k[i - 1]

(* The recursion that defines Keep over a list has a solution.              *)
LEMMA KeepSolvable ==
    ASSUME NEW S, NEW q \in Seq(S), NEW T
    PROVE  \E k \in [0 .. Len(q) -> Seq(S)] : Solves(k, q, T, Len(q))
<1> DEFINE Good(n) == \E k \in [0 .. n -> Seq(S)] : Solves(k, q, T, n)
           Bad == {n \in 0 .. Len(q) : ~ Good(n)}
<1>1. Good(0)
  <2> DEFINE k == [i \in 0 .. 0 |-> <<>>]
  <2>1. k \in [0 .. 0 -> Seq(S)] /\ \A i \in 0 .. 0 : i = 0 /\ k[i] = <<>>
    OBVIOUS
  <2> HIDE DEF k
  <2> QED BY <2>1 DEF Solves
<1>2. ASSUME NEW n \in 0 .. Len(q), n # 0, Good(n - 1)
      PROVE  Good(n)
  <2>1. PICK k \in [0 .. n - 1 -> Seq(S)] : Solves(k, q, T, n - 1)
    BY <1>2
  <2> DEFINE last == IF q[n] \in T THEN Append(k[n - 1], q[n]) ELSE k[n - 1]
             k2 == [i \in 0 .. n |-> IF i = n THEN last ELSE k[i]]
  <2>2. last \in Seq(S)
    BY <1>2
  <2>3. k2 \in [0 .. n -> Seq(S)]
    BY <2>2, <1>2
  <2>4. ASSUME NEW i \in 0 .. n
        PROVE  k2[i] = IF i = 0 THEN <<>>
                       ELSE IF q[i] \in T THEN Append(k2[i - 1], q[i]) ELSE k2[i - 1]
    <3>1. CASE i = n
      <4>1. k2[i] = last /\ k2[i - 1] = k[n - 1]
        BY <3>1, <1>2
      <4> QED BY <4>1, <3>1, <1>2
    <3>2. CASE i # n
      <4>1. i \in 0 .. n - 1 /\ k2[i] = k[i] /\ (i # 0 => k2[i - 1] = k[i - 1])
        BY <3>2, <1>2
      <4> HIDE DEF k2
      <4> QED BY <4>1, <2>1 DEF Solves
    <3> QED BY <3>1, <3>2
  <2> HIDE DEF k2
  <2> QED BY <2>3, <2>4 DEF Solves
<1> HIDE DEF Good
<1>3. Bad = {}
  <2> SUFFICES ASSUME Bad # {} PROVE FALSE
    OBVIOUS
  <2>0. Bad \in SUBSET Nat
    OBVIOUS
  <2>1. PICK n \in Bad : \A y \in Bad : n <= y
    BY <2>0, LeastNumber
  <2>2. n # 0 /\ n \in 0 .. Len(q) /\ ~ Good(n)
    BY <1>1, <2>1
  <2>3. Good(n - 1)
    BY <2>1, <2>2
  <2> QED BY <2>2, <2>3, <1>2
<1>4. Good(Len(q))
  BY <1>3
<1> QED BY <1>4 DEF Good

(* Keep(q, T) is a list of the same kind, and holds exactly what q holds of *)
(* T; if q names nothing twice, neither does Keep(q, T).                    *)
LEMMA KeepFacts ==
    ASSUME NEW S, NEW q \in Seq(S), NEW T
    PROVE  /\ Keep(q, T) \in Seq(S)
           /\ ToSet(Keep(q, T)) = ToSet(q) \cap T
           /\ IsInjective(q) => IsInjective(Keep(q, T))
<1> DEFINE Def(k) == k = [i \in 0 .. Len(q) |->
                            IF i = 0 THEN <<>>
                            ELSE IF q[i] \in T THEN Append(k[i - 1], q[i]) ELSE k[i - 1]]
           kept == CHOOSE k : Def(k)
<1>1. \E k : Def(k)
  <2>1. PICK k \in [0 .. Len(q) -> Seq(S)] : Solves(k, q, T, Len(q))
    BY KeepSolvable
  <2>2. k = [i \in 0 .. Len(q) |-> k[i]]
    BY <2>1
  <2>3. Def(k)
    BY <2>1, <2>2 DEF Solves
  <2> QED BY <2>3
<1>2. Def(kept)
  BY <1>1
<1>3. Keep(q, T) = kept[Len(q)]
  BY DEF Keep
<1> HIDE DEF kept
<1> DEFINE upto(n) == {q[i] : i \in 1 .. n}
           Good(n) == /\ kept[n] \in Seq(S)
                      /\ ToSet(kept[n]) = upto(n) \cap T
                      /\ IsInjective(q) => IsInjective(kept[n])
           Bad == {n \in 0 .. Len(q) : ~ Good(n)}
<1>4. Good(0)
  <2>1. kept[0] = <<>>
    BY <1>2
  <2> QED BY <2>1 DEF ToSet, IsInjective
<1>5. ASSUME NEW n \in 0 .. Len(q), n # 0, Good(n - 1)
      PROVE  Good(n)
  <2>1. kept[n] = IF q[n] \in T THEN Append(kept[n - 1], q[n]) ELSE kept[n - 1]
    BY <1>2, <1>5
  <2>2. upto(n) = upto(n - 1) \cup {q[n]}
    BY <1>5
  <2>3. CASE q[n] \notin T
    BY <2>1, <2>2, <2>3, <1>5
  <2>4. CASE q[n] \in T
    <3>1. kept[n] = Append(kept[n - 1], q[n]) /\ q[n] \in S
      BY <2>1, <2>4, <1>5
    <3>2. kept[n] \in Seq(S)
      BY <3>1, <1>5
    <3>3. ToSet(kept[n]) = ToSet(kept[n - 1]) \cup {q[n]}
      <4>1. /\ kept[n - 1] \in Seq(S)
            /\ DOMAIN kept[n] = DOMAIN kept[n - 1] \cup {Len(kept[n - 1]) + 1}
            /\ \A i \in DOMAIN kept[n - 1] : kept[n][i] = kept[n - 1][i]
            /\ kept[n][Len(kept[n - 1]) + 1] = q[n]
        BY <3>1, <1>5
      <4> QED BY <4>1 DEF ToSet
    <3>4. ToSet(kept[n]) = upto(n) \cap T
      BY <3>3, <2>2, <2>4, <1>5
    <3>5. ASSUME IsInjective(q)
          PROVE  IsInjective(kept[n])
      <4>1. q[n] \notin upto(n - 1)
        BY <3>5, <1>5 DEF IsInjective
      <4>2. q[n] \notin ToSet(kept[n - 1])
        BY <4>1, <1>5
      <4>3. IsInjective(kept[n - 1])
        BY <3>5, <1>5
      <4> QED BY <3>1, <4>2, <4>3, <1>5 DEF IsInjective, ToSet
    <3> QED BY <3>2, <3>4, <3>5
  <2> QED BY <2>3, <2>4
<1>6. Bad = {}
  <2> HIDE DEF Good
  <2> SUFFICES ASSUME Bad # {} PROVE FALSE
    OBVIOUS
  <2>0. Bad \in SUBSET Nat
    OBVIOUS
  <2>1. PICK n \in Bad : \A y \in Bad : n <= y
    BY <2>0, LeastNumber
  <2>2. n # 0 /\ n \in 0 .. Len(q) /\ ~ Good(n)
    BY <1>4, <2>1
  <2>3. Good(n - 1)
    BY <2>1, <2>2
  <2> QED BY <2>2, <2>3, <1>5
<1>7. Good(Len(q))
  <2> HIDE DEF Good
  <2> QED BY <1>6
<1>8. ToSet(q) = upto(Len(q))
  BY DEF ToSet
<1> QED BY <1>3, <1>7, <1>8

(* Deleting the first node of a list that names nothing twice leaves the    *)
(* tail.                                                                    *)
LEMMA KeepTail ==
    ASSUME NEW S, NEW q \in Seq(S), q # <<>>, IsInjective(q)
    PROVE  Keep(q, S \ {Head(q)}) = Tail(q)
<1> DEFINE T == S \ {Head(q)}
           Def(k) == k = [i \in 0 .. Len(q) |->
                            IF i = 0 THEN <<>>
                            ELSE IF q[i] \in T THEN Append(k[i - 1], q[i]) ELSE k[i - 1]]
           kept == CHOOSE k : Def(k)
<1>1. Def(kept)
  <2>1. PICK k \in [0 .. Len(q) -> Seq(S)] : Solves(k, q, T, Len(q))
    BY KeepSolvable
  <2>2. k = [i \in 0 .. Len(q) |-> k[i]]
    BY <2>1
  <2>3. Def(k)
    BY <2>1, <2>2 DEF Solves
  <2> QED BY <2>3
<1>2. Keep(q, T) = kept[Len(q)]
  BY DEF Keep
<1> HIDE DEF kept
<1> DEFINE Good(n) == kept[n] = SubSeq(q, 2, n)
           Bad == {n \in 1 .. Len(q) : ~ Good(n)}
<1>3. Len(q) \in Nat \ {0} /\ Head(q) = q[1] /\ q[1] \in S
  OBVIOUS
<1>4. Good(1)
  <2>1. kept[0] = <<>> /\ kept[1] = kept[0]
    BY <1>1, <1>3
  <2> QED BY <2>1, <1>3
<1>5. ASSUME NEW n \in 1 .. Len(q), n # 1, Good(n - 1)
      PROVE  Good(n)
  <2>1. q[n] \in S /\ q[n] # q[1]
    BY <1>3, <1>5 DEF IsInjective
  <2>2. kept[n] = Append(kept[n - 1], q[n])
    <3>1. n \in 0 .. Len(q) /\ n # 0 /\ q[n] \in T
      BY <1>3, <1>5, <2>1
    <3>2. kept[n] = IF q[n] \in T THEN Append(kept[n - 1], q[n]) ELSE kept[n - 1]
      BY <1>1, <3>1
    <3> HIDE DEF T
    <3> QED BY <3>1, <3>2
  <2>3. Append(SubSeq(q, 2, n - 1), q[n]) = SubSeq(q, 2, n)
    BY <1>3, <1>5
  <2> QED BY <2>2, <2>3, <1>5
<1>6. Bad = {}
  <2> HIDE DEF Good
  <2> SUFFICES ASSUME Bad # {} PROVE FALSE
    OBVIOUS
  <2>0. Bad \in SUBSET Nat
    OBVIOUS
  <2>1. PICK n \in Bad : \A y \in Bad : n <= y
    BY <2>0, LeastNumber
  <2>2. n # 1 /\ n \in 1 .. Len(q) /\ ~ Good(n)
    BY <1>4, <2>1
  <2>3. Good(n - 1)
    BY <2>1, <2>2
  <2> QED BY <2>2, <2>3, <1>5
<1>7. Good(Len(q))
  <2> HIDE DEF Good
  <2> QED BY <1>6, <1>3
<1>8. SubSeq(q, 2, Len(q)) = Tail(q)
  BY <1>3
<1> QED BY <1>2, <1>7, <1>8

(* The node after one of the list is one of the list, or there is none.     *)
LEMMA AfterFacts ==
    ASSUME NEW S, NEW q \in Seq(S), NEW c \in ToSet(q), NEW none
    PROVE  After(q, c, none) \in ToSet(q) \cup {none}
<1> DEFINE i == CHOOSE i \in DOMAIN q : q[i] = c
<1>1. i \in DOMAIN q /\ q[i] = c
  BY DEF ToSet
<1>2. After(q, c, none) = IF i < Len(q) THEN q[i + 1] ELSE none
  BY DEF After
<1> HIDE DEF i
<1>3. i < Len(q) => i + 1 \in DOMAIN q
  BY <1>1
<1> QED BY <1>2, <1>3 DEF ToSet

(* A list is empty when its length is zero.                                 *)
LEMMA EmptyList ==
    ASSUME NEW S, NEW q \in Seq(S)
    PROVE  q = <<>> <=> Len(q) = 0
OBVIOUS

(* The node after the first one is the first one of the tail.               *)
LEMMA AfterHead ==
    ASSUME NEW S, NEW q \in Seq(S), q # <<>>, IsInjective(q), NEW none
    PROVE  After(q, Head(q), none) = First(Tail(q), none)
<1> DEFINE i == CHOOSE i \in DOMAIN q : q[i] = Head(q)
<1>1. 1 \in DOMAIN q /\ q[1] = Head(q)
  OBVIOUS
<1>2. i = 1
  BY <1>1 DEF IsInjective
<1>3. After(q, Head(q), none) = IF i < Len(q) THEN q[i + 1] ELSE none
  BY DEF After
<1> HIDE DEF i
<1> DEFINE t == Tail(q)
<1>0. Len(q) \in Nat \ {0} /\ t \in Seq(S) /\ Len(t) = Len(q) - 1
  OBVIOUS
<1>4. CASE Len(q) = 1
  <2>1. t = <<>>
    <3> HIDE DEF t
    <3> QED BY <1>0, <1>4, EmptyList
  <2> QED BY <1>2, <1>3, <1>4, <2>1 DEF First
<1>5. CASE Len(q) # 1
  <2>1. Len(q) > 1
    BY <1>0, <1>5
  <2>2. t[1] = q[2]
    BY <2>1
  <2>3. t # <<>> /\ Head(t) = q[2]
    <3> HIDE DEF t
    <3> QED BY <1>0, <2>1, <2>2, EmptyList
  <2> QED BY <1>2, <1>3, <2>1, <2>3 DEF First
<1> QED BY <1>4, <1>5

(* Adding a node at the end, and at the front.                              *)
LEMMA AppendFacts ==
    ASSUME NEW S, NEW q \in Seq(S), NEW x \in S
    PROVE  /\ Append(q, x) \in Seq(S)
           /\ ToSet(Append(q, x)) = ToSet(q) \cup {x}
           /\ IsInjective(q) /\ x \notin ToSet(q) => IsInjective(Append(q, x))
           /\ \A none : First(Append(q, x), none) = IF q = <<>> THEN x ELSE First(q, none)
<1>1. /\ Append(q, x) \in Seq(S) /\ Len(q) \in Nat
      /\ DOMAIN Append(q, x) = DOMAIN q \cup {Len(q) + 1}
      /\ \A i \in DOMAIN q : Append(q, x)[i] = q[i]
      /\ Append(q, x)[Len(q) + 1] = x
  OBVIOUS
<1>2. ToSet(Append(q, x)) = ToSet(q) \cup {x}
  BY <1>1 DEF ToSet
<1>3. IsInjective(q) /\ x \notin ToSet(q) => IsInjective(Append(q, x))
  BY <1>1 DEF ToSet, IsInjective
<1>4. ASSUME NEW none
      PROVE  First(Append(q, x), none) = IF q = <<>> THEN x ELSE First(q, none)
  <2>1. Append(q, x) # <<>> /\ Head(Append(q, x)) = Append(q, x)[1]
    BY <1>1
  <2>2. CASE q = <<>>
    BY <2>1, <2>2, <1>1 DEF First
  <2>3. CASE q # <<>>
    <3>1. 1 \in DOMAIN q /\ Head(q) = q[1]
      BY <2>3
    <3> QED BY <2>1, <2>3, <3>1, <1>1 DEF First
  <2> QED BY <2>2, <2>3
<1> QED BY <1>1, <1>2, <1>3, <1>4

(* dlinkAdd(): the new node comes first and the rest keep their place. *)
LEMMA PushFacts ==
    ASSUME NEW S, NEW q \in Seq(S), NEW x \in S
    PROVE  /\ <<x>> \o q \in Seq(S)
           /\ ToSet(<<x>> \o q) = ToSet(q) \cup {x}
           /\ IsInjective(q) /\ x \notin ToSet(q) => IsInjective(<<x>> \o q)
<1> DEFINE r == <<x>> \o q
<1>1. /\ r \in Seq(S) /\ Len(q) \in Nat /\ Len(r) = Len(q) + 1
      /\ DOMAIN r = 1 .. Len(q) + 1 /\ DOMAIN q = 1 .. Len(q)
      /\ \A i \in DOMAIN q : r[i + 1] = q[i]
      /\ r[1] = x
  OBVIOUS
<1> HIDE DEF r
<1>2. ToSet(r) = ToSet(q) \cup {x}
  <2>1. ASSUME NEW i \in DOMAIN r PROVE r[i] \in ToSet(q) \cup {x}
    <3>1. i = 1 \/ (i - 1 \in DOMAIN q /\ r[i] = q[i - 1])
      BY <1>1
    <3> QED BY <1>1, <3>1 DEF ToSet
  <2>2. ASSUME NEW i \in DOMAIN q PROVE q[i] \in ToSet(r)
    BY <1>1 DEF ToSet
  <2>3. x \in ToSet(r)
    BY <1>1 DEF ToSet
  <2> QED BY <2>1, <2>2, <2>3 DEF ToSet
<1>3. ASSUME IsInjective(q), x \notin ToSet(q)
      PROVE  IsInjective(r)
  <2> SUFFICES ASSUME NEW i \in DOMAIN r, NEW j \in DOMAIN r, r[i] = r[j], i # j
               PROVE  FALSE
    BY DEF IsInjective
  <2>1. \A k \in DOMAIN r : k = 1 \/ (k - 1 \in DOMAIN q /\ r[k] = q[k - 1])
    BY <1>1
  <2> QED BY <1>1, <1>3, <2>1 DEF IsInjective, ToSet
<1> QED BY <1>1, <1>2, <1>3 DEF r

(* The nodes of the second of two lists that are joined.                   *)
LEMMA SecondPart ==
    ASSUME NEW S, NEW a \in Seq(S), NEW b \in Seq(S), NEW k \in 1 .. Len(b)
    PROVE  (a \o b)[Len(a) + k] = b[k]
<1>1. Len(a) \in Nat /\ Len(b) \in Nat /\ Len(a) + k \in 1 .. Len(a) + Len(b) /\ ~ (Len(a) + k <= Len(a))
  OBVIOUS
<1>2. Len(a) + k - Len(a) = k
  BY <1>1
<1> QED BY <1>1, <1>2

(* Taking the i-th node out.                                                *)
LEMMA RemoveAtFacts ==
    ASSUME NEW S, NEW q \in Seq(S), NEW i \in DOMAIN q
    PROVE  /\ RemoveAt(q, i) \in Seq(S)
           /\ Len(RemoveAt(q, i)) = Len(q) - 1
           /\ \A j \in 1 .. Len(q) - 1 : RemoveAt(q, i)[j] = IF j < i THEN q[j] ELSE q[j + 1]
           /\ ToSet(RemoveAt(q, i)) \subseteq ToSet(q)
           /\ ToSet(q) = ToSet(RemoveAt(q, i)) \cup {q[i]}
           /\ IsInjective(q) => IsInjective(RemoveAt(q, i)) /\ q[i] \notin ToSet(RemoveAt(q, i))
<1> DEFINE r == RemoveAt(q, i)
<1>1. /\ r \in Seq(S) /\ Len(r) = Len(q) - 1
      /\ \A j \in 1 .. Len(q) - 1 : r[j] = IF j < i THEN q[j] ELSE q[j + 1]
  <2> DEFINE a == SubSeq(q, 1, i - 1)
             b == SubSeq(q, i + 1, Len(q))
  <2>1. a \in Seq(S) /\ Len(a) = i - 1 /\ \A j \in 1 .. i - 1 : a[j] = q[j]
    OBVIOUS
  <2>2. b \in Seq(S) /\ Len(b) = Len(q) - i /\ \A j \in 1 .. Len(q) - i : b[j] = q[j + i]
    OBVIOUS
  <2>3. r = a \o b
    BY DEF RemoveAt
  <2> HIDE DEF a, b, r
  <2>4. r \in Seq(S) /\ Len(r) = Len(q) - 1
    BY <2>1, <2>2, <2>3
  <2>5. ASSUME NEW j \in 1 .. Len(q) - 1
        PROVE  r[j] = IF j < i THEN q[j] ELSE q[j + 1]
    <3>1. CASE j < i
      <4>1. j \in 1 .. Len(a)
        BY <2>1, <3>1
      <4>2. r[j] = a[j]
        BY <4>1, <2>1, <2>2, <2>3
      <4> QED BY <4>1, <4>2, <2>1, <3>1
    <3>2. CASE ~ (j < i)
      <4>1. j - Len(a) \in 1 .. Len(b) /\ j - Len(a) = j - i + 1
        BY <2>1, <2>2, <3>2
      <4>2. r[j] = b[j - Len(a)]
        <5> DEFINE k == j - Len(a)
        <5>0. Len(a) \in Int /\ j \in Int
          BY <2>1
        <5>1. k \in 1 .. Len(b) /\ Len(a) + k = j
          BY ONLY <4>1, <5>0
        <5> HIDE DEF k
        <5>3. a \in Seq(S) /\ b \in Seq(S)
          BY <2>1, <2>2
        <5>2. (a \o b)[Len(a) + k] = b[k]
          BY ONLY <5>1, <5>3, SecondPart, Zenon
        <5> QED BY <5>1, <5>2, <2>3 DEF k
      <4>3. b[j - i + 1] = q[j - i + 1 + i]
        BY <4>1, <2>2
      <4> QED BY <4>1, <4>2, <4>3, <3>2
    <3> QED BY <3>1, <3>2
  <2> QED BY <2>4, <2>5
<1>2. Len(q) \in Nat /\ i \in 1 .. Len(q) /\ DOMAIN q = 1 .. Len(q) /\ DOMAIN r = 1 .. Len(q) - 1
  BY <1>1
<1> HIDE DEF r
<1>3. ToSet(r) \subseteq ToSet(q)
  BY <1>1, <1>2 DEF ToSet
<1>4. ASSUME NEW k \in DOMAIN q PROVE q[k] \in ToSet(r) \cup {q[i]}
  <2>1. CASE k < i
    BY <1>1, <1>2, <2>1 DEF ToSet
  <2>2. CASE k > i
    <3>1. k - 1 \in DOMAIN r /\ r[k - 1] = q[k]
      BY <1>1, <1>2, <2>2
    <3> QED BY <3>1 DEF ToSet
  <2> QED BY <2>1, <2>2, <1>2
<1>5. ToSet(q) = ToSet(r) \cup {q[i]}
  BY <1>3, <1>4, <1>2 DEF ToSet
<1>6. ASSUME IsInjective(q)
      PROVE  IsInjective(r) /\ q[i] \notin ToSet(r)
  <2>1. ASSUME NEW j \in DOMAIN r
        PROVE  \E k \in DOMAIN q : r[j] = q[k] /\ k # i /\ k = IF j < i THEN j ELSE j + 1
    <3>1. CASE j < i
      BY <1>1, <1>2, <3>1
    <3>2. CASE ~ (j < i)
      <4>1. j + 1 \in DOMAIN q /\ j + 1 # i /\ r[j] = q[j + 1]
        BY <1>1, <1>2, <3>2
      <4> QED BY <4>1, <3>2
    <3> QED BY <3>1, <3>2
  <2>2. q[i] \notin ToSet(r)
    BY <2>1, <1>6, <1>2 DEF IsInjective, ToSet
  <2>3. IsInjective(r)
    <3> SUFFICES ASSUME NEW j1 \in DOMAIN r, NEW j2 \in DOMAIN r, r[j1] = r[j2]
                 PROVE  j1 = j2
      BY DEF IsInjective
    <3>1. PICK k1 \in DOMAIN q : r[j1] = q[k1] /\ k1 = IF j1 < i THEN j1 ELSE j1 + 1
      BY <2>1
    <3>2. PICK k2 \in DOMAIN q : r[j2] = q[k2] /\ k2 = IF j2 < i THEN j2 ELSE j2 + 1
      BY <2>1
    <3>3. k1 = k2
      BY <3>1, <3>2, <1>6 DEF IsInjective
    <3> QED BY <3>1, <3>2, <3>3, <1>2
  <2> QED BY <2>2, <2>3
<1> QED BY <1>1, <1>3, <1>5, <1>6 DEF r
-----------------------------------------------------------------------------
(* A set of numbers that holds 0, and with each number below n the next     *)
(* one, holds all numbers up to n: induction, without a predicate.          *)
LEMMA UpTo ==
    ASSUME NEW n \in Nat, NEW A, 0 \in A, \A i \in 1 .. n : i - 1 \in A => i \in A
    PROVE  0 .. n \subseteq A
<1> DEFINE Bad == {i \in 0 .. n : i \notin A}
<1>1. SUFFICES ASSUME Bad # {} PROVE FALSE
  OBVIOUS
<1>2. Bad \in SUBSET Nat
  OBVIOUS
<1>3. PICK i \in Bad : \A j \in Bad : i <= j
  BY <1>1, <1>2, LeastNumber
<1>4. i \in 1 .. n /\ i - 1 \in 0 .. n
  BY <1>3
<1>5. i - 1 \in A
  BY <1>3, <1>4
<1> QED BY <1>3, <1>4, <1>5

(* k is the run of a loop of n steps from x0, F[i] the i-th step.           *)
Runs(k, n, x0, F) == k[0] = x0 /\ \A i \in 1 .. n : k[i] = F[i][k[i - 1]]

(* A loop of n steps, each a function on the set X, has a run.              *)
LEMMA LoopRuns ==
    ASSUME NEW X, NEW n \in Nat, NEW x0 \in X, NEW F \in [1 .. n -> [X -> X]]
    PROVE  \E k \in [0 .. n -> X] : Runs(k, n, x0, F)
<1> DEFINE Upto(m) == \E k \in [0 .. m -> X] : k[0] = x0 /\ \A i \in 1 .. m : k[i] = F[i][k[i - 1]]
           A == {m \in 0 .. n : Upto(m)}
<1>1. Upto(0)
  <2> DEFINE k == [i \in 0 .. 0 |-> x0]
  <2>1. k \in [0 .. 0 -> X] /\ k[0] = x0
    OBVIOUS
  <2> HIDE DEF k
  <2>2. \A i \in 1 .. 0 : k[i] = F[i][k[i - 1]]
    OBVIOUS
  <2> QED BY <2>1, <2>2
<1>2. ASSUME NEW m \in 1 .. n, Upto(m - 1)
      PROVE  Upto(m)
  <2>1. PICK k \in [0 .. m - 1 -> X] : k[0] = x0 /\ \A i \in 1 .. m - 1 : k[i] = F[i][k[i - 1]]
    BY <1>2
  <2> DEFINE last == F[m][k[m - 1]]
             k2 == [i \in 0 .. m |-> IF i = m THEN last ELSE k[i]]
  <2>2. last \in X
    <3>1. k[m - 1] \in X /\ F[m] \in [X -> X]
      OBVIOUS
    <3> QED BY <3>1
  <2> HIDE DEF last
  <2>3. k2 \in [0 .. m -> X] /\ k2[0] = x0
    BY <2>1, <2>2
  <2>4. ASSUME NEW i \in 1 .. m
        PROVE  k2[i] = F[i][k2[i - 1]]
    <3>1. k2[i - 1] = k[i - 1]
      OBVIOUS
    <3>2. CASE i = m
      BY <3>1, <3>2 DEF last
    <3>3. CASE i # m
      <4>1. i \in 1 .. m - 1 /\ k2[i] = k[i]
        BY <3>3
      <4> QED BY <3>1, <4>1, <2>1
    <3> QED BY <3>2, <3>3
  <2> HIDE DEF k2
  <2> QED BY <2>3, <2>4
<1> HIDE DEF Upto
<1>3. 0 \in A /\ \A i \in 1 .. n : i - 1 \in A => i \in A
  BY <1>1, <1>2
<1> HIDE DEF A
<1>4. 0 .. n \subseteq A
  BY <1>3, UpTo
<1>5. Upto(n)
  BY <1>4 DEF A
<1> QED BY <1>5 DEF Upto, Runs
-----------------------------------------------------------------------------
(* The run of Keep over a list.                                             *)
LEMMA KeepRun ==
    ASSUME NEW S, NEW q \in Seq(S), NEW T
    PROVE  \E k \in [0 .. Len(q) -> Seq(S)] : Solves(k, q, T, Len(q)) /\ Keep(q, T) = k[Len(q)]
<1> DEFINE n == Len(q)
           Def(k) == k = [i \in 0 .. n |->
                            IF i = 0 THEN <<>>
                            ELSE IF q[i] \in T THEN Append(k[i - 1], q[i]) ELSE k[i - 1]]
           kept == CHOOSE k : Def(k)
<1>0. n \in Nat /\ \A i \in 1 .. n : q[i] \in S
  OBVIOUS
<1>1. \E k : Def(k)
  <2>1. PICK k \in [0 .. n -> Seq(S)] : Solves(k, q, T, n)
    BY KeepSolvable
  <2>2. k = [i \in 0 .. n |-> k[i]]
    BY <2>1
  <2>3. Def(k)
    BY <2>1, <2>2 DEF Solves
  <2> QED BY <2>3
<1>2. Def(kept)
  BY <1>1
<1>3. Keep(q, T) = kept[n]
  BY DEF Keep
<1> HIDE DEF kept, n
<1>4. \A i \in 0 .. n : kept[i] = IF i = 0 THEN <<>>
                                  ELSE IF q[i] \in T THEN Append(kept[i - 1], q[i]) ELSE kept[i - 1]
  BY ONLY <1>2
<1>5. Solves(kept, q, T, n)
  BY <1>4 DEF Solves
<1> DEFINE A == {i \in 0 .. n : kept[i] \in Seq(S)}
<1>6. 0 \in A
  <2>1. 0 \in 0 .. n /\ <<>> \in Seq(S)
    BY <1>0
  <2> QED BY <1>4, <2>1
<1>7. ASSUME NEW i \in 1 .. n, i - 1 \in A
      PROVE  i \in A
  <2>1. i \in 0 .. n /\ i # 0 /\ q[i] \in S
    BY <1>0
  <2>2. kept[i - 1] \in Seq(S)
    BY <1>7
  <2>3. Append(kept[i - 1], q[i]) \in Seq(S)
    BY <2>1, <2>2
  <2>4. kept[i] = IF q[i] \in T THEN Append(kept[i - 1], q[i]) ELSE kept[i - 1]
    BY <1>4, <2>1
  <2>5. kept[i] \in Seq(S)
    BY <2>2, <2>3, <2>4
  <2> QED BY <2>1, <2>5
<1> HIDE DEF A
<1>8. 0 .. n \subseteq A
  BY <1>0, <1>6, <1>7, UpTo
<1>9. \A i \in 0 .. n : kept[i] \in Seq(S)
  BY <1>8 DEF A
<1>10. kept \in [0 .. n -> Seq(S)]
  <2>1. kept = [i \in 0 .. n |-> kept[i]]
    BY <1>2
  <2> QED BY <1>9, <2>1
<1> QED BY <1>3, <1>5, <1>10 DEF n

(* Keep deletes nothing when all is to be kept.                             *)
LEMMA KeepAll ==
    ASSUME NEW S, NEW q \in Seq(S), NEW T, S \subseteq T
    PROVE  Keep(q, T) = q
<1> DEFINE n == Len(q)
<1>1. PICK k \in [0 .. n -> Seq(S)] : Solves(k, q, T, n) /\ Keep(q, T) = k[n]
  BY KeepRun
<1>2. n \in Nat /\ \A i \in 1 .. n : q[i] \in S
  OBVIOUS
<1>3. \A i \in 0 .. n : k[i] = IF i = 0 THEN <<>>
                               ELSE IF q[i] \in T THEN Append(k[i - 1], q[i]) ELSE k[i - 1]
  BY <1>1 DEF Solves
<1>4. q = SubSeq(q, 1, n) /\ SubSeq(q, 1, 0) = <<>>
  OBVIOUS
<1>5. \A i \in 1 .. n : SubSeq(q, 1, i) = Append(SubSeq(q, 1, i - 1), q[i])
  OBVIOUS
<1> HIDE DEF n
<1> DEFINE A == {i \in 0 .. n : k[i] = SubSeq(q, 1, i)}
<1>6. 0 \in A
  <2>1. 0 \in 0 .. n
    BY <1>2
  <2> QED BY <1>3, <1>4, <2>1
<1>7. ASSUME NEW i \in 1 .. n, i - 1 \in A
      PROVE  i \in A
  <2>1. i \in 0 .. n /\ i # 0
    BY <1>2
  <2>2. q[i] \in T
    BY <1>2
  <2>3. k[i] = Append(k[i - 1], q[i])
    BY <1>3, <2>1, <2>2
  <2>4. k[i] = SubSeq(q, 1, i)
    BY <1>5, <1>7, <2>3
  <2> QED BY <2>1, <2>4
<1> HIDE DEF A
<1>8. 0 .. n \subseteq A
  BY <1>2, <1>6, <1>7, UpTo
<1>9. n \in 0 .. n
  BY <1>2
<1> QED BY <1>1, <1>4, <1>8, <1>9 DEF A

(* What Keep leaves is in q, each node at a place of its own.               *)
LEMMA KeepPlaces ==
    ASSUME NEW S, NEW q \in Seq(S), NEW T
    PROVE  \E f \in [DOMAIN Keep(q, T) -> DOMAIN q] :
              IsInjective(f) /\ \A a \in DOMAIN Keep(q, T) : Keep(q, T)[a] = q[f[a]]
<1> DEFINE n == Len(q)
<1>1. PICK k \in [0 .. n -> Seq(S)] : Solves(k, q, T, n) /\ Keep(q, T) = k[n]
  BY KeepRun
<1>2. n \in Nat /\ DOMAIN q = 1 .. n /\ \A i \in 1 .. n : q[i] \in S
  OBVIOUS
<1>3. \A i \in 0 .. n : k[i] = IF i = 0 THEN <<>>
                               ELSE IF q[i] \in T THEN Append(k[i - 1], q[i]) ELSE k[i - 1]
  BY <1>1 DEF Solves
<1> HIDE DEF n
<1> DEFINE Placed(i) == \E f \in [DOMAIN k[i] -> 1 .. i] :
                           IsInjective(f) /\ \A a \in DOMAIN k[i] : k[i][a] = q[f[a]]
           A == {i \in 0 .. n : Placed(i)}
<1>4. Placed(0)
  <2>1. k[0] = <<>> /\ DOMAIN <<>> = {}
    BY <1>2, <1>3
  <2>2. \E f \in [{} -> 1 .. 0] : IsInjective(f)
    <3>1. [a \in {} |-> 1] \in [{} -> 1 .. 0] /\ IsInjective([a \in {} |-> 1])
      BY DEF IsInjective
    <3> QED BY <3>1
  <2> QED BY <2>1, <2>2
<1>5. ASSUME NEW i \in 1 .. n, Placed(i - 1)
      PROVE  Placed(i)
  <2>1. PICK f \in [DOMAIN k[i - 1] -> 1 .. (i - 1)] :
            IsInjective(f) /\ \A a \in DOMAIN k[i - 1] : k[i - 1][a] = q[f[a]]
    BY <1>5
  <2>2. k[i - 1] \in Seq(S) /\ q[i] \in S /\ i \in 0 .. n /\ i # 0
    BY <1>1, <1>2
  <2>3. CASE q[i] \notin T
    <3>1. k[i] = k[i - 1]
      BY <1>3, <2>2, <2>3
    <3>2. f \in [DOMAIN k[i] -> 1 .. i]
      BY <2>1, <3>1
    <3> QED BY <2>1, <3>1, <3>2
  <2>4. CASE q[i] \in T
    <3>1. k[i] = Append(k[i - 1], q[i])
      BY <1>3, <2>2, <2>4
    <3>l. PICK l : l = Len(k[i - 1]) + 1
      OBVIOUS
    <3>g. PICK g : g = [a \in 1 .. l |-> IF a = l THEN i ELSE f[a]]
      OBVIOUS
    <3>2. /\ Len(k[i - 1]) \in Nat /\ DOMAIN k[i - 1] = 1 .. l - 1 /\ DOMAIN k[i] = 1 .. l
          /\ k[i][l] = q[i] /\ \A a \in 1 .. l - 1 : k[i][a] = k[i - 1][a]
      BY <2>2, <3>1, <3>l
    <3>3. l \in Nat /\ l >= 1
      BY <3>2, <3>l
    <3>4. \A a \in 1 .. l - 1 : f[a] \in 1 .. (i - 1) /\ g[a] = f[a]
      BY <2>1, <3>2, <3>3, <3>g
    <3>5. g \in [1 .. l -> 1 .. i] /\ g[l] = i
      <4>1. g[l] = i /\ DOMAIN g = 1 .. l
        BY <3>3, <3>g
      <4>2. \A a \in 1 .. l : g[a] \in 1 .. i
        <5>1. i \in Nat /\ i \in 1 .. i /\ 1 .. (i - 1) \subseteq 1 .. i
          BY <1>2
        <5>2. \A a \in 1 .. l : a = l \/ a \in 1 .. l - 1
          BY <3>3
        <5> QED BY <3>4, <4>1, <5>1, <5>2
      <4> QED BY <3>g, <4>1, <4>2
    <3>6. IsInjective(g)
      <4> SUFFICES ASSUME NEW a \in 1 .. l, NEW b \in 1 .. l, g[a] = g[b] PROVE a = b
        BY <3>5 DEF IsInjective
      <4>1. CASE a \in 1 .. l - 1 /\ b \in 1 .. l - 1
        <5>1. f[a] = f[b] /\ a \in DOMAIN f /\ b \in DOMAIN f
          BY <2>1, <3>2, <3>4, <4>1
        <5> QED BY <2>1, <5>1 DEF IsInjective
      <4>2. CASE a = l \/ b = l
        BY <3>3, <3>4, <3>5, <4>2
      <4> QED BY <3>3, <4>1, <4>2
    <3>7. ASSUME NEW a \in 1 .. l PROVE k[i][a] = q[g[a]]
      <4>1. CASE a = l
        BY <3>2, <3>5, <4>1
      <4>2. CASE a \in 1 .. l - 1
        BY <2>1, <3>2, <3>4, <4>2
      <4> QED BY <3>3, <4>1, <4>2
    <3>8. \A a \in DOMAIN k[i] : k[i][a] = q[g[a]]
      BY <3>2, <3>7
    <3>9. g \in [DOMAIN k[i] -> 1 .. i]
      BY <3>2, <3>5
    <3> QED BY <3>6, <3>8, <3>9
  <2> QED BY <2>3, <2>4
<1> HIDE DEF Placed
<1>6. 0 \in A /\ \A i \in 1 .. n : i - 1 \in A => i \in A
  BY <1>2, <1>4, <1>5
<1> HIDE DEF A
<1>7. 0 .. n \subseteq A
  BY <1>2, <1>6, UpTo
<1>8. Placed(n)
  BY <1>2, <1>7 DEF A
<1> QED BY <1>1, <1>2, <1>8 DEF Placed

(* Keep makes a list shorter when it deletes something, and never longer.   *)
LEMMA KeepShortens ==
    ASSUME NEW S, NEW q \in Seq(S), NEW T
    PROVE  /\ Len(Keep(q, T)) \in Nat /\ Len(Keep(q, T)) <= Len(q)
           /\ \A j \in DOMAIN q : q[j] \notin T => Len(Keep(q, T)) < Len(q)
<1> DEFINE n == Len(q)
<1>1. PICK k \in [0 .. n -> Seq(S)] : Solves(k, q, T, n) /\ Keep(q, T) = k[n]
  BY KeepRun
<1>2. n \in Nat /\ DOMAIN q = 1 .. n /\ \A i \in 1 .. n : q[i] \in S
  OBVIOUS
<1>3. \A i \in 0 .. n : k[i] = IF i = 0 THEN <<>>
                               ELSE IF q[i] \in T THEN Append(k[i - 1], q[i]) ELSE k[i - 1]
  BY <1>1 DEF Solves
<1> HIDE DEF n
<1> DEFINE A == {i \in 0 .. n : /\ Len(k[i]) \in Nat /\ Len(k[i]) <= i
                                /\ \A j \in 1 .. i : q[j] \notin T => Len(k[i]) < i}
<1>6. 0 \in A
  <2>1. 0 \in 0 .. n
    BY <1>2
  <2>2. k[0] = <<>>
    BY <1>3, <2>1
  <2>3. Len(k[0]) = 0
    BY <2>2
  <2>4. \A j \in 1 .. 0 : FALSE
    OBVIOUS
  <2> QED BY <2>1, <2>3, <2>4
<1>7. ASSUME NEW i \in 1 .. n, i - 1 \in A
      PROVE  i \in A
  <2> DEFINE l == Len(k[i - 1])
             m == Len(k[i])
  <2>1. i \in 0 .. n /\ i # 0 /\ i - 1 \in 0 .. n /\ i \in Nat
    BY <1>2
  <2>2. l \in Nat /\ l <= i - 1 /\ \A j \in 1 .. i - 1 : q[j] \notin T => l < i - 1
    BY <1>7
  <2>3. k[i - 1] \in Seq(S) /\ q[i] \in S
    BY <1>2, <2>1
  <2>4. m = IF q[i] \in T THEN l + 1 ELSE l
    <3>1. Len(Append(k[i - 1], q[i])) = l + 1
      BY <2>3
    <3> QED BY <1>3, <2>1, <3>1
  <2> HIDE DEF l, m
  <2>5. m \in Nat /\ m <= i
    BY <2>1, <2>2, <2>4
  <2>6. ASSUME NEW j \in 1 .. i, q[j] \notin T
        PROVE  m < i
    <3>1. CASE j = i
      BY <2>1, <2>2, <2>4, <2>6, <3>1
    <3>2. CASE j # i
      <4>1. j \in 1 .. i - 1
        BY <2>1, <3>2
      <4>2. l < i - 1
        BY <2>2, <2>6, <4>1
      <4> QED BY <2>1, <2>2, <2>4, <4>2
    <3> QED BY <3>1, <3>2
  <2> QED BY <2>1, <2>5, <2>6 DEF m
<1> HIDE DEF A
<1>8. 0 .. n \subseteq A
  BY <1>2, <1>6, <1>7, UpTo
<1>9. n \in 0 .. n
  BY <1>2
<1>10. n \in A
  BY <1>8, <1>9
<1> QED BY <1>1, <1>2, <1>10 DEF A, n

(* A list of any kind of entries.                                          *)
IsList(q) == \E S : q \in Seq(S)

(* Positions in a list.                                                    *)
LEMMA ListFacts ==
    ASSUME NEW q, IsList(q)
    PROVE  /\ DOMAIN q = 1 .. Len(q) /\ Len(q) \in Nat /\ DOMAIN q \subseteq Nat \ {0}
           /\ \A i \in DOMAIN q : q[i] \in ToSet(q)
           /\ \A x \in ToSet(q) : \E i \in DOMAIN q : x = q[i]
BY DEF IsList, ToSet

(* The four ways a list changes.                                           *)
LEMMA ListSteps ==
    ASSUME NEW q, IsList(q)
    PROVE  /\ \A T : IsList(Keep(q, T)) /\ ToSet(Keep(q, T)) = ToSet(q) \cap T
           /\ \A x : IsList(<<x>> \o q) /\ ToSet(<<x>> \o q) = ToSet(q) \cup {x}
           /\ \A i \in DOMAIN q : IsList(RemoveAt(q, i)) /\ ToSet(RemoveAt(q, i)) \subseteq ToSet(q)
           /\ \A x : \A i \in DOMAIN q : /\ IsList([q EXCEPT ![i] = x])
                                         /\ ToSet([q EXCEPT ![i] = x]) \subseteq ToSet(q) \cup {x}
<1>1. PICK S : q \in Seq(S)
  BY DEF IsList
<1>2. ASSUME NEW T PROVE IsList(Keep(q, T)) /\ ToSet(Keep(q, T)) = ToSet(q) \cap T
  BY <1>1, KeepFacts DEF IsList
<1>3. ASSUME NEW x PROVE IsList(<<x>> \o q) /\ ToSet(<<x>> \o q) = ToSet(q) \cup {x}
  <2>1. q \in Seq(S \cup {x}) /\ x \in S \cup {x}
    BY <1>1
  <2> QED BY <2>1, PushFacts DEF IsList
<1>4. ASSUME NEW i \in DOMAIN q PROVE IsList(RemoveAt(q, i)) /\ ToSet(RemoveAt(q, i)) \subseteq ToSet(q)
  BY <1>1, RemoveAtFacts DEF IsList
<1>5. ASSUME NEW x, NEW i \in DOMAIN q
      PROVE  IsList([q EXCEPT ![i] = x]) /\ ToSet([q EXCEPT ![i] = x]) \subseteq ToSet(q) \cup {x}
  <2>1. [q EXCEPT ![i] = x] \in Seq(S \cup {x})
    BY <1>1
  <2>2. DOMAIN [q EXCEPT ![i] = x] = DOMAIN q /\ \A j \in DOMAIN q : [q EXCEPT ![i] = x][j] \in {q[j], x}
    BY <1>1
  <2> QED BY <2>1, <2>2 DEF IsList, ToSet
<1> QED BY <1>2, <1>3, <1>4, <1>5
=============================================================================
