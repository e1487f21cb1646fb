---------------------------- MODULE BansProofs ----------------------------
(***************************************************************************)
(* The K-, D- and G-lines of the database and the votes on G-lines (Bans), *)
(* for every set of masks, operators and commands and every time limit.    *)
(***************************************************************************)
EXTENDS Bans, LinkedListsProofs, FiniteSetTheorems

(* The entry a search finds is one of those it looks for.                  *)
LEMMA FirstFound ==
    ASSUME NEW I \in SUBSET (Nat \ {0})
    PROVE  /\ FirstOf(I) = 0 <=> I = {}
           /\ FirstOf(I) # 0 => FirstOf(I) \in I
<1>1. CASE I = {}
  BY <1>1 DEF FirstOf
<1>2. CASE I # {}
  <2>1. PICK x \in I : \A y \in I : x <= y
    BY <1>2, LeastNumber
  <2>2. Min(I) \in I
    BY <2>1 DEF Min
  <2>3. FirstOf(I) = Min(I)
    BY <1>2 DEF FirstOf
  <2> QED BY <1>2, <2>2, <2>3
<1> QED BY <1>1, <1>2

(* A finite set can be listed.                                             *)
LEMMA Listed ==
    ASSUME NEW S, IsFiniteSet(S)
    PROVE  IsList(SetToSeq(S)) /\ IsInjective(SetToSeq(S)) /\ ToSet(SetToSeq(S)) = S
<1> DEFINE n == Cardinality(S)
<1>1. n \in Nat /\ ExistsBijection(1 .. n, S)
  BY FS_CardinalityType
<1>2. \E f \in [1 .. n -> S] : IsInjective(f)
  BY <1>1 DEF ExistsBijection, Bijection, Injection
<1>q. PICK q : q = SetToSeq(S)
  OBVIOUS
<1>3. q \in [1 .. n -> S] /\ IsInjective(q)
  BY <1>2, <1>q DEF SetToSeq
<1>4. q \in Seq(S)
  BY <1>1, <1>3
<1>5. Cardinality(1 .. n) = n
  BY <1>1, FS_Interval
<1>6. q \in Injection(1 .. n, S)
  BY <1>3 DEF Injection
<1>7. q \in Surjection(1 .. n, S)
  BY <1>5, <1>6, FS_Injection
<1>8. ToSet(q) = S
  BY <1>3, <1>7 DEF Surjection, ToSet
<1> QED BY <1>3, <1>4, <1>8, <1>q DEF IsList

-----------------------------------------------------------------------------
(* The entries of the database in a list, no mask twice.                   *)
Pairs(q) == {<<e.mask, e.until>> : e \in {d \in ToSet(q) : d.db}}
Once(q) == \A i, j \in DOMAIN q : q[i].db /\ q[j].db /\ q[i].mask = q[j].mask => i = j
Listing(q, S) == IsList(q) /\ Once(q) /\ Pairs(q) = S

(* A new entry of the database, whose mask is not in the list.             *)
LEMMA ListingAppend ==
    ASSUME NEW q, NEW S, Listing(q, S), NEW e, e.db, \A i \in DOMAIN q : q[i].mask # e.mask
    PROVE  Listing(Append(q, e), S \cup {<<e.mask, e.until>>})
<1>1. PICK T : q \in Seq(T)
  BY DEF Listing, IsList
<1>2. q \in Seq(T \cup {e}) /\ e \in T \cup {e}
  BY <1>1
<1>3. /\ Append(q, e) \in Seq(T \cup {e}) /\ Len(q) \in Nat
      /\ DOMAIN Append(q, e) = DOMAIN q \cup {Len(q) + 1}
      /\ \A i \in DOMAIN q : Append(q, e)[i] = q[i]
      /\ Append(q, e)[Len(q) + 1] = e
  BY <1>2
<1>4. ToSet(Append(q, e)) = ToSet(q) \cup {e}
  BY <1>2, AppendFacts
<1> DEFINE r == Append(q, e)
<1> HIDE DEF r
<1>5. Once(r)
  BY <1>3 DEF Once, Listing, r
<1>6. Pairs(r) = S \cup {<<e.mask, e.until>>}
  BY <1>4 DEF Pairs, Listing, r
<1> QED BY <1>3, <1>5, <1>6 DEF Listing, IsList, r

(* An entry of the database is taken away.                                 *)
LEMMA ListingRemove ==
    ASSUME NEW q, NEW S, Listing(q, S), NEW i \in DOMAIN q, q[i].db
    PROVE  Listing(RemoveAt(q, i), S \ {<<q[i].mask, q[i].until>>})
<1>1. PICK T : q \in Seq(T)
  BY DEF Listing, IsList
<1> DEFINE r == RemoveAt(q, i)
<1>2. /\ r \in Seq(T) /\ Len(r) = Len(q) - 1 /\ ToSet(r) \subseteq ToSet(q) /\ ToSet(q) = ToSet(r) \cup {q[i]}
      /\ \A j \in 1 .. Len(q) - 1 : r[j] = IF j < i THEN q[j] ELSE q[j + 1]
  BY <1>1, RemoveAtFacts
<1> HIDE DEF r
<1>3. DOMAIN r = 1 .. Len(q) - 1 /\ DOMAIN q = 1 .. Len(q) /\ Len(q) \in Nat
  BY <1>1, <1>2
<1>4. \A j \in DOMAIN r : \E l \in DOMAIN q : l # i /\ r[j] = q[l] /\ l = IF j < i THEN j ELSE j + 1
  BY <1>2, <1>3
<1>5. Once(r)
  <2> SUFFICES ASSUME NEW a \in DOMAIN r, NEW b \in DOMAIN r, r[a].db, r[b].db, r[a].mask = r[b].mask
               PROVE  a = b
    BY DEF Once
  <2>1. PICK l \in DOMAIN q : r[a] = q[l] /\ l = IF a < i THEN a ELSE a + 1
    BY <1>4
  <2>2. PICK m \in DOMAIN q : r[b] = q[m] /\ m = IF b < i THEN b ELSE b + 1
    BY <1>4
  <2>3. l = m
    BY <2>1, <2>2 DEF Listing, Once
  <2> QED BY <1>3, <2>1, <2>2, <2>3
<1>6. \A d \in ToSet(r) : d.db => d.mask # q[i].mask
  <2> SUFFICES ASSUME NEW d \in ToSet(r), d.db PROVE d.mask # q[i].mask
    OBVIOUS
  <2>1. PICK j \in DOMAIN r : d = r[j]
    BY DEF ToSet
  <2>2. PICK l \in DOMAIN q : l # i /\ d = q[l]
    BY <1>4, <2>1
  <2> QED BY <2>2 DEF Listing, Once
<1>7. Pairs(r) = S \ {<<q[i].mask, q[i].until>>}
  <2>1. ASSUME NEW x \in Pairs(r) PROVE x \in S /\ x # <<q[i].mask, q[i].until>>
    <3>1. PICK d \in ToSet(r) : d.db /\ x = <<d.mask, d.until>>
      BY DEF Pairs
    <3> QED BY <1>2, <1>6, <3>1 DEF Listing, Pairs
  <2>2. ASSUME NEW x \in S, x # <<q[i].mask, q[i].until>> PROVE x \in Pairs(r)
    <3>1. PICK d \in ToSet(q) : d.db /\ x = <<d.mask, d.until>>
      BY DEF Listing, Pairs
    <3>2. d \in ToSet(r)
      BY <1>2, <2>2, <3>1
    <3> QED BY <3>1, <3>2 DEF Pairs
  <2> QED BY <2>1, <2>2
<1> QED BY <1>2, <1>5, <1>7 DEF Listing, IsList, r

(* Keeping some of the entries.                                            *)
LEMMA ListingKeep ==
    ASSUME NEW q, NEW S, Listing(q, S), NEW T
    PROVE  /\ Listing(Keep(q, T), Pairs(Keep(q, T)))
           /\ ToSet(Keep(q, T)) = ToSet(q) \cap T
<1>1. PICK U : q \in Seq(U)
  BY DEF Listing, IsList
<1> DEFINE r == Keep(q, T)
<1>2. r \in Seq(U) /\ ToSet(r) = ToSet(q) \cap T
  BY <1>1, KeepFacts
<1>3. PICK f \in [DOMAIN r -> DOMAIN q] : IsInjective(f) /\ \A a \in DOMAIN r : r[a] = q[f[a]]
  BY <1>1, KeepPlaces
<1> HIDE DEF r
<1>4. Once(r)
  <2> SUFFICES ASSUME NEW a \in DOMAIN r, NEW b \in DOMAIN r, r[a].db, r[b].db, r[a].mask = r[b].mask
               PROVE  a = b
    BY DEF Once
  <2>1. f[a] = f[b]
    BY <1>3 DEF Listing, Once
  <2> QED BY <1>3, <2>1 DEF IsInjective
<1> QED BY <1>2, <1>4 DEF Listing, IsList, r

(* Entries of the configuration: none is of the database.                  *)
Plain(c) == IsList(c) /\ \A i \in DOMAIN c : ~c[i].db

(* Such entries before or after the others.                                *)
LEMMA ListingJoin ==
    ASSUME NEW q, NEW S, Listing(q, S), NEW c, Plain(c)
    PROVE  Listing(q \o c, S) /\ Listing(c \o q, S)
<1>1. PICK T1 : q \in Seq(T1)
  BY DEF Listing, IsList
<1>2. PICK T2 : c \in Seq(T2)
  BY DEF Plain, IsList
<1>3. PICK T : q \in Seq(T) /\ c \in Seq(T)
  <2>1. q \in Seq(T1 \cup T2) /\ c \in Seq(T1 \cup T2)
    BY <1>1, <1>2
  <2> QED BY <2>1
<1>4. ASSUME NEW a \in Seq(T), NEW b \in Seq(T), (a = q /\ b = c) \/ (a = c /\ b = q)
      PROVE  Listing(a \o b, S)
  <2> DEFINE r == a \o b
  <2>1. /\ r \in Seq(T) /\ Len(a) \in Nat /\ Len(b) \in Nat
        /\ DOMAIN a = 1 .. Len(a) /\ DOMAIN b = 1 .. Len(b) /\ DOMAIN r = 1 .. Len(a) + Len(b)
        /\ \A i \in DOMAIN a : r[i] = a[i]
    OBVIOUS
  <2>2. \A i \in DOMAIN b : r[Len(a) + i] = b[i]
    BY SecondPart
  <2> HIDE DEF r
  <2>3. \A i \in DOMAIN r : i \in DOMAIN a \/ (i - Len(a) \in DOMAIN b /\ i = Len(a) + (i - Len(a)))
    BY <2>1
  <2>4. Once(a) /\ Once(b) /\ ((\A i \in DOMAIN a : ~a[i].db) \/ (\A i \in DOMAIN b : ~b[i].db))
    BY <1>4 DEF Listing, Once, Plain
  <2>5. Once(r)
    <3> SUFFICES ASSUME NEW i \in DOMAIN r, NEW j \in DOMAIN r, r[i].db, r[j].db, r[i].mask = r[j].mask
                 PROVE  i = j
      BY DEF Once
    <3>1. CASE i \in DOMAIN a /\ j \in DOMAIN a
      BY <2>1, <2>4, <3>1 DEF Once
    <3>2. CASE i \notin DOMAIN a /\ j \notin DOMAIN a
      <4>1. i - Len(a) \in DOMAIN b /\ r[i] = b[i - Len(a)] /\ j - Len(a) \in DOMAIN b /\ r[j] = b[j - Len(a)]
        BY <2>2, <2>3, <3>2
      <4>2. i - Len(a) = j - Len(a)
        BY <2>4, <4>1 DEF Once
      <4> QED BY <2>1, <4>2
    <3>3. CASE i \in DOMAIN a /\ j \notin DOMAIN a
      <4>1. r[i] = a[i] /\ j - Len(a) \in DOMAIN b /\ r[j] = b[j - Len(a)]
        BY <2>1, <2>2, <2>3, <3>3
      <4> QED BY <2>4, <3>3, <4>1
    <3>4. CASE i \notin DOMAIN a /\ j \in DOMAIN a
      <4>1. r[j] = a[j] /\ i - Len(a) \in DOMAIN b /\ r[i] = b[i - Len(a)]
        BY <2>1, <2>2, <2>3, <3>4
      <4> QED BY <2>4, <3>4, <4>1
    <3> QED BY <3>1, <3>2, <3>3, <3>4
  <2>6. ToSet(r) = ToSet(a) \cup ToSet(b)
    <3>1. ASSUME NEW i \in DOMAIN r PROVE r[i] \in ToSet(a) \cup ToSet(b)
      <4>1. CASE i \in DOMAIN a
        BY <2>1, <4>1 DEF ToSet
      <4>2. CASE i \notin DOMAIN a
        <5>1. i - Len(a) \in DOMAIN b /\ r[i] = b[i - Len(a)]
          BY <2>2, <2>3, <4>2
        <5> QED BY <5>1 DEF ToSet
      <4> QED BY <4>1, <4>2
    <3>2. ASSUME NEW i \in DOMAIN a PROVE a[i] \in ToSet(r)
      BY <2>1 DEF ToSet
    <3>3. ASSUME NEW i \in DOMAIN b PROVE b[i] \in ToSet(r)
      <4>1. Len(a) + i \in DOMAIN r /\ r[Len(a) + i] = b[i]
        BY <2>1, <2>2
      <4> QED BY <4>1 DEF ToSet
    <3> QED BY <3>1, <3>2, <3>3 DEF ToSet
  <2>7. \A d \in ToSet(c) : ~d.db
    BY DEF Plain, ToSet
  <2>8. Pairs(r) = S
    BY <1>4, <2>6, <2>7 DEF Pairs, Listing
  <2> QED BY <2>1, <2>5, <2>8 DEF Listing, IsList, r
<1>5. Listing(q \o c, S)
  BY <1>3, <1>4, Zenon
<1>6. Listing(c \o q, S)
  BY <1>3, <1>4, Zenon
<1> QED BY <1>5, <1>6

(* A list with nothing but entries of the database is as long as there are *)
(* entries.                                                                *)
LEMMA ListingCount ==
    ASSUME NEW q, NEW S, Listing(q, S), \A i \in DOMAIN q : q[i].db
    PROVE  Len(q) = Cardinality(S)
<1>1. DOMAIN q = 1 .. Len(q) /\ Len(q) \in Nat
  BY ListFacts DEF Listing
<1> DEFINE f == [i \in 1 .. Len(q) |-> <<q[i].mask, q[i].until>>]
<1>2. \A i \in 1 .. Len(q) : f[i] \in S
  BY <1>1 DEF Listing, Pairs, ToSet
<1>3. \A x \in S : \E i \in 1 .. Len(q) : f[i] = x
  BY <1>1 DEF Listing, Pairs, ToSet
<1>4. ASSUME NEW i \in 1 .. Len(q), NEW j \in 1 .. Len(q), f[i] = f[j] PROVE i = j
  <2>1. q[i].mask = q[j].mask
    BY <1>4
  <2> QED BY <1>1, <2>1 DEF Listing, Once
<1>5. f \in [1 .. Len(q) -> S] /\ DOMAIN f = 1 .. Len(q)
  BY <1>2
<1> HIDE DEF f
<1>6. f \in Bijection(1 .. Len(q), S)
  BY <1>3, <1>4, <1>5 DEF Bijection, Injection, Surjection, IsInjective
<1>7. IsFiniteSet(1 .. Len(q)) /\ Cardinality(1 .. Len(q)) = Len(q)
  BY <1>1, FS_Interval
<1>8. Cardinality(S) = Cardinality(1 .. Len(q))
  BY <1>6, <1>7, FS_Bijection DEF ExistsBijection
<1> QED BY <1>7, <1>8

-----------------------------------------------------------------------------
(* The invariant of the K-, D- and G-lines: those in force are the placed  *)
(* ones, the file of each kind holds those of its last finished save, and  *)
(* a temporary file that is ready to replace it holds those in force,      *)
(* since nothing is placed or removed while the databases are saved.       *)
DbKinds == {"K", "D", "G"}
PlacedKinds == DbKinds \cup Named
InForce == DbKinds \subseteq DOMAIN bans /\ \A k \in DbKinds : Listing(bans[k], placed[k])
Holds(main, S) ==
    IF main = None THEN S = {} ELSE Listing(main[1], S) /\ \A i \in DOMAIN main[1] : main[1][i].db
OnDisk ==
    /\ DbKinds \subseteq DOMAIN disk
    /\ \A k \in DbKinds : /\ disk[k] = [main |-> disk[k].main, temp |-> disk[k].temp]
                          /\ Holds(disk[k].main, saved[k])
Saving ==
    save # None => /\ up /\ save = [file |-> save.file, step |-> save.step, then |-> save.then]
                   /\ save.file \in 1 .. 5
                   /\ save.step = "close" /\ File \in DbKinds => disk[File].temp = Contents(File)
ByKind == placed = [k \in PlacedKinds |-> placed[k]] /\ saved = [k \in PlacedKinds |-> saved[k]]
ConfsRight(s) == "confs" \in DOMAIN s /\ \A i \in DOMAIN s.confs : \A k \in DbKinds : Plain(s.confs[i][k])
KeptInv == InForce /\ OnDisk /\ Saving /\ ByKind /\ ConfsRight(banscene)

(* The inputs are right, and None, which stands for a missing file too, is *)
(* neither a kind of entry nor a file with a list in it.                   *)
InputsRight ==
    /\ ScenesRight
    /\ None \notin Kinds /\ \A q : None # [i \in {1} |-> q]

(* The steps left are counted down; the configurations stay.               *)
LEMMA ConfsStay ==
    ASSUME ConfsRight(banscene), banscene' = banscene \/ banscene' = [banscene EXCEPT !.steps = banscene.steps - 1]
    PROVE  ConfsRight(banscene')
BY DEF ConfsRight

(* A step that changes what is in force leaves the files alone.            *)
LEMMA KeptFrame ==
    ASSUME KeptInv, save = None, UNCHANGED <<disk, save, saved>>, InForce',
           placed' = [k \in PlacedKinds |-> placed'[k]],
           banscene' = banscene \/ banscene' = [banscene EXCEPT !.steps = banscene.steps - 1]
    PROVE  KeptInv'
<1>1. ConfsRight(banscene')
  BY ConfsStay DEF KeptInv
<1>2. OnDisk' /\ Saving'
  BY DEF KeptInv, OnDisk, Saving
<1> QED BY <1>1, <1>2 DEF KeptInv, ByKind

(* What the searches for an entry to place or to take away find.           *)
LEMMA SearchFinds ==
    ASSUME NEW k, NEW m, IsList(bans[k])
    PROVE  /\ find_placed(bans, k, m) # 0 =>
                /\ find_placed(bans, k, m) \in DOMAIN bans[k]
                /\ LET e == bans[k][find_placed(bans, k, m)] IN e.mask = m \/ m \in Covers[e.mask]
           /\ find_placed(bans, k, m) = 0 => \A i \in DOMAIN bans[k] : bans[k][i].mask # m
           /\ find_exact_name_conf(bans, k, m) # 0 => find_exact_name_conf(bans, k, m) \in DOMAIN bans[k]
<1>1. DOMAIN bans[k] \subseteq Nat \ {0}
  BY ListFacts
<1> DEFINE I == {i \in DOMAIN bans[k] : bans[k][i].mask = m \/ m \in Covers[bans[k][i].mask]}
           J == {i \in DOMAIN bans[k] : bans[k][i].mask = m}
<1>2. I \in SUBSET (Nat \ {0}) /\ J \in SUBSET (Nat \ {0})
  BY <1>1
<1>3. find_placed(bans, k, m) = FirstOf(I) /\ find_exact_name_conf(bans, k, m) = FirstOf(J)
  BY DEF find_placed, find_exact_name_conf
<1>4. (FirstOf(I) = 0 <=> I = {}) /\ (FirstOf(I) # 0 => FirstOf(I) \in I) /\ (FirstOf(J) # 0 => FirstOf(J) \in J)
  BY <1>2, FirstFound
<1> QED BY <1>3, <1>4

(* Place() of a mask that its list does not have.                          *)
LEMMA PlaceKeeps ==
    ASSUME KeptInv, NEW k, NEW m, NEW seconds, Place(k, m, seconds),
           k \in DbKinds => \A i \in DOMAIN bans[k] : bans[k][i].mask # m
    PROVE  InForce' /\ placed' = [j \in PlacedKinds |-> placed'[j]]
<1>1. PICK e : /\ e = Entry(m, IF seconds = 0 THEN 0 ELSE now + seconds, TRUE, {})
               /\ bans' = Add(bans, k, e) /\ placed' = [placed EXCEPT ![k] = placed[k] \cup {<<m, e.until>>}]
  BY DEF Place
<1>2. e.db /\ e.mask = m
  BY <1>1 DEF Entry
<1>3. placed = [j \in PlacedKinds |-> placed[j]] /\ DbKinds \subseteq DOMAIN bans /\ DbKinds \subseteq PlacedKinds
  BY DEF KeptInv, ByKind, InForce, PlacedKinds
<1>4. placed' = [j \in PlacedKinds |-> placed'[j]]
  BY <1>1, <1>3
<1>5. DOMAIN bans' = DOMAIN bans
  BY <1>1 DEF Add, conf_make, add_conf_by_address
<1>6. ASSUME NEW j \in DbKinds PROVE Listing(bans'[j], placed'[j])
  <2>0. Listing(bans[j], placed[j])
    BY DEF KeptInv, InForce
  <2>1. CASE j = k
    <3>1. k \notin Named
      BY <2>1 DEF DbKinds, Named
    <3>2. bans'[j] = Append(bans[j], e) /\ placed'[j] = placed[j] \cup {<<e.mask, e.until>>}
      BY <1>1, <1>2, <1>3, <2>1, <3>1 DEF Add, add_conf_by_address
    <3> QED BY <1>2, <2>0, <2>1, <3>2, ListingAppend
  <2>2. CASE j # k
    <3>1. bans'[j] = bans[j] /\ placed'[j] = placed[j]
      BY <1>1, <1>3, <2>2 DEF Add, conf_make, add_conf_by_address
    <3> QED BY <2>0, <3>1
  <2> QED BY <2>1, <2>2
<1> QED BY <1>3, <1>4, <1>5, <1>6 DEF InForce

(* Unplace() of an entry that was found, or of none.                       *)
LEMMA UnplaceKeeps ==
    ASSUME KeptInv, NEW k, NEW i, NEW B, Unplace(k, i, B), B = bans \/ B = conf_free(bans, k, i),
           k \in DbKinds => i \in DOMAIN bans[k]
    PROVE  InForce' /\ placed' = [j \in PlacedKinds |-> placed'[j]]
<1>1. placed = [j \in PlacedKinds |-> placed[j]] /\ DbKinds \subseteq DOMAIN bans /\ DbKinds \subseteq PlacedKinds
  BY DEF KeptInv, ByKind, InForce, PlacedKinds
<1>2. CASE B = bans
  BY <1>1, <1>2 DEF Unplace, KeptInv, InForce
<1>3. CASE B # bans
  <2>1. /\ bans' = [bans EXCEPT ![k] = RemoveAt(bans[k], i)] /\ bans[k][i].db
        /\ placed' = [placed EXCEPT ![k] = placed[k] \ {<<bans[k][i].mask, bans[k][i].until>>}]
    BY <1>3 DEF Unplace, conf_free
  <2>2. placed' = [j \in PlacedKinds |-> placed'[j]] /\ DOMAIN bans' = DOMAIN bans
    BY <1>1, <2>1
  <2>3. ASSUME NEW j \in DbKinds PROVE Listing(bans'[j], placed'[j])
    <3>0. Listing(bans[j], placed[j])
      BY DEF KeptInv, InForce
    <3>1. CASE j = k
      <4>1. bans'[j] = RemoveAt(bans[j], i) /\ placed'[j] = placed[j] \ {<<bans[j][i].mask, bans[j][i].until>>}
        BY <1>1, <2>1, <3>1
      <4> QED BY <2>1, <3>0, <3>1, <4>1, ListingRemove
    <3>2. CASE j # k
      <4>1. bans'[j] = bans[j] /\ placed'[j] = placed[j]
        BY <1>1, <2>1, <3>2
      <4> QED BY <3>0, <4>1
    <3> QED BY <3>1, <3>2
  <2> QED BY <1>1, <2>2, <2>3 DEF InForce
<1> QED BY <1>2, <1>3

(* remove_kline_match(), remove_dline_match() and remove_gline_match().    *)
LEMMA UnplaceAddressKeeps ==
    ASSUME KeptInv, NEW k \in DbKinds, NEW m, UnplaceAddress(k, m)
    PROVE  InForce' /\ placed' = [j \in PlacedKinds |-> placed'[j]]
<1>1. PICK i : i = find_placed(bans, k, m)
  OBVIOUS
<1>2. PICK B : B = delete_one_address_conf(bans, k, i, m)
  OBVIOUS
<1>3. Unplace(k, i, B)
  BY <1>1, <1>2 DEF UnplaceAddress
<1>4. i # 0
  BY <1>3 DEF Unplace
<1>5. IsList(bans[k])
  BY DEF KeptInv, InForce, Listing
<1>6. i \in DOMAIN bans[k]
  BY <1>1, <1>4, <1>5, SearchFinds
<1>7. B = bans \/ B = conf_free(bans, k, i)
  BY <1>2 DEF delete_one_address_conf
<1> QED BY <1>3, <1>6, <1>7, UnplaceKeeps

(* KLINE, DLINE, XLINE, RESV and what takes their entries away.            *)
LEMMA CommandKeeps ==
    ASSUME KeptInv, NEW l, Command(l)
    PROVE  KeptInv'
<1> DEFINE Right == InForce' /\ placed' = [j \in PlacedKinds |-> placed'[j]]
<1>0. \A k \in DbKinds : IsList(bans[k])
  BY DEF KeptInv, InForce, Listing
<1>1. ASSUME mo_kline(l) PROVE Right
  <2>1. PICK m, seconds : Place("K", m, seconds) /\ find_placed(bans, "K", m) = 0
    BY <1>1 DEF mo_kline, already_placed_kline
  <2>2. \A i \in DOMAIN bans["K"] : bans["K"][i].mask # m
    BY <1>0, <2>1, SearchFinds DEF DbKinds
  <2> QED BY <2>1, <2>2, PlaceKeeps
<1>2. ASSUME mo_dline(l) PROVE Right
  <2>1. PICK m, seconds : Place("D", m, seconds) /\ find_placed(bans, "D", m) = 0
    BY <1>2 DEF mo_dline, find_dline_conf
  <2>2. \A i \in DOMAIN bans["D"] : bans["D"][i].mask # m
    BY <1>0, <2>1, SearchFinds DEF DbKinds
  <2> QED BY <2>1, <2>2, PlaceKeeps
<1>3. ASSUME mo_xline(l) \/ \E k \in {"N", "C"} : parse_resv(l, k) PROVE Right
  <2>1. PICK k \in Named : \E m, seconds : Place(k, m, seconds)
    BY <1>3 DEF mo_xline, parse_resv, Named
  <2>2. k \notin DbKinds
    BY DEF DbKinds, Named
  <2> QED BY <2>1, <2>2, PlaceKeeps
<1>4. ASSUME remove_kline_match(l) \/ remove_dline_match(l) PROVE Right
  <2>1. \E k \in DbKinds : \E m : UnplaceAddress(k, m)
    BY <1>4 DEF remove_kline_match, remove_dline_match, DbKinds
  <2> QED BY <2>1, UnplaceAddressKeeps
<1>5. ASSUME remove_xline_exact(l) PROVE Right
  <2>1. \E i : Unplace("X", i, conf_free(bans, "X", i))
    BY <1>5 DEF remove_xline_exact, UnplaceName
  <2>2. "X" \notin DbKinds
    BY DEF DbKinds
  <2> QED BY <2>1, <2>2, UnplaceKeeps
<1>6. ASSUME remove_resv(l) PROVE Right
  <2>0. PICK i : i = find_exact_name_conf(bans, l.kind, l.arg)
    OBVIOUS
  <2>1. Unplace(l.kind, i, conf_free(bans, l.kind, i))
    BY <1>6, <2>0 DEF remove_resv, UnplaceName
  <2>2. i # 0
    BY <2>1 DEF Unplace
  <2>3. l.kind \in DbKinds => i \in DOMAIN bans[l.kind]
    BY <1>0, <2>0, <2>2, SearchFinds
  <2> QED BY <2>1, <2>3, UnplaceKeeps
<1>7. Right
  BY <1>1, <1>2, <1>3, <1>4, <1>5, <1>6 DEF Command
<1>8. /\ save = None /\ UNCHANGED <<disk, save, saved>>
      /\ banscene' = banscene \/ banscene' = [banscene EXCEPT !.steps = banscene.steps - 1]
  BY DEF Command, Spend, Busy
<1> QED BY <1>7, <1>8, KeptFrame

(* A vote places a G-line that is not there, or takes one away.            *)
LEMMA VoteKeeps ==
    ASSUME KeptInv, NEW t, NEW v, NEW m, Vote(t, v, m)
    PROVE  KeptInv'
<1> DEFINE Right == InForce' /\ placed' = [j \in PlacedKinds |-> placed'[j]]
<1>1. ASSUME UNCHANGED <<bans, placed, clients>> PROVE Right
  BY <1>1 DEF KeptInv, InForce, ByKind
<1>2. ASSUME Place("G", m, GlineTime), ~find_is_glined(m) PROVE Right
  <2>1. IsList(bans["G"])
    BY DEF KeptInv, InForce, Listing, DbKinds
  <2>2. \A i \in DOMAIN bans["G"] : bans["G"][i].mask # m
    BY <1>2, <2>1, SearchFinds DEF find_is_glined
  <2> QED BY <1>2, <2>2, PlaceKeeps
<1>3. ASSUME UnplaceAddress("G", m) PROVE Right
  BY <1>3, UnplaceAddressKeeps DEF DbKinds
<1>4. \/ UNCHANGED <<bans, placed, clients>>
      \/ Place("G", m, GlineTime) /\ ~find_is_glined(m)
      \/ UnplaceAddress("G", m)
  BY DEF Vote, check_majority, remove_gline_match
<1>5. Right
  BY <1>1, <1>2, <1>3, <1>4
<1>6. /\ save = None /\ UNCHANGED <<disk, save, saved>>
      /\ banscene' = banscene \/ banscene' = [banscene EXCEPT !.steps = banscene.steps - 1]
  BY DEF Vote, Spend, Busy
<1> QED BY <1>5, <1>6, KeptFrame

(* cleanup_tklines() takes an entry from the list and from the placed ones *)
(* at once.                                                                *)
LEMMA CleanupKeeps ==
    ASSUME KeptInv, cleanup_tklines
    PROVE  KeptInv'
<1>1. placed = [j \in PlacedKinds |-> placed[j]] /\ DbKinds \subseteq Kinds /\ DbKinds \subseteq PlacedKinds
  BY DEF KeptInv, ByKind, PlacedKinds, DbKinds, Kinds
<1>2. placed' = [j \in PlacedKinds |-> {p \in placed[j] : p[2] = 0 \/ p[2] > now}]
  BY <1>1 DEF cleanup_tklines
<1>3. DbKinds \subseteq DOMAIN bans'
  BY <1>1 DEF cleanup_tklines
<1>4. ASSUME NEW k \in DbKinds PROVE Listing(bans'[k], placed'[k])
  <2> DEFINE T == {e \in ToSet(bans[k]) : Current(e)}
             q == Keep(bans[k], T)
  <2>1. bans'[k] = q
    BY <1>1 DEF cleanup_tklines
  <2>2. Listing(bans[k], placed[k])
    BY DEF KeptInv, InForce
  <2>3. Listing(q, Pairs(q)) /\ ToSet(q) = ToSet(bans[k]) \cap T
    BY <2>2, ListingKeep
  <2> HIDE DEF q
  <2>4. placed[k] = Pairs(bans[k]) /\ placed'[k] = {p \in placed[k] : p[2] = 0 \/ p[2] > now}
    BY <1>1, <1>2, <2>2 DEF Listing
  <2>5. Pairs(q) = placed'[k]
    <3>1. ASSUME NEW x \in Pairs(q) PROVE x \in placed'[k]
      <4>1. PICK d \in ToSet(q) : d.db /\ x = <<d.mask, d.until>>
        BY DEF Pairs
      <4>2. d \in ToSet(bans[k]) /\ (d.until = 0 \/ d.until > now)
        BY <2>3, <4>1 DEF Current
      <4> QED BY <2>4, <4>1, <4>2 DEF Pairs
    <3>2. ASSUME NEW x \in placed'[k] PROVE x \in Pairs(q)
      <4>1. PICK d \in ToSet(bans[k]) : d.db /\ x = <<d.mask, d.until>>
        BY <2>4 DEF Pairs
      <4>2. d \in T
        BY <2>4, <4>1 DEF Current
      <4> QED BY <2>3, <4>1, <4>2 DEF Pairs
    <3> QED BY <3>1, <3>2
  <2> QED BY <2>1, <2>3, <2>5
<1>5. placed' = [j \in PlacedKinds |-> placed'[j]]
  BY <1>2
<1>6. save = None /\ UNCHANGED <<disk, save, saved, banscene>>
  BY DEF cleanup_tklines, Busy
<1>7. InForce'
  BY <1>3, <1>4 DEF InForce
<1> QED BY <1>5, <1>6, <1>7, KeptFrame

(* Reading a configuration adds nothing of the database.                   *)
LEMMA ReadKeeps ==
    ASSUME NEW k \in DbKinds, NEW B, NEW F, NEW S, k \in DOMAIN B, Listing(B[k], S), Plain(F[k])
    PROVE  k \in DOMAIN read_conf(B, F) /\ Listing(read_conf(B, F)[k], S)
<1>1. k \in Kinds /\ k \notin Named
  BY DEF Kinds, Named, DbKinds
<1>2. DOMAIN read_conf(B, F) = Kinds /\ read_conf(B, F)[k] = AddAll(B, k, F[k])[k]
  BY <1>1 DEF read_conf
<1>3. AddAll(B, k, F[k])[k] = B[k] \o F[k]
  BY <1>1 DEF AddAll
<1> QED BY <1>1, <1>2, <1>3, ListingJoin

(* REHASH clears what the configuration had, and reads it again.           *)
LEMMA RehashKeeps ==
    ASSUME KeptInv, NEW i \in DOMAIN banscene.confs, conf_rehash(banscene.confs[i])
    PROVE  KeptInv'
<1>1. ASSUME NEW k \in DbKinds PROVE k \in DOMAIN bans' /\ Listing(bans'[k], placed'[k])
  <2>1. k \in Kinds /\ k \notin Named
    BY DEF Kinds, Named, DbKinds
  <2> DEFINE T == {e \in ToSet(bans[k]) : e.until # 0 \/ e.db}
             B == clear_out_old_conf(bans)
  <2>2. k \in DOMAIN B /\ B[k] = Keep(bans[k], T)
    BY <2>1 DEF clear_out_old_conf, clear_out_address_conf
  <2>3. Listing(bans[k], placed[k])
    BY DEF KeptInv, InForce
  <2>4. Listing(Keep(bans[k], T), Pairs(Keep(bans[k], T))) /\ ToSet(Keep(bans[k], T)) = ToSet(bans[k]) \cap T
    BY <2>3, ListingKeep
  <2>5. Pairs(Keep(bans[k], T)) = placed[k]
    BY <2>3, <2>4 DEF Listing, Pairs
  <2>6. Plain(banscene.confs[i][k])
    BY DEF KeptInv, ConfsRight
  <2>7. bans' = read_conf(B, banscene.confs[i]) /\ placed' = placed
    BY DEF conf_rehash
  <2>8. Listing(B[k], placed[k])
    BY <2>2, <2>4, <2>5
  <2> HIDE DEF B
  <2> QED BY <2>2, <2>6, <2>7, <2>8, ReadKeeps
<1>2. InForce'
  BY <1>1 DEF InForce
<1>3. /\ save = None /\ UNCHANGED <<disk, save, saved, placed>>
      /\ banscene' = banscene \/ banscene' = [banscene EXCEPT !.steps = banscene.steps - 1]
  BY DEF conf_rehash, Spend, Busy
<1>4. placed' = [j \in PlacedKinds |-> placed'[j]]
  BY <1>3 DEF KeptInv, ByKind
<1> QED BY <1>2, <1>3, <1>4, KeptFrame

(* main() loads what the last finished save of each file had.              *)
LEMMA StartKeeps ==
    ASSUME KeptInv, NEW i \in DOMAIN banscene.confs, Start(banscene.confs[i])
    PROVE  KeptInv'
<1>0. <<>> \in Seq({}) /\ ToSet(<<>>) = {} /\ DOMAIN <<>> = {}
  BY DEF ToSet
<1>1. Listing(<<>>, {}) /\ IsList(<<>>)
  BY <1>0 DEF Listing, IsList, Once, Pairs
<1>2. ASSUME NEW k \in DbKinds PROVE k \in DOMAIN bans' /\ Listing(bans'[k], saved[k])
  <2>1. k \in Kinds /\ k \notin Named /\ k \in {"K", "D", "G", "X"}
    BY DEF Kinds, Named, DbKinds
  <2> DEFINE B == read_conf(Empty, banscene.confs[i])
             L == Loaded(k, 1)
  <2>2. k \in DOMAIN Empty /\ Empty[k] = <<>>
    BY <2>1 DEF Empty
  <2>3. Plain(banscene.confs[i][k])
    BY DEF KeptInv, ConfsRight
  <2>4. k \in DOMAIN B /\ B[k] = banscene.confs[i][k]
    <3>1. DOMAIN B = Kinds /\ B[k] = <<>> \o banscene.confs[i][k]
      BY <2>1, <2>2 DEF read_conf, AddAll
    <3>2. <<>> \o banscene.confs[i][k] = banscene.confs[i][k]
      BY <2>3 DEF Plain, IsList
    <3> QED BY <2>1, <3>1, <3>2
  <2>5. Listing(L, saved[k])
    BY <1>1 DEF KeptInv, OnDisk, Holds, Loaded
  <2> HIDE DEF B, L
  <2>6. k \in DOMAIN bans' /\ bans'[k] = AddAll(B, k, L)[k]
    BY <2>1 DEF Start, load_databases, B, L
  <2>7. bans'[k] = B[k] \o L
    BY <2>1, <2>4, <2>6 DEF AddAll
  <2> QED BY <2>3, <2>4, <2>5, <2>6, <2>7, ListingJoin
<1>3. placed' = saved /\ UNCHANGED <<disk, save, saved, banscene>>
  BY DEF Start
<1>4. save = None
  BY DEF Start, KeptInv, Saving
<1>5. placed' = [j \in PlacedKinds |-> placed'[j]]
  BY <1>3 DEF KeptInv, ByKind
<1>6. InForce'
  BY <1>2, <1>3 DEF InForce
<1> QED BY <1>3, <1>4, <1>5, <1>6, KeptFrame

(* The next file to save: nothing of it is written yet.                    *)
LEMMA NextFileFacts ==
    ASSUME Saving, save # None
    PROVE  /\ NextFile = [file |-> NextFile.file, step |-> NextFile.step, then |-> NextFile.then]
           /\ NextFile.file \in 1 .. 5 /\ NextFile.step # "close"
<1>1. save = [file |-> save.file, step |-> save.step, then |-> save.then] /\ save.file \in 1 .. 5
  BY DEF Saving
<1>2. Len(Files) = 5
  BY DEF Files
<1>3. CASE save.file = 5
  <2>1. NextFile = [file |-> save.file, step |-> "done", then |-> save.then]
    BY <1>1, <1>2, <1>3 DEF NextFile
  <2> QED BY <1>1, <2>1
<1>4. CASE save.file # 5
  <2>1. NextFile = [file |-> save.file + 1, step |-> "open", then |-> save.then]
    BY <1>1, <1>2, <1>4 DEF NextFile
  <2> QED BY <1>1, <1>4, <2>1
<1> QED BY <1>3, <1>4

(* What is written for a kind of address entry: those of the database.     *)
LEMMA ContentsFacts ==
    ASSUME InForce, NEW k \in DbKinds
    PROVE  /\ Contents(k) = [i \in {1} |-> Database(k)]
           /\ Listing(Database(k), placed[k]) /\ \A i \in DOMAIN Database(k) : Database(k)[i].db
<1>1. Of(k) = <<k>> /\ DOMAIN <<k>> = {1} /\ <<k>>[1] = k
  BY DEF Of, DbKinds
<1>2. Contents(k) = [i \in {1} |-> Database(k)]
  BY <1>1 DEF Contents
<1> DEFINE T == {e \in ToSet(bans[k]) : e.db}
<1>3. Listing(bans[k], placed[k])
  BY DEF InForce
<1>4. Database(k) = Keep(bans[k], T)
  BY DEF Database
<1>5. Listing(Database(k), Pairs(Database(k))) /\ ToSet(Database(k)) = ToSet(bans[k]) \cap T
  BY <1>3, <1>4, ListingKeep
<1>6. Pairs(Database(k)) = placed[k]
  BY <1>3, <1>5 DEF Listing, Pairs
<1>7. \A i \in DOMAIN Database(k) : Database(k)[i].db
  BY <1>5, ListFacts DEF Listing
<1> QED BY <1>2, <1>5, <1>6, <1>7

(* The steps of a save, and its failure: a file is replaced only by what   *)
(* is in force, and until then it is as it was.                            *)
LEMMA SaveKeeps ==
    ASSUME KeptInv, \A q : None # [i \in {1} |-> q], SaveStep \/ SaveFails
    PROVE  KeptInv'
<1>1. /\ save # None /\ up /\ save = [file |-> save.file, step |-> save.step, then |-> save.then]
      /\ save.file \in 1 .. 5
      /\ save.step = "close" /\ File \in DbKinds => disk[File].temp = Contents(File)
      /\ UNCHANGED <<bans, placed>>
  BY DEF KeptInv, Saving, SaveStep, SaveFails, Busy
<1>2. /\ NextFile = [file |-> NextFile.file, step |-> NextFile.step, then |-> NextFile.then]
      /\ NextFile.file \in 1 .. 5 /\ NextFile.step # "close"
  BY <1>1, NextFileFacts DEF KeptInv
<1>3. InForce' /\ ConfsRight(banscene')
  BY <1>1, ConfsStay DEF KeptInv, InForce, SaveStep, SaveFails
<1>4. DbKinds \subseteq DOMAIN disk /\ \A k \in DbKinds : /\ disk[k] = [main |-> disk[k].main, temp |-> disk[k].temp]
                                                          /\ Holds(disk[k].main, saved[k])
  BY DEF KeptInv, OnDisk
<1>5. ByKind
  BY DEF KeptInv
<1>6. ASSUME NEW x, disk' = [disk EXCEPT ![File] = [disk[File] EXCEPT !.temp = x]], UNCHANGED saved
      PROVE  OnDisk' /\ ByKind' /\ (File \in DbKinds => disk'[File].temp = x)
  <2>1. ASSUME NEW k \in DbKinds
        PROVE  /\ disk'[k] = [main |-> disk'[k].main, temp |-> disk'[k].temp] /\ disk'[k].main = disk[k].main
               /\ File = k => disk'[k].temp = x
    <3>0. disk[k] = [main |-> disk[k].main, temp |-> disk[k].temp]
      BY <1>4
    <3>1. CASE File = k
      <4>1. disk'[k] = [disk[k] EXCEPT !.temp = x]
        BY <1>4, <1>6, <3>1
      <4>2. [disk[k] EXCEPT !.temp = x] = [main |-> disk[k].main, temp |-> x]
        BY <3>0
      <4> QED BY <4>1, <4>2
    <3>2. CASE File # k
      <4>1. disk'[k] = disk[k]
        BY <1>4, <1>6, <3>2
      <4> QED BY <3>0, <3>2, <4>1
    <3> QED BY <3>1, <3>2
  <2>2. DOMAIN disk' = DOMAIN disk
    BY <1>6
  <2>4. OnDisk'
    <3>1. ASSUME NEW k \in DbKinds PROVE Holds(disk[k].main, saved[k])'
      <4>1. Holds(disk[k].main, saved[k])
        BY <1>4
      <4>2. disk'[k].main = disk[k].main /\ saved' = saved
        BY <1>6, <2>1
      <4> QED BY <4>1, <4>2 DEF Holds
    <3> QED BY <1>4, <2>1, <2>2, <3>1 DEF OnDisk
  <2> QED BY <1>1, <1>5, <1>6, <2>1, <2>4 DEF ByKind
<1>7. CASE save.step = "open" /\ open_db_write /\ save' = [save EXCEPT !.step = "write"] /\ UNCHANGED <<up, saved>>
  <2>1. disk' = [disk EXCEPT ![File] = [disk[File] EXCEPT !.temp = <<>>]]
    BY <1>7 DEF open_db_write
  <2>2. save' = [file |-> save.file, step |-> "write", then |-> save.then]
    BY <1>1, <1>7
  <2>3. Saving'
    BY <1>1, <1>7, <2>2 DEF Saving
  <2> QED BY <1>3, <1>6, <1>7, <2>1, <2>3 DEF KeptInv
<1>8. CASE save.step = "write" /\ Write /\ save' = [save EXCEPT !.step = "close"] /\ UNCHANGED <<up, saved>>
  <2>1. disk' = [disk EXCEPT ![File] = [disk[File] EXCEPT !.temp = Contents(File)]]
    BY <1>8 DEF Write
  <2>2. save' = [file |-> save.file, step |-> "close", then |-> save.then]
    BY <1>1, <1>8
  <2>3. File' = File
    BY <2>2 DEF File
  <2>4. Contents(File)' = Contents(File)
    BY <1>1, <2>3 DEF Contents, Database
  <2>5. OnDisk' /\ ByKind' /\ (File \in DbKinds => disk'[File].temp = Contents(File))
    BY <1>6, <1>8, <2>1
  <2>6. Saving'
    BY <1>1, <1>8, <2>2, <2>3, <2>4, <2>5 DEF Saving
  <2> QED BY <1>3, <2>5, <2>6 DEF KeptInv
<1>9. CASE /\ save.step = "close" /\ close_db /\ save' = NextFile /\ UNCHANGED up
           /\ saved' = [k \in DOMAIN saved |-> IF k \in Range(Of(File)) THEN placed[k] ELSE saved[k]]
  <2>1. disk' = [disk EXCEPT ![File] = [main |-> disk[File].temp, temp |-> None]]
    BY <1>9 DEF close_db
  <2>2. DOMAIN disk' = DOMAIN disk
    BY <2>1
  <2>3. ByKind'
    BY <1>1, <1>5, <1>9 DEF ByKind
  <2>4. ASSUME NEW k \in DbKinds
        PROVE  disk'[k] = [main |-> disk'[k].main, temp |-> disk'[k].temp] /\ Holds(disk'[k].main, saved'[k])
    <3>1. k \in DOMAIN saved
      BY <1>5 DEF ByKind, PlacedKinds
    <3>2. CASE File = k
      <4>1. disk'[k] = [main |-> Contents(k), temp |-> None]
        BY <1>1, <1>4, <1>9, <2>1, <3>2
      <4>2. /\ Contents(k) = [i \in {1} |-> Database(k)]
            /\ Listing(Database(k), placed[k]) /\ \A i \in DOMAIN Database(k) : Database(k)[i].db
        BY ContentsFacts DEF KeptInv
      <4>3. saved'[k] = placed[k]
        <5>1. Of(k) = <<k>> /\ <<k>>[1] = k /\ 1 \in DOMAIN <<k>>
          BY DEF Of, DbKinds
        <5>2. k \in Range(Of(File))
          BY <3>2, <5>1 DEF Range
        <5> QED BY <1>9, <3>1, <5>2
      <4>4. Contents(k)[1] = Database(k) /\ Contents(k) # None
        BY <4>2
      <4>5. Holds(Contents(k), placed[k])
        BY <4>2, <4>4 DEF Holds
      <4> QED BY <4>1, <4>3, <4>5
    <3>3. CASE File # k
      <4>1. disk'[k] = disk[k]
        BY <1>4, <2>1, <3>3
      <4>2. saved'[k] = saved[k]
        <5>1. k \notin Range(Of(File))
          <6>1. CASE File = "R"
            <7>1. Of(File) = <<"C", "N">> /\ DOMAIN <<"C", "N">> = {1, 2} /\ <<"C", "N">>[1] = "C" /\ <<"C", "N">>[2] = "N"
              BY <6>1 DEF Of
            <7>2. k # "C" /\ k # "N"
              BY DEF DbKinds
            <7> QED BY <7>1, <7>2 DEF Range
          <6>2. CASE File # "R"
            <7>1. Of(File) = <<File>> /\ DOMAIN <<File>> = {1} /\ <<File>>[1] = File
              BY <6>2 DEF Of
            <7> QED BY <3>3, <7>1 DEF Range
          <6> QED BY <6>1, <6>2
        <5> QED BY <1>9, <3>1, <5>1
      <4> QED BY <1>4, <4>1, <4>2
    <3> QED BY <3>2, <3>3
  <2>5. OnDisk'
    BY <1>4, <2>2, <2>4 DEF OnDisk, Holds
  <2>6. Saving'
    BY <1>1, <1>2, <1>9 DEF Saving
  <2> QED BY <1>3, <2>3, <2>5, <2>6 DEF KeptInv
<1>10. CASE save.step = "done" /\ save' = None /\ UNCHANGED <<saved, disk>>
  BY <1>1, <1>3, <1>10 DEF KeptInv, OnDisk, Holds, ByKind, Saving
<1>11. CASE restore_db /\ save' = NextFile /\ UNCHANGED <<up, saved>>
  <2>1. disk' = [disk EXCEPT ![File] = [disk[File] EXCEPT !.temp = None]]
    BY <1>11 DEF restore_db
  <2>2. Saving'
    BY <1>1, <1>2, <1>11 DEF Saving
  <2> QED BY <1>3, <1>6, <1>11, <2>1, <2>2 DEF KeptInv
<1> QED BY <1>7, <1>8, <1>9, <1>10, <1>11 DEF SaveStep, SaveFails

(* What leaves entries and databases alone.                                *)
LEMMA OthersKeep ==
    ASSUME KeptInv,
           \/ \E c \in Clients : conf_connect_allowed(c)
           \/ \E c \in Clients, g \in banscene.names : check_client(c, g) \/ m_rchg(c, g)
           \/ Tick \/ cleanup_glines \/ save_all_databases \/ server_die \/ Crash \/ UNCHANGED bansvars
    PROVE  KeptInv'
<1>1. UNCHANGED <<bans, disk, placed, saved>>
  BY DEF conf_connect_allowed, check_client, m_rchg, Tick, cleanup_glines, save_all_databases, server_die, Crash, bansvars
<1>2. banscene' = banscene \/ banscene' = [banscene EXCEPT !.steps = banscene.steps - 1]
  BY DEF conf_connect_allowed, check_client, m_rchg, Tick, cleanup_glines, save_all_databases, server_die, Crash,
         bansvars, Spend
<1>3. \/ save' = None
      \/ UNCHANGED <<save, up>>
      \/ up' /\ \E then : save' = [file |-> 1, step |-> "open", then |-> then]
  <2>1. CASE save_all_databases \/ server_die
    <3>1. up /\ UNCHANGED up
      BY <2>1, Zenon DEF save_all_databases, server_die, Spend
    <3>2. up'
      BY <3>1, Zenon
    <3>3. \E then : save' = [file |-> 1, step |-> "open", then |-> then]
      BY <2>1 DEF save_all_databases, server_die, Begin
    <3> QED BY <3>2, <3>3
  <2>2. CASE Crash
    BY <2>2 DEF Crash
  <2>3. CASE ~(save_all_databases \/ server_die \/ Crash)
    BY <2>3 DEF conf_connect_allowed, check_client, m_rchg, Tick, cleanup_glines, bansvars
  <2> QED BY <2>1, <2>2, <2>3
<1>4. Saving'
  <2>1. CASE save' = None
    BY <2>1 DEF Saving
  <2>2. CASE UNCHANGED <<save, up>>
    <3>1. File' = File /\ Contents(File)' = Contents(File)
      BY <1>1, <2>2 DEF File, Contents, Database
    <3> QED BY <1>1, <2>2, <3>1 DEF KeptInv, Saving
  <2>3. CASE up' /\ \E then : save' = [file |-> 1, step |-> "open", then |-> then]
    BY <2>3 DEF Saving
  <2> QED BY <1>3, <2>1, <2>2, <2>3
<1>5. ConfsRight(banscene')
  BY <1>2, ConfsStay DEF KeptInv
<1>6. InForce' /\ OnDisk' /\ ByKind'
  BY <1>1 DEF KeptInv, InForce, OnDisk, Holds, ByKind
<1> QED BY <1>4, <1>5, <1>6 DEF KeptInv

(* At the start: the configuration, and the G-lines of earlier votes.      *)
LEMMA KeptInit ==
    ASSUME InputsRight, BansInit
    PROVE  KeptInv
<1>1. ConfsRight(banscene) /\ 1 \in DOMAIN banscene.confs /\ IsFiniteSet(banscene.glined)
  <2>1. /\ "confs" \in DOMAIN banscene /\ 1 \in DOMAIN banscene.confs /\ IsFiniteSet(banscene.glined)
        /\ \A i \in DOMAIN banscene.confs : \A k \in DbKinds :
             banscene.confs[i][k] \in Seq({e \in ToSet(banscene.confs[i][k]) : ~e.db})
    BY DEF BansInit, InputsRight, ScenesRight, DbKinds
  <2>2. \A q : q \in Seq({e \in ToSet(q) : ~e.db}) => Plain(q)
    BY DEF Plain, IsList
  <2> QED BY <2>1, <2>2 DEF ConfsRight
<1> DEFINE f(m) == Entry(m, GlineTime, TRUE, {})
           G == {f(m) : m \in banscene.glined}
           B == read_conf(Empty, banscene.confs[1])
<1>2. IsFiniteSet(G)
  <2>1. [m \in banscene.glined |-> f(m)] \in Surjection(banscene.glined, G)
    BY DEF Surjection
  <2> QED BY <1>1, <2>1, FS_Surjection
<1>3. Listing(SetToSeq(G), banscene.glined \X {GlineTime})
  <2>1. \A e \in G : e.db /\ e.until = GlineTime /\ e.mask \in banscene.glined /\ e = f(e.mask)
    BY DEF Entry
  <2>2. \A m \in banscene.glined : f(m) \in G /\ f(m).mask = m
    BY DEF Entry
  <2> HIDE DEF f, G
  <2>3. PICK q : q = SetToSeq(G)
    OBVIOUS
  <2>4. IsList(q) /\ IsInjective(q) /\ ToSet(q) = G
    BY <1>2, <2>3, Listed
  <2>5. Once(q)
    <3> SUFFICES ASSUME NEW i \in DOMAIN q, NEW j \in DOMAIN q, q[i].mask = q[j].mask PROVE i = j
      BY DEF Once
    <3>1. q[i] \in G /\ q[j] \in G
      BY <2>4, ListFacts
    <3>2. q[i] = q[j]
      BY <2>1, <3>1
    <3> QED BY <2>4, <3>2 DEF IsInjective
  <2>6. Pairs(q) = banscene.glined \X {GlineTime}
    <3>1. ASSUME NEW x \in Pairs(q) PROVE x \in banscene.glined \X {GlineTime}
      BY <2>1, <2>4 DEF Pairs
    <3>2. ASSUME NEW x \in banscene.glined \X {GlineTime} PROVE x \in Pairs(q)
      <4>1. x = <<x[1], x[2]>> /\ x[1] \in banscene.glined /\ x[2] = GlineTime
        OBVIOUS
      <4>2. f(x[1]) \in G /\ f(x[1]).mask = x[1]
        BY <2>2, <4>1
      <4> QED BY <2>1, <2>4, <4>1, <4>2 DEF Pairs
    <3> QED BY <3>1, <3>2
  <2> QED BY <2>3, <2>4, <2>5, <2>6 DEF Listing
<1>4. bans = [B EXCEPT !["G"] = SetToSeq(G)]
  BY DEF BansInit
<1>5. /\ placed = [k \in PlacedKinds |-> IF k = "G" THEN banscene.glined \X {GlineTime} ELSE {}]
      /\ saved = [k \in DOMAIN placed |-> {}]
  BY DEF BansInit, PlacedKinds, DbKinds
<1>6. DbKinds \subseteq Kinds /\ DbKinds \subseteq PlacedKinds
  BY DEF DbKinds, Kinds, PlacedKinds
<1>7. DOMAIN B = Kinds
  BY DEF read_conf
<1> HIDE DEF G
<1>8. ASSUME NEW k \in DbKinds PROVE k \in DOMAIN bans /\ Listing(bans[k], placed[k])
  <2>1. CASE k = "G"
    BY <1>3, <1>4, <1>5, <1>6, <1>7, <2>1
  <2>2. CASE k # "G"
    <3>1. k \in DOMAIN Empty /\ Empty[k] = <<>>
      BY <1>6 DEF Empty
    <3>2. Listing(<<>>, {})
      <4>1. <<>> \in Seq({}) /\ ToSet(<<>>) = {} /\ DOMAIN <<>> = {}
        BY DEF ToSet
      <4> QED BY <4>1 DEF Listing, IsList, Once, Pairs
    <3>3. Plain(banscene.confs[1][k])
      BY <1>1 DEF ConfsRight
    <3>4. k \in DOMAIN B /\ Listing(B[k], {})
      BY <3>1, <3>2, <3>3, ReadKeeps
    <3> HIDE DEF B
    <3> QED BY <1>4, <1>5, <1>6, <2>2, <3>4
  <2> QED BY <2>1, <2>2
<1>9. OnDisk
  <2>1. disk = [d \in Range(Files) |-> [main |-> None, temp |-> None]]
    BY DEF BansInit
  <2>2. "K" = Files[1] /\ "D" = Files[2] /\ "G" = Files[3] /\ {1, 2, 3} \subseteq DOMAIN Files
    BY DEF Files
  <2>3. DbKinds \subseteq Range(Files)
    BY <2>2 DEF DbKinds, Range
  <2> QED BY <1>5, <1>6, <2>1, <2>3 DEF OnDisk, Holds
<1>10. Saving
  BY DEF BansInit, Saving
<1>11. ByKind
  BY <1>5 DEF ByKind
<1> QED BY <1>1, <1>8, <1>9, <1>10, <1>11 DEF KeptInv, InForce

(* Every step keeps the invariant.                                         *)
LEMMA KeptNext ==
    ASSUME InputsRight, KeptInv, [BansNext]_bansvars
    PROVE  KeptInv'
<1>1. CASE \E v \in Voters, m \in banscene.masks : mo_gline(v, m) \/ do_sungline(v, m)
  BY <1>1, VoteKeeps DEF mo_gline, do_sungline
<1>2. CASE \E l \in banscene.lines : Command(l)
  BY <1>2, CommandKeeps
<1>3. CASE cleanup_tklines
  BY <1>3, CleanupKeeps
<1>4. CASE \E i \in DOMAIN banscene.confs : conf_rehash(banscene.confs[i]) \/ Start(banscene.confs[i])
  BY <1>4, RehashKeeps, StartKeeps
<1>5. CASE SaveStep \/ SaveFails
  BY <1>5, SaveKeeps DEF InputsRight
<1>6. CASE \/ \E c \in Clients : conf_connect_allowed(c)
           \/ \E c \in Clients, g \in banscene.names : check_client(c, g) \/ m_rchg(c, g)
           \/ Tick \/ cleanup_glines \/ save_all_databases \/ server_die \/ Crash \/ UNCHANGED bansvars
  BY <1>6, OthersKeep
<1> QED BY <1>1, <1>2, <1>3, <1>4, <1>5, <1>6 DEF BansNext

(* BansKept for any masks, commands, configurations and limits: the K-, D- *)
(* and G-lines of the database in force are those placed and neither       *)
(* removed nor expired, each once, through REHASH, saves that fail, stop   *)
(* and start, and after a crash those of the last finished save            *)
(* (clear_out_address_conf(), conf_db.c).                                  *)
THEOREM BansStay ==
    ASSUME InputsRight
    PROVE  BansSpec => []BansKept
<1>1. BansInit => KeptInv
  BY KeptInit
<1>2. KeptInv /\ [BansNext]_bansvars => KeptInv'
  BY KeptNext
<1>3. KeptInv => BansKept
  <2> SUFFICES ASSUME KeptInv, NEW k \in DbKinds PROVE Kept(k)
    BY DEF BansKept, DbKinds
  <2>1. Listing(bans[k], placed[k])
    BY DEF KeptInv, InForce
  <2>2. Listing(Database(k), placed[k]) /\ \A i \in DOMAIN Database(k) : Database(k)[i].db
    BY ContentsFacts DEF KeptInv
  <2>3. Len(Database(k)) = Cardinality(placed[k])
    BY <2>2, ListingCount
  <2>4. {<<bans[k][i].mask, bans[k][i].until>> : i \in {j \in DOMAIN bans[k] : bans[k][j].db}} = Pairs(bans[k])
    BY DEF Pairs, ToSet
  <2> QED BY <2>1, <2>3, <2>4 DEF Kept, Listing
<1> QED BY <1>1, <1>2, <1>3, PTL DEF BansSpec

-----------------------------------------------------------------------------
(* The clients. An address, name or gecos that an entry of a list matches. *)
Hits(q, x) == \E e \in ToSet(q) : x \in Covers[e.mask]

(* What one client may be: no line is against it, but for what an          *)
(* exemption, a REHASH that stopped before the kind or an RCHG allows.     *)
Safe(B, r, c) ==
    /\ r = [at |-> r.at, gecos |-> r.gecos, ex |-> r.ex, rchg |-> r.rchg, skipped |-> r.skipped]
    /\ r.at \in {"off", "unknown", "local"}
    /\ r.at # "off" => (Hits(B["D"], c) => Hits(B["E"], c))
    /\ r.at = "local" =>
         /\ r.skipped \/ (Hits(B["K"], c) => "k" \in r.ex)
         /\ (r.skipped /\ Glines) \/ (Hits(B["G"], c) => r.ex # {})
         /\ r.skipped \/ r.rchg \/ ~Hits(B["X"], r.gecos)

(* The lists that the other invariant leaves out: exemptions are permanent,*)
(* and the X-lines in force and on disk are lists.                         *)
OtherLists(B) ==
    /\ "E" \in DOMAIN B /\ IsList(B["E"]) /\ \A e \in ToSet(B["E"]) : e.until = 0
    /\ "X" \in DOMAIN B /\ IsList(B["X"])
XOnDisk ==
    /\ "X" \in DOMAIN disk /\ disk["X"] = [main |-> disk["X"].main, temp |-> disk["X"].temp]
    /\ disk["X"].main # None => IsList(disk["X"].main[1])
    /\ save # None /\ save.step = "close" /\ File = "X" => IsList(disk["X"].temp[1])
OthersRight(s) ==
    \A i \in DOMAIN s.confs :
        /\ IsList(s.confs[i]["E"]) /\ \A e \in ToSet(s.confs[i]["E"]) : e.until = 0
        /\ IsList(s.confs[i]["X"]) /\ s.confs[i]["G"] = <<>>
ClientsSafe == clients = [c \in Clients |-> clients[c]] /\ \A c \in Clients : Safe(bans, clients[c], c)
NobodyOn == \A c \in Clients : clients[c] = Off
BarInv == OtherLists(bans) /\ ClientsSafe /\ (~up => NobodyOn) /\ XOnDisk /\ OthersRight(banscene)

(* A search finds an entry if there is one.                                *)
LEMMA HitsFound ==
    ASSUME NEW B, NEW k, NEW x, IsList(B[k])
    PROVE  find_conf_by_address(B, k, x) # 0 <=> Hits(B[k], x)
<1> DEFINE I == {i \in DOMAIN B[k] : x \in Covers[B[k][i].mask]}
<1>1. DOMAIN B[k] \subseteq Nat \ {0}
  BY ListFacts
<1>2. I \in SUBSET (Nat \ {0})
  BY <1>1
<1>3. FirstOf(I) = 0 <=> I = {}
  BY <1>2, FirstFound
<1>4. I = {} <=> ~Hits(B[k], x)
  BY DEF Hits, ToSet
<1>5. find_conf_by_address(B, k, x) = FirstOf(I)
  BY DEF find_conf_by_address
<1> QED BY <1>3, <1>4, <1>5

(* What the searches say of a client, when the lists are lists.            *)
LEMMA MatchedMeans ==
    ASSUME NEW B, NEW c, \A k \in {"K", "D", "G", "E", "X"} : IsList(B[k])
    PROVE  /\ \A k \in {"K", "D", "G"} : Matched(B, c, k) <=> Hits(B[k], c)
           /\ Matched(B, c, "X") <=> Hits(B["X"], clients[c].gecos)
           /\ Spared(B, c, "D") <=> Hits(B["E"], c)
           /\ Spared(B, c, "K") <=> "k" \in clients[c].ex
           /\ Spared(B, c, "G") <=> clients[c].ex # {}
           /\ ~Spared(B, c, "X")
<1>1. ASSUME NEW k \in {"K", "D", "G"} PROVE Matched(B, c, k) <=> Hits(B[k], c)
  <2>1. IsList(B[k]) /\ k # "X"
    OBVIOUS
  <2>2. find_conf_by_address(B, k, c) # 0 <=> Hits(B[k], c)
    BY <2>1, HitsFound
  <2> QED BY <2>1, <2>2 DEF Matched
<1>2. Matched(B, c, "X") <=> Hits(B["X"], clients[c].gecos)
  <2>1. IsList(B["X"])
    OBVIOUS
  <2>2. find_conf_by_address(B, "X", clients[c].gecos) # 0 <=> Hits(B["X"], clients[c].gecos)
    BY <2>1, HitsFound
  <2> QED BY <2>2 DEF Matched, find_matching_name_conf
<1>3. Spared(B, c, "D") <=> Hits(B["E"], c)
  <2>1. IsList(B["E"])
    OBVIOUS
  <2>2. find_conf_by_address(B, "E", c) # 0 <=> Hits(B["E"], c)
    BY <2>1, HitsFound
  <2> QED BY <2>2 DEF Spared
<1>4. (Spared(B, c, "K") <=> "k" \in clients[c].ex) /\ (Spared(B, c, "G") <=> clients[c].ex # {}) /\ ~Spared(B, c, "X")
  BY DEF Spared
<1> QED BY <1>1, <1>2, <1>3, <1>4

(* An entry that goes harms nobody, unless it is an exemption.             *)
LEMMA SafeStays ==
    ASSUME NEW B, NEW C, NEW r, NEW c, Safe(B, r, c), ToSet(B["E"]) \subseteq ToSet(C["E"]),
           \A k \in {"K", "D", "G", "X"} : ToSet(C[k]) \subseteq ToSet(B[k])
    PROVE  Safe(C, r, c)
<1>1. \A x : Hits(B["E"], x) => Hits(C["E"], x)
  BY DEF Hits
<1>2. \A k \in {"K", "D", "G", "X"} : \A x : Hits(C[k], x) => Hits(B[k], x)
  BY DEF Hits
<1> QED BY <1>1, <1>2 DEF Safe

(* A client that is off is safe.                                           *)
LEMMA OffSafe == \A B, c : Safe(B, Off, c)
BY DEF Safe, Off, Client

(* An entry at either end of a list.                                       *)
LEMMA ListAdd ==
    ASSUME NEW q, IsList(q), NEW e
    PROVE  /\ IsList(Append(q, e)) /\ ToSet(Append(q, e)) = ToSet(q) \cup {e}
           /\ IsList(<<e>> \o q) /\ ToSet(<<e>> \o q) = ToSet(q) \cup {e}
<1>1. PICK S : q \in Seq(S)
  BY DEF IsList
<1>2. q \in Seq(S \cup {e}) /\ e \in S \cup {e}
  BY <1>1
<1>3. Append(q, e) \in Seq(S \cup {e}) /\ DOMAIN Append(q, e) = 1 .. Len(q) + 1 /\ DOMAIN q = 1 .. Len(q) /\ Len(q) \in Nat
      /\ \A i \in 1 .. Len(q) + 1 : Append(q, e)[i] = IF i = Len(q) + 1 THEN e ELSE q[i]
  BY <1>2
<1>4. ToSet(Append(q, e)) = ToSet(q) \cup {e}
  <2>1. Len(q) + 1 \in 1 .. Len(q) + 1 /\ \A i \in 1 .. Len(q) : i \in 1 .. Len(q) + 1 /\ i # Len(q) + 1
    BY <1>3
  <2>2. \A i \in 1 .. Len(q) + 1 : i = Len(q) + 1 \/ i \in 1 .. Len(q)
    BY <1>3
  <2> QED BY <1>3, <2>1, <2>2 DEF ToSet
<1> QED BY <1>3, <1>4, ListSteps DEF IsList

(* The configurations stay, and the files as long as no save is on.        *)
LEMMA OthersStay ==
    ASSUME OthersRight(banscene), ConfsRight(banscene), banscene' = banscene \/ banscene' = [banscene EXCEPT !.steps = banscene.steps - 1]
    PROVE  OthersRight(banscene')
<1>1. banscene'.confs = banscene.confs
  BY DEF ConfsRight
<1> QED BY <1>1 DEF OthersRight

(* Nothing on disk changes while no file is closed.                        *)
LEMMA FilesStay ==
    ASSUME XOnDisk, UNCHANGED disk, UNCHANGED save \/ save' = None \/ save'.step # "close"
    PROVE  XOnDisk'
BY DEF XOnDisk, File

(* Nothing but steps of the scene, and what the step does, is left to show.*)
LEMMA BarFrame ==
    ASSUME BarInv, ConfsRight(banscene), OtherLists(bans'), ClientsSafe', UNCHANGED up \/ up' \/ NobodyOn', XOnDisk',
           ~up => UNCHANGED clients \/ NobodyOn',
           banscene' = banscene \/ banscene' = [banscene EXCEPT !.steps = banscene.steps - 1]
    PROVE  BarInv'
<1>1. OthersRight(banscene')
  BY OthersStay DEF BarInv
<1>2. (~up => NobodyOn)'
  BY DEF BarInv, NobodyOn
<1> QED BY <1>1, <1>2 DEF BarInv

(* Clients stay safe while entries that are not exemptions go.             *)
LEMMA FewerEntries ==
    ASSUME ClientsSafe, UNCHANGED clients \/ NobodyOn', clients' = [c \in Clients |-> clients'[c]],
           ToSet(bans["E"]) \subseteq ToSet(bans'["E"]),
           \A k \in {"K", "D", "G", "X"} : ToSet(bans'[k]) \subseteq ToSet(bans[k])
    PROVE  ClientsSafe'
<1>1. ASSUME NEW c \in Clients PROVE Safe(bans', clients'[c], c)
  <2>1. CASE UNCHANGED clients
    <3>1. Safe(bans, clients[c], c) /\ clients'[c] = clients[c]
      BY <2>1 DEF ClientsSafe
    <3> QED BY <3>1, SafeStays
  <2>2. CASE NobodyOn'
    BY <2>2, OffSafe DEF NobodyOn
  <2> QED BY <2>1, <2>2
<1> QED BY <1>1 DEF ClientsSafe, Safe

(* Place() strikes the clients that the new entry would bar.               *)
LEMMA PlaceBars ==
    ASSUME KeptInv, BarInv, NEW k \in {"K", "D", "G"} \cup Named, NEW m, NEW seconds, Place(k, m, seconds)
    PROVE  OtherLists(bans') /\ ClientsSafe'
<1>0. \A j \in {"K", "D", "G", "E", "X"} : j \in DOMAIN bans /\ IsList(bans[j])
  BY DEF KeptInv, InForce, Listing, DbKinds, BarInv, OtherLists
<1>1. PICK e : /\ e = Entry(m, IF seconds = 0 THEN 0 ELSE now + seconds, TRUE, {})
               /\ bans' = Add(bans, k, e) /\ clients' = Struck(k, m)
  BY DEF Place
<1>2. e.mask = m
  BY <1>1 DEF Entry
<1>3. ASSUME NEW j \in {"K", "D", "G", "E", "X"}
      PROVE  j \in DOMAIN bans' /\ IsList(bans'[j]) /\ ToSet(bans'[j]) = ToSet(bans[j]) \cup (IF j = k THEN {e} ELSE {})
  <2>1. CASE j = k
    <3>1. bans'[j] = <<e>> \o bans[j] \/ bans'[j] = Append(bans[j], e)
      BY <1>0, <1>1, <2>1 DEF Add, conf_make, add_conf_by_address
    <3>2. j \in DOMAIN bans'
      BY <1>0, <1>1 DEF Add, conf_make, add_conf_by_address
    <3>3. IsList(bans[j])
      BY <1>0
    <3>4. PICK q : q = bans[j]
      OBVIOUS
    <3>5. /\ IsList(Append(q, e)) /\ ToSet(Append(q, e)) = ToSet(q) \cup {e}
          /\ IsList(<<e>> \o q) /\ ToSet(<<e>> \o q) = ToSet(q) \cup {e}
      BY <3>3, <3>4, ListAdd
    <3>6. IsList(bans'[j]) /\ ToSet(bans'[j]) = ToSet(bans[j]) \cup {e}
      BY <3>1, <3>4, <3>5, Zenon
    <3> QED BY <2>1, <3>2, <3>6
  <2>2. CASE j # k
    BY <1>0, <1>1, <2>2 DEF Add, conf_make, add_conf_by_address
  <2> QED BY <2>1, <2>2
<1>4. k # "E"
  BY DEF Named
<1>5. OtherLists(bans')
  BY <1>3, <1>4 DEF BarInv, OtherLists
<1>6. ASSUME NEW c \in Clients PROVE Safe(bans', clients'[c], c)
  <2>1. CASE k \notin {"N", "C"} /\ Strikes(c, k, m)
    BY <1>1, <2>1, OffSafe DEF Struck
  <2>2. CASE k \notin {"N", "C"} /\ ~Strikes(c, k, m)
    <3>1. clients'[c] = clients[c]
      BY <1>1, <2>2 DEF Struck
    <3>2. Safe(bans, clients[c], c)
      BY DEF BarInv, ClientsSafe
    <3>3. /\ Spared(bans, c, "D") <=> Hits(bans["E"], c)
          /\ Spared(bans, c, "K") <=> "k" \in clients[c].ex
          /\ Spared(bans, c, "G") <=> clients[c].ex # {}
          /\ ~Spared(bans, c, "X")
      BY <1>0, MatchedMeans
    <3>4. \A j \in {"K", "D", "G", "E", "X"} : \A x : Hits(bans'[j], x) <=> Hits(bans[j], x) \/ (j = k /\ x \in Covers[m])
      BY <1>2, <1>3 DEF Hits
    <3>5. k \in {"K", "D", "G", "X"}
      BY <2>2 DEF Named
    <3>6. Hits(bans["E"], c) => Hits(bans'["E"], c)
      BY <3>4
    <3>7. CASE k = "D"
      <4>1. clients[c].at # "off" => c \notin Covers[m] \/ Hits(bans["E"], c)
        BY <2>2, <3>2, <3>3, <3>7 DEF Strikes, Safe
      <4> QED BY <3>1, <3>2, <3>4, <3>6, <3>7, <4>1 DEF Safe
    <3>8. CASE k = "K"
      <4>1. clients[c].at = "local" => c \notin Covers[m] \/ "k" \in clients[c].ex
        BY <2>2, <3>3, <3>8 DEF Strikes
      <4> QED BY <3>1, <3>2, <3>4, <3>6, <3>8, <4>1 DEF Safe
    <3>9. CASE k = "G"
      <4>1. clients[c].at = "local" => c \notin Covers[m] \/ clients[c].ex # {}
        BY <2>2, <3>3, <3>9 DEF Strikes
      <4> QED BY <3>1, <3>2, <3>4, <3>6, <3>9, <4>1 DEF Safe
    <3>10. CASE k = "X"
      <4>1. clients[c].at = "local" => clients[c].gecos \notin Covers[m]
        BY <2>2, <3>3, <3>10 DEF Strikes
      <4> QED BY <3>1, <3>2, <3>4, <3>6, <3>10, <4>1 DEF Safe
    <3> QED BY <3>5, <3>7, <3>8, <3>9, <3>10
  <2>3. CASE k \in {"N", "C"}
    <3>1. clients'[c] = clients[c]
      BY <1>1, <2>3 DEF Struck
    <3>2. Safe(bans, clients[c], c)
      BY DEF BarInv, ClientsSafe
    <3>3. \A j \in {"K", "D", "G", "E", "X"} : ToSet(bans'[j]) = ToSet(bans[j])
      BY <1>3, <2>3
    <3> QED BY <3>1, <3>2, <3>3, SafeStays
  <2> QED BY <2>1, <2>2, <2>3
<1>7. clients' = [c \in Clients |-> clients'[c]]
  BY <1>1 DEF Struck
<1> QED BY <1>5, <1>6, <1>7 DEF ClientsSafe, Safe

(* Unplace() of an entry that was found, or of none.                       *)
LEMMA UnplaceBars ==
    ASSUME KeptInv, BarInv, NEW k \in {"K", "D", "G"} \cup Named, NEW i, NEW B, Unplace(k, i, B),
           B = bans \/ B = conf_free(bans, k, i), k \in DbKinds \cup {"X"} => i \in DOMAIN bans[k]
    PROVE  OtherLists(bans') /\ ClientsSafe'
<1>0. \A j \in {"K", "D", "G", "E", "X"} : j \in DOMAIN bans /\ IsList(bans[j])
  BY DEF KeptInv, InForce, Listing, DbKinds, BarInv, OtherLists
<1>1. ASSUME NEW j \in {"K", "D", "G", "E", "X"}
      PROVE  /\ j \in DOMAIN bans' /\ IsList(bans'[j]) /\ ToSet(bans'[j]) \subseteq ToSet(bans[j])
             /\ j = "E" => bans'[j] = bans[j]
  <2>1. CASE bans' = bans
    BY <1>0, <2>1
  <2>2. CASE bans' = [bans EXCEPT ![k] = RemoveAt(bans[k], i)] /\ j = k
    <3>1. j # "E" /\ j \in DbKinds \cup {"X"}
      BY <2>2 DEF Named, DbKinds
    <3>2. bans'[j] = RemoveAt(bans[j], i) /\ j \in DOMAIN bans' /\ i \in DOMAIN bans[j]
      BY <1>0, <2>2, <3>1
    <3> QED BY <1>0, <3>1, <3>2, ListSteps
  <2>3. CASE bans' = [bans EXCEPT ![k] = RemoveAt(bans[k], i)] /\ j # k
    BY <1>0, <2>3
  <2> QED BY <2>1, <2>2, <2>3 DEF Unplace, conf_free
<1>2. OtherLists(bans')
  BY <1>1 DEF BarInv, OtherLists
<1>3. UNCHANGED clients
  BY DEF Unplace
<1>4. clients' = [c \in Clients |-> clients'[c]] /\ ClientsSafe
  BY <1>3 DEF BarInv, ClientsSafe
<1> QED BY <1>1, <1>2, <1>3, <1>4, FewerEntries

(* remove_kline_match(), remove_dline_match() and remove_gline_match().    *)
LEMMA UnplaceAddressBars ==
    ASSUME KeptInv, BarInv, NEW k \in {"K", "D", "G"}, NEW m, UnplaceAddress(k, m)
    PROVE  OtherLists(bans') /\ ClientsSafe'
<1>1. PICK i : i = find_placed(bans, k, m)
  OBVIOUS
<1>2. PICK B : B = delete_one_address_conf(bans, k, i, m)
  OBVIOUS
<1>3. Unplace(k, i, B)
  BY <1>1, <1>2 DEF UnplaceAddress
<1>4. i # 0
  BY <1>3 DEF Unplace
<1>5. IsList(bans[k])
  BY DEF KeptInv, InForce, Listing, DbKinds
<1>6. i \in DOMAIN bans[k]
  BY <1>1, <1>4, <1>5, SearchFinds
<1>7. B = bans \/ B = conf_free(bans, k, i)
  BY <1>2 DEF delete_one_address_conf
<1> QED BY <1>3, <1>6, <1>7, UnplaceBars

(* Commands and votes.                                                     *)
LEMMA CommandBars ==
    ASSUME KeptInv, BarInv, NEW l, Command(l)
    PROVE  BarInv'
<1> DEFINE Right == OtherLists(bans') /\ ClientsSafe'
<1>0. \A k \in {"K", "D", "G", "X"} : IsList(bans[k])
  BY DEF KeptInv, InForce, Listing, DbKinds, BarInv, OtherLists
<1>1. ASSUME mo_kline(l) \/ mo_dline(l) \/ mo_xline(l) \/ \E k \in {"N", "C"} : parse_resv(l, k) PROVE Right
  <2>1. PICK k \in {"K", "D", "G"} \cup Named : \E m, seconds : Place(k, m, seconds)
    BY <1>1 DEF mo_kline, mo_dline, mo_xline, parse_resv, Named
  <2> QED BY <2>1, PlaceBars
<1>2. ASSUME remove_kline_match(l) \/ remove_dline_match(l) PROVE Right
  <2>1. PICK k \in {"K", "D"} : \E m : UnplaceAddress(k, m)
    BY <1>2 DEF remove_kline_match, remove_dline_match
  <2> QED BY <2>1, UnplaceAddressBars
<1>3. ASSUME remove_xline_exact(l) PROVE Right
  <2> DEFINE I == {i \in DOMAIN bans["X"] : bans["X"][i].db /\ bans["X"][i].mask = l.arg}
  <2>1. Unplace("X", FirstOf(I), conf_free(bans, "X", FirstOf(I)))
    BY <1>3 DEF remove_xline_exact, UnplaceName
  <2>2. I \in SUBSET (Nat \ {0})
    BY <1>0, ListFacts
  <2>3. FirstOf(I) # 0
    BY <2>1 DEF Unplace
  <2>4. FirstOf(I) \in DOMAIN bans["X"]
    BY <2>2, <2>3, FirstFound
  <2>5. "X" \in Named
    BY DEF Named
  <2> QED BY <2>1, <2>4, <2>5, UnplaceBars
<1>4. ASSUME remove_resv(l) PROVE Right
  <2>1. PICK k \in {"N", "C"} : \E i : Unplace(k, i, conf_free(bans, k, i))
    BY <1>4 DEF remove_resv, UnplaceName
  <2>2. k \in Named /\ k \notin DbKinds \cup {"X"}
    BY DEF DbKinds, Named
  <2> QED BY <2>1, <2>2, UnplaceBars
<1>5. Right
  BY <1>1, <1>2, <1>3, <1>4 DEF Command
<1>6. /\ up /\ UNCHANGED <<disk, save, up>>
      /\ banscene' = banscene \/ banscene' = [banscene EXCEPT !.steps = banscene.steps - 1]
  BY DEF Command, Spend
<1>7. XOnDisk'
  BY <1>6, FilesStay DEF BarInv
<1> QED BY <1>5, <1>6, <1>7, BarFrame DEF KeptInv

(* A vote places, takes away or does neither.                              *)
LEMMA VoteBars ==
    ASSUME KeptInv, BarInv, NEW t, NEW v, NEW m, Vote(t, v, m)
    PROVE  BarInv'
<1> DEFINE Right == OtherLists(bans') /\ ClientsSafe'
<1>1. ASSUME UNCHANGED <<bans, placed, clients>> PROVE Right
  BY <1>1 DEF BarInv, OtherLists, ClientsSafe, Safe
<1>2. ASSUME Place("G", m, GlineTime) PROVE Right
  BY <1>2, PlaceBars
<1>3. ASSUME UnplaceAddress("G", m) PROVE Right
  BY <1>3, UnplaceAddressBars
<1>4. \/ UNCHANGED <<bans, placed, clients>>
      \/ Place("G", m, GlineTime)
      \/ UnplaceAddress("G", m)
  BY DEF Vote, check_majority, remove_gline_match
<1>5. Right
  BY <1>1, <1>2, <1>3, <1>4
<1>6. /\ up /\ UNCHANGED <<disk, save, up>>
      /\ banscene' = banscene \/ banscene' = [banscene EXCEPT !.steps = banscene.steps - 1]
  BY DEF Vote, Spend
<1>7. XOnDisk'
  BY <1>6, FilesStay DEF BarInv
<1> QED BY <1>5, <1>6, <1>7, BarFrame DEF KeptInv

(* cleanup_tklines() leaves exemptions alone, as they are permanent.       *)
LEMMA CleanupBars ==
    ASSUME KeptInv, BarInv, cleanup_tklines
    PROVE  BarInv'
<1>0. \A j \in {"K", "D", "G", "E", "X"} : IsList(bans[j])
  BY DEF KeptInv, InForce, Listing, DbKinds, BarInv, OtherLists
<1>1. ASSUME NEW j \in {"K", "D", "G", "E", "X"}
      PROVE  /\ j \in DOMAIN bans' /\ IsList(bans'[j])
             /\ ToSet(bans'[j]) = {e \in ToSet(bans[j]) : Current(e)}
  <2> DEFINE T == {e \in ToSet(bans[j]) : Current(e)}
  <2>1. j \in Kinds
    BY DEF Kinds, Named
  <2>2. j \in DOMAIN bans' /\ bans'[j] = Keep(bans[j], T)
    BY <2>1 DEF cleanup_tklines
  <2>3. IsList(bans[j])
    BY <1>0
  <2>4. IsList(Keep(bans[j], T)) /\ ToSet(Keep(bans[j], T)) = ToSet(bans[j]) \cap T
    BY <2>3, ListSteps
  <2> QED BY <2>2, <2>4
<1>2. \A e \in ToSet(bans["E"]) : Current(e)
  BY DEF BarInv, OtherLists, Current
<1>3. OtherLists(bans')
  BY <1>1 DEF BarInv, OtherLists
<1>4. UNCHANGED <<clients, up, disk, save, banscene>>
  BY DEF cleanup_tklines
<1>5. ClientsSafe'
  <2>1. clients' = [c \in Clients |-> clients'[c]] /\ ClientsSafe
    BY <1>4 DEF BarInv, ClientsSafe
  <2>2. ToSet(bans["E"]) \subseteq ToSet(bans'["E"])
    BY <1>1, <1>2
  <2>3. \A k \in {"K", "D", "G", "X"} : ToSet(bans'[k]) \subseteq ToSet(bans[k])
    BY <1>1
  <2> QED BY <1>4, <2>1, <2>2, <2>3, FewerEntries
<1>6. XOnDisk'
  BY <1>4, FilesStay DEF BarInv
<1> QED BY <1>3, <1>4, <1>5, <1>6, BarFrame DEF KeptInv

(* What connects and registers passes each kind once; RCHG is marked.      *)
LEMMA ClientBars ==
    ASSUME KeptInv, BarInv, NEW c \in Clients, conf_connect_allowed(c) \/ \E g : check_client(c, g) \/ m_rchg(c, g)
    PROVE  BarInv'
<1>0. \A j \in {"K", "D", "G", "E", "X"} : IsList(bans[j])
  BY DEF KeptInv, InForce, Listing, DbKinds, BarInv, OtherLists
<1>1. /\ up /\ UNCHANGED <<bans, up, disk, save>> /\ clients = [d \in Clients |-> clients[d]]
      /\ banscene' = banscene \/ banscene' = [banscene EXCEPT !.steps = banscene.steps - 1]
  BY DEF conf_connect_allowed, check_client, m_rchg, Spend, BarInv, ClientsSafe
<1>2. Safe(bans, clients[c], c)
  BY DEF BarInv, ClientsSafe
<1>3. /\ \A k \in {"K", "D", "G"} : Matched(bans, c, k) <=> Hits(bans[k], c)
      /\ Matched(bans, c, "X") <=> Hits(bans["X"], clients[c].gecos)
      /\ Spared(bans, c, "D") <=> Hits(bans["E"], c)
  BY <1>0, MatchedMeans
<1>4. ASSUME NEW r, clients' = [clients EXCEPT ![c] = r], Safe(bans, r, c) PROVE BarInv'
  <2>1. ASSUME NEW d \in Clients PROVE Safe(bans', clients'[d], d)
    <3>1. Safe(bans, clients[d], d)
      BY DEF BarInv, ClientsSafe
    <3>2. clients'[d] = IF d = c THEN r ELSE clients[d]
      BY <1>1, <1>4
    <3> QED BY <1>1, <1>4, <3>1, <3>2
  <2>2. clients' = [d \in Clients |-> clients'[d]]
    BY <1>1, <1>4
  <2>3. ClientsSafe'
    BY <2>1, <2>2 DEF ClientsSafe, Safe
  <2>4. XOnDisk'
    BY <1>1, FilesStay DEF BarInv
  <2>5. OtherLists(bans')
    BY <1>1 DEF BarInv
  <2> QED BY <1>1, <2>3, <2>4, <2>5, BarFrame DEF KeptInv
<1>5. CASE conf_connect_allowed(c)
  <2> DEFINE r == [at |-> "unknown", gecos |-> None, ex |-> {}, rchg |-> FALSE, skipped |-> FALSE]
  <2>1. clients' = [clients EXCEPT ![c] = r]
    BY <1>5 DEF conf_connect_allowed, Client
  <2>2. Hits(bans["D"], c) => Hits(bans["E"], c)
    <3>1. (find_conf_by_address(bans, "E", c) # 0 <=> Hits(bans["E"], c)) /\ (find_conf_by_address(bans, "D", c) # 0 <=> Hits(bans["D"], c))
      BY <1>0, HitsFound
    <3> QED BY <1>5, <3>1 DEF conf_connect_allowed
  <2>3. Safe(bans, r, c)
    BY <2>2 DEF Safe
  <2> QED BY <1>4, <2>1, <2>3
<1>6. ASSUME NEW g, check_client(c, g) PROVE BarInv'
  <2> DEFINE ex == find_address_conf(c)
             r == [at |-> "local", gecos |-> g, ex |-> ex, rchg |-> FALSE, skipped |-> FALSE]
  <2>1. CASE ex = None \/ find_matching_name_conf(bans, "X", g) # 0
    <3>1. clients' = [clients EXCEPT ![c] = Off]
      BY <1>6, <2>1 DEF check_client
    <3> QED BY <1>4, <3>1, OffSafe
  <2>2. CASE ~(ex = None \/ find_matching_name_conf(bans, "X", g) # 0)
    <3>1. clients' = [clients EXCEPT ![c] = r]
      BY <1>6, <2>2 DEF check_client, Client
    <3>2. ("k" \in ex \/ ~Matched(bans, c, "K")) /\ (ex # {} \/ ~Matched(bans, c, "G"))
      BY <2>2 DEF find_address_conf
    <3>3. ~Hits(bans["X"], g)
      <4>1. find_conf_by_address(bans, "X", g) # 0 <=> Hits(bans["X"], g)
        BY <1>0, HitsFound
      <4> QED BY <2>2, <4>1 DEF find_matching_name_conf
    <3>4. clients[c].at = "unknown"
      BY <1>6 DEF check_client
    <3> HIDE DEF ex
    <3>5. Safe(bans, r, c)
      BY <1>2, <1>3, <3>2, <3>3, <3>4 DEF Safe
    <3> QED BY <1>4, <3>1, <3>5
  <2> QED BY <2>1, <2>2
<1>7. ASSUME NEW g, m_rchg(c, g) PROVE BarInv'
  <2> DEFINE o == clients[c]
             r == [at |-> o.at, gecos |-> g, ex |-> o.ex, rchg |-> TRUE, skipped |-> o.skipped]
  <2>1. CASE g \in BlankNames
    <3>1. clients' = [clients EXCEPT ![c] = Off]
      BY <1>7, <2>1 DEF m_rchg
    <3> QED BY <1>4, <3>1, OffSafe
  <2>2. CASE g \notin BlankNames
    <3>1. clients' = [clients EXCEPT ![c] = r]
      BY <1>7, <2>2 DEF m_rchg, Client
    <3>2. Safe(bans, r, c)
      BY <1>2 DEF Safe
    <3> QED BY <1>4, <3>1, <3>2
  <2> QED BY <2>1, <2>2
<1> QED BY <1>5, <1>6, <1>7

(* Two lists, and one turned round.                                        *)
LEMMA ListJoins ==
    ASSUME NEW q, NEW c, IsList(q), IsList(c)
    PROVE  IsList(q \o c) /\ ToSet(q \o c) = ToSet(q) \cup ToSet(c) /\ IsList(Reverse(q))
<1>1. PICK T1 : q \in Seq(T1)
  BY DEF IsList
<1>2. PICK T2 : c \in Seq(T2)
  BY DEF IsList
<1>3. PICK T : q \in Seq(T) /\ c \in Seq(T)
  <2>1. q \in Seq(T1 \cup T2) /\ c \in Seq(T1 \cup T2)
    BY <1>1, <1>2
  <2> QED BY <2>1
<1> DEFINE r == q \o c
<1>4. /\ r \in Seq(T) /\ Len(q) \in Nat /\ Len(c) \in Nat
      /\ DOMAIN q = 1 .. Len(q) /\ DOMAIN c = 1 .. Len(c) /\ DOMAIN r = 1 .. Len(q) + Len(c)
      /\ \A i \in DOMAIN q : r[i] = q[i]
  BY <1>3
<1>5. \A i \in DOMAIN c : r[Len(q) + i] = c[i]
  BY <1>3, <1>4, SecondPart
<1> HIDE DEF r
<1>6. ASSUME NEW i \in DOMAIN r PROVE r[i] \in ToSet(q) \cup ToSet(c)
  <2>1. CASE i \in DOMAIN q
    BY <1>4, <2>1 DEF ToSet
  <2>2. CASE i \notin DOMAIN q
    <3>1. i - Len(q) \in DOMAIN c /\ i = Len(q) + (i - Len(q))
      BY <1>4, <2>2
    <3>2. r[i] = c[i - Len(q)]
      BY <1>5, <3>1
    <3> QED BY <3>1, <3>2 DEF ToSet
  <2> QED BY <2>1, <2>2
<1>7. ASSUME NEW i \in DOMAIN c PROVE c[i] \in ToSet(r)
  <2>1. Len(q) + i \in DOMAIN r /\ r[Len(q) + i] = c[i]
    BY <1>4, <1>5
  <2> QED BY <2>1 DEF ToSet
<1>8. \A i \in DOMAIN q : q[i] \in ToSet(r)
  BY <1>4 DEF ToSet
<1>9. ToSet(r) = ToSet(q) \cup ToSet(c)
  BY <1>6, <1>7, <1>8 DEF ToSet
<1>10. Reverse(q) \in Seq(T)
  BY <1>3, <1>4 DEF Reverse
<1> QED BY <1>4, <1>9, <1>10 DEF IsList, r

(* A REHASH removes a client that the first kind to match it bars, and     *)
(* marks one that it spares without a look at the other kinds.             *)
LEMMA RehashStrikes ==
    ASSUME NEW B, NEW c \in Clients, \A j \in {"K", "D", "G", "E", "X"} : IsList(B[j]), None \notin Kinds,
           NEW C, Safe(C, clients[c], c), ToSet(B["G"]) \subseteq ToSet(C["G"])
    PROVE  Safe(B, check_conf_klines(B)[c], c)
<1>1. PICK o : o = clients[c]
  OBVIOUS
<1>2. /\ o = [at |-> o.at, gecos |-> o.gecos, ex |-> o.ex, rchg |-> o.rchg, skipped |-> o.skipped]
      /\ o.at \in {"off", "unknown", "local"}
      /\ o.at = "local" /\ ~Glines => (Hits(B["G"], c) => o.ex # {})
  BY <1>1 DEF Safe, Hits
<1>3. PICK k : k = FirstKind(B, c)
  OBVIOUS
<1>4. /\ \A j \in {"K", "D", "G"} : Matched(B, c, j) <=> Hits(B[j], c)
      /\ Matched(B, c, "X") <=> Hits(B["X"], o.gecos)
      /\ Spared(B, c, "D") <=> Hits(B["E"], c)
      /\ ~Spared(B, c, "X")
  BY <1>1, MatchedMeans
<1>5. Spared(B, c, "K") <=> "k" \in o.ex
  BY <1>1, MatchedMeans
<1>6. Spared(B, c, "G") <=> o.ex # {}
  BY <1>1, MatchedMeans
<1>a. CASE o.at = "off"
  <2>1. PICK s : check_conf_klines(B)[c] = [at |-> o.at, gecos |-> o.gecos, ex |-> o.ex, rchg |-> o.rchg, skipped |-> s]
    BY <1>1, <1>a DEF check_conf_klines, Client
  <2> QED BY <1>a, <2>1 DEF Safe
<1>b. CASE o.at # "off" /\ k = None
  <2>1. check_conf_klines(B)[c] = [at |-> o.at, gecos |-> o.gecos, ex |-> o.ex, rchg |-> o.rchg, skipped |-> FALSE]
    BY <1>1, <1>3, <1>b DEF check_conf_klines, Client
  <2>2. /\ ~Hits(B["D"], c)
        /\ o.at = "local" => ~Hits(B["K"], c) /\ (Glines => ~Hits(B["G"], c)) /\ ~Hits(B["X"], o.gecos)
    <3>1. None \notin {"D", "G", "K", "X"}
      BY DEF Kinds, Named
    <3> QED BY <1>1, <1>3, <1>4, <1>b, <3>1 DEF FirstKind
  <2> QED BY <1>2, <1>b, <2>1, <2>2 DEF Safe
<1>c. CASE o.at # "off" /\ k # None /\ Spared(B, c, k)
  <2>1. check_conf_klines(B)[c] = [at |-> o.at, gecos |-> o.gecos, ex |-> o.ex, rchg |-> o.rchg, skipped |-> TRUE]
    BY <1>1, <1>3, <1>c DEF check_conf_klines, Client
  <2>2. Hits(B["D"], c) => Hits(B["E"], c)
    BY <1>3, <1>4, <1>c DEF FirstKind
  <2> QED BY <1>2, <1>c, <2>1, <2>2 DEF Safe
<1>d. CASE o.at # "off" /\ k # None /\ ~Spared(B, c, k)
  <2>1. check_conf_klines(B)[c] = Off
    BY <1>1, <1>3, <1>d DEF check_conf_klines
  <2> QED BY <2>1, OffSafe
<1> QED BY <1>a, <1>b, <1>c, <1>d

(* conf_rehash(): no exemption but those of the configuration and the      *)
(* permanent ones of before, and no G-line that was not there.             *)
LEMMA RehashBars ==
    ASSUME InputsRight, KeptInv, KeptInv', BarInv, NEW i \in DOMAIN banscene.confs, conf_rehash(banscene.confs[i])
    PROVE  BarInv'
<1> DEFINE F == banscene.confs[i]
           B == clear_out_old_conf(bans)
           E == {e \in ToSet(bans["E"]) : e.until # 0 \/ e.db}
           G == {e \in ToSet(bans["G"]) : e.until # 0 \/ e.db}
<1>1. /\ IsList(F["E"]) /\ \A e \in ToSet(F["E"]) : e.until = 0
      /\ IsList(F["X"]) /\ F["G"] = <<>>
  BY DEF BarInv, OthersRight
<1>2. /\ {"E", "G", "X"} \subseteq Kinds /\ "E" \notin Named /\ "G" \notin Named /\ "X" \in Named
  BY DEF Kinds, Named
<1>3. bans' = read_conf(B, F) /\ clients' = check_conf_klines(bans')
  BY DEF conf_rehash
<1>4. DOMAIN B = Kinds /\ B["E"] = Keep(bans["E"], E) /\ B["G"] = Keep(bans["G"], G) /\ B["X"] = <<>>
  BY <1>2 DEF clear_out_old_conf, clear_out_address_conf
<1> HIDE DEF B
<1>5. DOMAIN bans' = Kinds /\ \A k \in Kinds : bans'[k] = AddAll(B, k, F[k])[k]
  BY <1>3 DEF read_conf
<1>6. bans'["E"] = B["E"] \o F["E"] /\ bans'["G"] = B["G"] \o F["G"] /\ bans'["X"] = Reverse(F["X"]) \o B["X"]
  BY <1>2, <1>4, <1>5 DEF AddAll
<1>7. IsList(bans["E"]) /\ (\A e \in ToSet(bans["E"]) : e.until = 0) /\ IsList(bans["G"])
  BY DEF BarInv, OtherLists, KeptInv, InForce, Listing, DbKinds
<1>8. IsList(B["E"]) /\ ToSet(B["E"]) = ToSet(bans["E"]) \cap E
  BY <1>4, <1>7, ListSteps
<1>9. IsList(B["G"]) /\ ToSet(B["G"]) = ToSet(bans["G"]) \cap G
  BY <1>4, <1>7, ListSteps
<1>0. IsList(<<>>) /\ ToSet(<<>>) = {}
  <2>1. <<>> \in Seq({}) /\ ToSet(<<>>) = {}
    BY DEF ToSet
  <2> QED BY <2>1 DEF IsList
<1>10. IsList(bans'["E"]) /\ \A e \in ToSet(bans'["E"]) : e.until = 0
  <2>1. IsList(bans'["E"]) /\ ToSet(bans'["E"]) = ToSet(B["E"]) \cup ToSet(F["E"])
    BY <1>1, <1>6, <1>8, ListJoins
  <2> QED BY <1>1, <1>7, <1>8, <2>1
<1>11. IsList(bans'["X"])
  <2>1. IsList(Reverse(F["X"]))
    BY <1>1, ListJoins
  <2> QED BY <1>0, <1>4, <1>6, <2>1, ListJoins
<1>12. ToSet(bans'["G"]) \subseteq ToSet(bans["G"])
  <2>1. ToSet(bans'["G"]) = ToSet(B["G"]) \cup ToSet(<<>>)
    BY <1>0, <1>1, <1>6, <1>9, ListJoins
  <2> QED BY <1>0, <1>9, <2>1
<1>13. OtherLists(bans')
  BY <1>2, <1>5, <1>10, <1>11 DEF OtherLists
<1>14. \A j \in {"K", "D", "G", "E", "X"} : IsList(bans'[j])
  BY <1>10, <1>11 DEF KeptInv, InForce, Listing, DbKinds
<1>15. ASSUME NEW c \in Clients PROVE Safe(bans', clients'[c], c)
  <2>1. Safe(bans, clients[c], c)
    BY DEF BarInv, ClientsSafe
  <2> QED BY <1>3, <1>12, <1>14, <2>1, RehashStrikes DEF InputsRight
<1>16. clients' = [c \in Clients |-> clients'[c]]
  BY <1>3 DEF check_conf_klines
<1>17. ClientsSafe'
  BY <1>15, <1>16 DEF ClientsSafe, Safe
<1>18. /\ up /\ UNCHANGED <<disk, save, up>>
       /\ banscene' = banscene \/ banscene' = [banscene EXCEPT !.steps = banscene.steps - 1]
  BY DEF conf_rehash, Spend
<1>19. XOnDisk'
  BY <1>18, FilesStay DEF BarInv
<1> QED BY <1>13, <1>17, <1>18, <1>19, BarFrame DEF KeptInv

(* Start(): nobody is on, and the files hold lists.                        *)
LEMMA StartBars ==
    ASSUME InputsRight, KeptInv, BarInv, NEW i \in DOMAIN banscene.confs, Start(banscene.confs[i])
    PROVE  BarInv'
<1> DEFINE F == banscene.confs[i]
           B == read_conf(Empty, F)
           L == Loaded("X", 1)
<1>1. /\ IsList(F["E"]) /\ \A e \in ToSet(F["E"]) : e.until = 0
      /\ IsList(F["X"])
  BY DEF BarInv, OthersRight
<1>0. IsList(<<>>) /\ ToSet(<<>>) = {}
  <2>1. <<>> \in Seq({}) /\ ToSet(<<>>) = {}
    BY DEF ToSet
  <2> QED BY <2>1 DEF IsList
<1>2. {"E", "X"} \subseteq Kinds /\ "E" \notin Named /\ "X" \in Named
  BY DEF Kinds, Named
<1>3. bans' = load_databases(B) /\ ~up /\ UNCHANGED <<clients, disk, save, banscene>> /\ up'
  BY DEF Start
<1>4. DOMAIN Empty = Kinds /\ Empty["E"] = <<>> /\ Empty["X"] = <<>>
  BY <1>2 DEF Empty
<1>5. DOMAIN B = Kinds /\ B["E"] = <<>> \o F["E"] /\ B["X"] = Reverse(F["X"]) \o <<>>
  BY <1>2, <1>4 DEF read_conf, AddAll
<1> HIDE DEF B
<1>6. IsList(B["E"]) /\ ToSet(B["E"]) = ToSet(F["E"])
  BY <1>0, <1>1, <1>5, ListJoins
<1>7. IsList(B["X"])
  <2>1. IsList(Reverse(F["X"]))
    BY <1>1, ListJoins
  <2> QED BY <1>0, <1>5, <2>1, ListJoins
<1>8. IsList(L)
  BY <1>0 DEF Loaded, BarInv, XOnDisk
<1> HIDE DEF L
<1>9. /\ DOMAIN bans' = Kinds /\ bans'["E"] = B["E"] /\ bans'["X"] = AddAll(B, "X", L)["X"]
  BY <1>2, <1>3 DEF load_databases, L
<1>10. bans'["X"] = Reverse(L) \o B["X"]
  BY <1>2, <1>5, <1>9 DEF AddAll
<1>11. IsList(bans'["X"])
  <2>1. IsList(Reverse(L))
    BY <1>8, ListJoins
  <2> QED BY <1>7, <1>10, <2>1, ListJoins
<1>12. OtherLists(bans')
  BY <1>1, <1>2, <1>6, <1>9, <1>11 DEF OtherLists
<1>13. NobodyOn'
  BY <1>3 DEF BarInv, NobodyOn
<1>14. ClientsSafe'
  <2>1. \A c \in Clients : Safe(bans', clients'[c], c)
    BY <1>13, OffSafe DEF NobodyOn
  <2>2. clients' = [c \in Clients |-> clients'[c]]
    BY <1>3 DEF BarInv, ClientsSafe
  <2> QED BY <2>1, <2>2 DEF ClientsSafe, Safe
<1>15. XOnDisk'
  BY <1>3, FilesStay DEF BarInv
<1> QED BY <1>3, <1>12, <1>13, <1>14, <1>15, BarFrame DEF KeptInv

(* The steps of a save, and its failure: what is written of the X-lines is *)
(* a list, and a server that has stopped has no clients.                   *)
LEMMA SaveBars ==
    ASSUME KeptInv, BarInv, SaveStep \/ SaveFails
    PROVE  BarInv'
<1>1. /\ save # None /\ up /\ save = [file |-> save.file, step |-> save.step, then |-> save.then]
      /\ UNCHANGED bans /\ (banscene' = banscene \/ banscene' = [banscene EXCEPT !.steps = banscene.steps - 1])
  BY DEF KeptInv, Saving, SaveStep, SaveFails, Busy
<1>2. NextFile.step # "close"
  BY <1>1, NextFileFacts DEF KeptInv
<1>3. /\ "X" \in DOMAIN disk /\ disk["X"] = [main |-> disk["X"].main, temp |-> disk["X"].temp]
      /\ disk["X"].main # None => IsList(disk["X"].main[1])
      /\ save.step = "close" /\ File = "X" => IsList(disk["X"].temp[1])
  BY <1>1 DEF BarInv, XOnDisk
<1>4. OtherLists(bans')
  BY <1>1 DEF BarInv
<1>5. ASSUME NEW x, disk' = [disk EXCEPT ![File] = [disk[File] EXCEPT !.temp = x]]
      PROVE  /\ "X" \in DOMAIN disk' /\ disk'["X"] = [main |-> disk'["X"].main, temp |-> disk'["X"].temp]
             /\ disk'["X"].main # None => IsList(disk'["X"].main[1])
             /\ File = "X" => disk'["X"].temp = x
  <2>1. CASE File = "X"
    <3>1. disk'["X"] = [disk["X"] EXCEPT !.temp = x] /\ "X" \in DOMAIN disk'
      BY <1>3, <1>5, <2>1
    <3>2. [disk["X"] EXCEPT !.temp = x] = [main |-> disk["X"].main, temp |-> x]
      BY <1>3
    <3> QED BY <1>3, <3>1, <3>2
  <2>2. CASE File # "X"
    BY <1>3, <1>5, <2>2
  <2> QED BY <2>1, <2>2
<1>6. UNCHANGED clients => ClientsSafe'
  BY <1>1 DEF BarInv, ClientsSafe, Safe
<1>7. CASE save.step = "open" /\ open_db_write /\ save' = [save EXCEPT !.step = "write"] /\ UNCHANGED <<up, saved, clients>>
  <2>1. disk' = [disk EXCEPT ![File] = [disk[File] EXCEPT !.temp = <<>>]]
    BY <1>7 DEF open_db_write
  <2>2. save' = [file |-> save.file, step |-> "write", then |-> save.then]
    BY <1>1, <1>7
  <2>3. XOnDisk'
    BY <1>5, <2>1, <2>2 DEF XOnDisk
  <2> QED BY <1>1, <1>4, <1>6, <1>7, <2>3, BarFrame DEF KeptInv
<1>8. CASE save.step = "write" /\ Write /\ save' = [save EXCEPT !.step = "close"] /\ UNCHANGED <<up, saved, clients>>
  <2>1. disk' = [disk EXCEPT ![File] = [disk[File] EXCEPT !.temp = Contents(File)]]
    BY <1>8 DEF Write
  <2>2. save' = [file |-> save.file, step |-> "close", then |-> save.then]
    BY <1>1, <1>8
  <2>3. File' = File
    BY <2>2 DEF File
  <2>4. File = "X" => IsList(Contents(File)[1])
    <3>1. Of("X") = <<"X">> /\ DOMAIN <<"X">> = {1} /\ <<"X">>[1] = "X"
      BY DEF Of
    <3>2. Contents("X") = [i \in {1} |-> Database("X")]
      BY <3>1 DEF Contents
    <3>3. IsList(bans["X"])
      BY DEF BarInv, OtherLists
    <3>4. IsList(Database("X"))
      BY <3>3, ListSteps DEF Database
    <3> QED BY <3>2, <3>4
  <2>5. XOnDisk'
    BY <1>5, <2>1, <2>2, <2>3, <2>4 DEF XOnDisk
  <2> QED BY <1>1, <1>4, <1>6, <1>8, <2>5, BarFrame DEF KeptInv
<1>9. CASE save.step = "close" /\ close_db /\ save' = NextFile /\ UNCHANGED <<up, clients>>
  <2>1. disk' = [disk EXCEPT ![File] = [main |-> disk[File].temp, temp |-> None]]
    BY <1>9 DEF close_db
  <2>2. XOnDisk'
    <3>1. CASE File = "X"
      <4>1. "X" \in DOMAIN disk' /\ disk'["X"] = [main |-> disk["X"].temp, temp |-> None]
        BY <1>3, <2>1, <3>1
      <4> QED BY <1>2, <1>3, <1>9, <3>1, <4>1 DEF XOnDisk
    <3>2. CASE File # "X"
      <4>1. "X" \in DOMAIN disk' /\ disk'["X"] = disk["X"]
        BY <1>3, <2>1, <3>2
      <4> QED BY <1>2, <1>3, <1>9, <4>1 DEF XOnDisk
    <3> QED BY <3>1, <3>2
  <2> QED BY <1>1, <1>4, <1>6, <1>9, <2>2, BarFrame DEF KeptInv
<1>10. CASE /\ save.step = "done" /\ save' = None /\ up' = (save.then = "run") /\ UNCHANGED <<saved, disk>>
            /\ clients' = IF save.then = "run" THEN clients ELSE [c \in Clients |-> Off]
  <2>1. XOnDisk'
    BY <1>10, FilesStay DEF BarInv
  <2>2. CASE save.then = "run"
    <3>1. up' /\ UNCHANGED clients
      BY <1>10, <2>2
    <3> QED BY <1>1, <1>4, <1>6, <2>1, <3>1, BarFrame DEF KeptInv
  <2>3. CASE save.then # "run"
    <3>1. clients' = [c \in Clients |-> Off]
      BY <1>10, <2>3
    <3>2. NobodyOn' /\ clients' = [c \in Clients |-> clients'[c]]
      BY <3>1 DEF NobodyOn
    <3>3. ClientsSafe'
      BY <3>2, OffSafe DEF NobodyOn, ClientsSafe, Safe
    <3> QED BY <1>1, <1>4, <2>1, <3>2, <3>3, BarFrame DEF KeptInv
  <2> QED BY <2>2, <2>3
<1>11. CASE restore_db /\ save' = NextFile /\ UNCHANGED <<up, clients>>
  <2>1. disk' = [disk EXCEPT ![File] = [disk[File] EXCEPT !.temp = None]]
    BY <1>11 DEF restore_db
  <2>2. XOnDisk'
    BY <1>2, <1>5, <1>11, <2>1 DEF XOnDisk
  <2> QED BY <1>1, <1>4, <1>6, <1>11, <2>2, BarFrame DEF KeptInv
<1> QED BY <1>7, <1>8, <1>9, <1>10, <1>11 DEF SaveStep, SaveFails

(* What leaves entries, clients and files alone, and a crash.              *)
LEMMA OthersBar ==
    ASSUME KeptInv, BarInv, Tick \/ cleanup_glines \/ save_all_databases \/ server_die \/ Crash \/ UNCHANGED bansvars
    PROVE  BarInv'
<1>1. UNCHANGED <<bans, disk>>
  BY DEF Tick, cleanup_glines, save_all_databases, server_die, Crash, bansvars
<1>2. banscene' = banscene \/ banscene' = [banscene EXCEPT !.steps = banscene.steps - 1]
  BY DEF Tick, cleanup_glines, save_all_databases, server_die, Crash, bansvars, Spend
<1>3. save' = None \/ UNCHANGED save \/ save'.step # "close"
  BY DEF Tick, cleanup_glines, save_all_databases, server_die, Crash, bansvars, Begin
<1>4. (UNCHANGED <<clients, up>>) \/ clients' = [c \in Clients |-> Off]
  BY DEF Tick, cleanup_glines, save_all_databases, server_die, Crash, bansvars
<1>5. XOnDisk'
  BY <1>1, <1>3, FilesStay DEF BarInv
<1>6. OtherLists(bans')
  BY <1>1 DEF BarInv
<1>7. CASE UNCHANGED <<clients, up>>
  <2>1. ClientsSafe'
    BY <1>1, <1>7 DEF BarInv, ClientsSafe, Safe
  <2> QED BY <1>2, <1>5, <1>6, <1>7, <2>1, BarFrame DEF KeptInv
<1>8. CASE clients' = [c \in Clients |-> Off]
  <2>1. NobodyOn' /\ clients' = [c \in Clients |-> clients'[c]]
    BY <1>8 DEF NobodyOn
  <2>2. ClientsSafe'
    BY <2>1, OffSafe DEF NobodyOn, ClientsSafe, Safe
  <2> QED BY <1>2, <1>5, <1>6, <2>1, <2>2, BarFrame DEF KeptInv
<1> QED BY <1>4, <1>7, <1>8

(* At the start nobody is on, and there is nothing on disk.                *)
LEMMA BarInit ==
    ASSUME InputsRight, BansInit
    PROVE  BarInv
<1>1. /\ 1 \in DOMAIN banscene.confs
      /\ \A i \in DOMAIN banscene.confs :
           /\ \A k \in {"E", "X"} : banscene.confs[i][k] \in Seq({e \in ToSet(banscene.confs[i][k]) : e.until = 0})
           /\ banscene.confs[i]["G"] = <<>>
  BY DEF BansInit, InputsRight, ScenesRight
<1>2. \A q : q \in Seq({e \in ToSet(q) : e.until = 0}) => IsList(q) /\ \A e \in ToSet(q) : e.until = 0
  <2> SUFFICES ASSUME NEW q, q \in Seq({e \in ToSet(q) : e.until = 0}) PROVE IsList(q) /\ \A e \in ToSet(q) : e.until = 0
    OBVIOUS
  <2>1. \A j \in DOMAIN q : q[j] \in {e \in ToSet(q) : e.until = 0}
    OBVIOUS
  <2> QED BY <2>1 DEF IsList, ToSet
<1>3. OthersRight(banscene)
  <2> SUFFICES ASSUME NEW i \in DOMAIN banscene.confs
               PROVE  /\ IsList(banscene.confs[i]["E"]) /\ \A e \in ToSet(banscene.confs[i]["E"]) : e.until = 0
                      /\ IsList(banscene.confs[i]["X"]) /\ banscene.confs[i]["G"] = <<>>
    BY DEF OthersRight
  <2>1. \A k \in {"E", "X"} : banscene.confs[i][k] \in Seq({e \in ToSet(banscene.confs[i][k]) : e.until = 0})
    BY <1>1
  <2>2. \A k \in {"E", "X"} : IsList(banscene.confs[i][k]) /\ \A e \in ToSet(banscene.confs[i][k]) : e.until = 0
    BY <1>2, <2>1
  <2> QED BY <1>1, <2>2
<1>0. IsList(<<>>) /\ ToSet(<<>>) = {}
  <2>1. <<>> \in Seq({}) /\ ToSet(<<>>) = {}
    BY DEF ToSet
  <2> QED BY <2>1 DEF IsList
<1>4. OtherLists(bans)
  <2> DEFINE F == banscene.confs[1]
             B == read_conf(Empty, F)
  <2>1. {"E", "X"} \subseteq Kinds /\ "E" \notin Named /\ "X" \in Named
    BY DEF Kinds, Named
  <2>2. DOMAIN Empty = Kinds /\ Empty["E"] = <<>> /\ Empty["X"] = <<>>
    BY <2>1 DEF Empty
  <2>3. DOMAIN B = Kinds /\ B["E"] = <<>> \o F["E"] /\ B["X"] = Reverse(F["X"]) \o <<>>
    BY <2>1, <2>2 DEF read_conf, AddAll
  <2>4. IsList(F["E"]) /\ IsList(F["X"]) /\ \A e \in ToSet(F["E"]) : e.until = 0
    BY <1>1, <1>3 DEF OthersRight
  <2>5. IsList(Reverse(F["X"]))
    BY <2>4, ListJoins
  <2>6. IsList(B["E"]) /\ ToSet(B["E"]) = ToSet(F["E"])
    BY <1>0, <2>3, <2>4, ListJoins
  <2>7. IsList(B["X"])
    BY <1>0, <2>3, <2>5, ListJoins
  <2>8. \E q : bans = [B EXCEPT !["G"] = q]
    BY DEF BansInit
  <2> HIDE DEF B
  <2> QED BY <2>1, <2>3, <2>4, <2>6, <2>7, <2>8 DEF OtherLists
<1>5. NobodyOn /\ clients = [c \in Clients |-> clients[c]]
  BY DEF BansInit, NobodyOn
<1>6. ClientsSafe
  BY <1>5, OffSafe DEF NobodyOn, ClientsSafe
<1>7. XOnDisk
  <2>1. disk = [d \in Range(Files) |-> [main |-> None, temp |-> None]] /\ save = None
    BY DEF BansInit
  <2>2. "X" = Files[4] /\ 4 \in DOMAIN Files
    BY DEF Files
  <2>3. "X" \in Range(Files)
    BY <2>2 DEF Range
  <2> QED BY <2>1, <2>3 DEF XOnDisk
<1> QED BY <1>3, <1>4, <1>5, <1>6, <1>7 DEF BarInv

(* BansEnforced for any masks, commands, configurations and limits: no     *)
(* client stays on that a D-line bars, nor one that a K-, G- or X-line     *)
(* bars, unless the last REHASH stopped before it or an RCHG changed the   *)
(* gecos, whichever of the client, the line and the exemption came first   *)
(* (check_conf_klines(), find_address_conf(), check_kline() of the         *)
(* modules), through votes, saves, stops, crashes and starts.              *)
THEOREM LinesEnforced ==
    ASSUME InputsRight
    PROVE  BansSpec => []BansEnforced
<1> DEFINE Inv == KeptInv /\ BarInv
<1>1. BansInit => Inv
  BY KeptInit, BarInit
<1>2. Inv /\ [BansNext]_bansvars => Inv'
  <2> SUFFICES ASSUME KeptInv, BarInv, [BansNext]_bansvars PROVE KeptInv' /\ BarInv'
    OBVIOUS
  <2>1. KeptInv'
    BY KeptNext
  <2>2. CASE \E v \in Voters, m \in banscene.masks : mo_gline(v, m) \/ do_sungline(v, m)
    BY <2>1, <2>2, VoteBars DEF mo_gline, do_sungline
  <2>3. CASE \E l \in banscene.lines : Command(l)
    BY <2>1, <2>3, CommandBars
  <2>4. CASE cleanup_tklines
    BY <2>1, <2>4, CleanupBars
  <2>5. CASE \E i \in DOMAIN banscene.confs : conf_rehash(banscene.confs[i]) \/ Start(banscene.confs[i])
    BY <2>1, <2>5, RehashBars, StartBars
  <2>6. CASE SaveStep \/ SaveFails
    BY <2>1, <2>6, SaveBars
  <2>7. CASE \E c \in Clients : conf_connect_allowed(c)
    BY <2>1, <2>7, ClientBars
  <2>8. CASE \E c \in Clients, g \in banscene.names : check_client(c, g) \/ m_rchg(c, g)
    BY <2>1, <2>8, ClientBars
  <2>9. CASE Tick \/ cleanup_glines \/ save_all_databases \/ server_die \/ Crash \/ UNCHANGED bansvars
    BY <2>1, <2>9, OthersBar
  <2> QED BY <2>2, <2>3, <2>4, <2>5, <2>6, <2>7, <2>8, <2>9 DEF BansNext
<1>3. Inv => BansEnforced
  <2> SUFFICES ASSUME KeptInv, BarInv, NEW c \in Clients
               PROVE  /\ clients[c].at # "off" => ~Barred(c, "D")
                      /\ clients[c].at = "local" /\ ~clients[c].skipped =>
                           ~Barred(c, "K") /\ ~Barred(c, "G") /\ (clients[c].rchg \/ ~Barred(c, "X"))
    BY DEF BansEnforced
  <2>1. \A j \in {"K", "D", "G", "E", "X"} : IsList(bans[j])
    BY DEF KeptInv, InForce, Listing, DbKinds, BarInv, OtherLists
  <2>2. Safe(bans, clients[c], c)
    BY DEF BarInv, ClientsSafe
  <2>3. /\ \A k \in {"K", "D", "G"} : Matched(bans, c, k) <=> Hits(bans[k], c)
        /\ Matched(bans, c, "X") <=> Hits(bans["X"], clients[c].gecos)
        /\ Spared(bans, c, "D") <=> Hits(bans["E"], c)
        /\ Spared(bans, c, "K") <=> "k" \in clients[c].ex
        /\ Spared(bans, c, "G") <=> clients[c].ex # {}
    BY <2>1, MatchedMeans
  <2> QED BY <2>2, <2>3 DEF Safe, Barred
<1> QED BY <1>1, <1>2, <1>3, PTL DEF BansSpec

-----------------------------------------------------------------------------
(* The votes.                                                              *)
Asked(t, m, v, time) == [type |-> t, mask |-> m, voter |-> v, time |-> time]

(* A pending request stands for votes that were given: its last voter at   *)
(* the time it carries and, if there are two, the first one not too long   *)
(* before, from another server.                                            *)
Backed(t, p) ==
    /\ p.voters \in Seq(Voters) /\ Len(p.voters) \in {1, 2}
    /\ p.time \in Int /\ p.time <= now
    /\ Asked(t, p.mask, p.voters[Len(p.voters)], p.time) \in votes
    /\ Len(p.voters) = 2 =>
         /\ ~SameSide(p.voters[2], p.voters[1])
         /\ \E time \in Int : /\ time + RequestTime > p.time /\ time <= p.time
                              /\ Asked(t, p.mask, p.voters[1], time) \in votes
Sides == {"add", "del"}
PendingRight ==
    /\ now \in Int
    /\ pending = [t \in Sides |-> pending[t]]
    /\ \A t \in Sides : IsList(pending[t]) /\ \A p \in ToSet(pending[t]) : Backed(t, p)

(* Three different values.                                                 *)
LEMMA ThreeValues ==
    ASSUME NEW a, NEW b, NEW c, a # b, a # c, b # c
    PROVE  Cardinality({a, b, c}) = 3
<1>1. IsFiniteSet({a}) /\ Cardinality({a}) = 1
  BY FS_Singleton
<1>2. IsFiniteSet({a} \cup {b}) /\ Cardinality({a} \cup {b}) = 2
  BY <1>1, FS_AddElement
<1>3. Cardinality(({a} \cup {b}) \cup {c}) = 3
  BY <1>2, FS_AddElement
<1>4. {a, b, c} = ({a} \cup {b}) \cup {c}
  OBVIOUS
<1> QED BY <1>3, <1>4

(* Votes are not taken back, so a request stays backed.                    *)
LEMMA BackedStays ==
    ASSUME NEW t, NEW p, Backed(t, p), now \in Int, votes \subseteq votes', now' \in Int, now <= now'
    PROVE  Backed(t, p)'
BY DEF Backed

(* expire_pending_glines() leaves the requests that are recent enough.     *)
LEMMA ExpireFacts ==
    ASSUME PendingRight, NEW P, P = expire_pending_glines(pending)
    PROVE  /\ P = [t \in Sides |-> P[t]]
           /\ \A t \in Sides : /\ IsList(P[t])
                               /\ \A p \in ToSet(P[t]) : Backed(t, p) /\ p.time + RequestTime > now
<1>1. P = [t \in Sides |-> Keep(pending[t], {p \in ToSet(pending[t]) : p.time + RequestTime > now})]
  BY DEF expire_pending_glines, Sides
<1>2. P = [t \in Sides |-> P[t]]
  BY <1>1
<1>3. ASSUME NEW t \in Sides
      PROVE  IsList(P[t]) /\ \A p \in ToSet(P[t]) : Backed(t, p) /\ p.time + RequestTime > now
  <2>1. P[t] = Keep(pending[t], {p \in ToSet(pending[t]) : p.time + RequestTime > now})
    BY <1>1
  <2>2. IsList(pending[t]) /\ \A p \in ToSet(pending[t]) : Backed(t, p)
    BY DEF PendingRight
  <2>3. IsList(P[t]) /\ ToSet(P[t]) = ToSet(pending[t]) \cap {p \in ToSet(pending[t]) : p.time + RequestTime > now}
    BY <2>1, <2>2, ListSteps
  <2> QED BY <2>2, <2>3
<1> QED BY <1>2, <1>3

(* Whatever a step adds to the votes and takes from the requests.          *)
LEMMA FewerPending ==
    ASSUME PendingRight, votes \subseteq votes', now' \in Int, now <= now',
           pending' = [t \in Sides |-> pending'[t]],
           \A t \in Sides : IsList(pending'[t]) /\ \A p \in ToSet(pending'[t]) : Backed(t, p) \/ Backed(t, p)'
    PROVE  PendingRight'
BY BackedStays DEF PendingRight

(* Three voters none of whom is on the side of another, each in time.      *)
LEMMA ThreeAgreed ==
    ASSUME NEW t, NEW m, NEW a, NEW b, NEW c, NEW x \in Int, NEW y \in Int, now \in Int,
           Asked(t, m, a, x) \in votes', Asked(t, m, b, y) \in votes', Asked(t, m, c, now) \in votes',
           ~SameSide(b, a), ~SameSide(c, a), ~SameSide(c, b),
           x + RequestTime > y, y + RequestTime > now, x <= y, y <= now
    PROVE  Agreed(t, m)
<1>1. Cardinality({a.who, b.who, c.who}) = 3 /\ Cardinality({a.server, b.server, c.server}) = 3
  BY ThreeValues DEF SameSide
<1> DEFINE A == Asked(t, m, a, x)
           B == Asked(t, m, b, y)
           C == Asked(t, m, c, now)
           V == {v \in votes' : v.type = t /\ v.mask = m}
<1>2. /\ A \in V /\ B \in V /\ C \in V
      /\ A.voter = a /\ B.voter = b /\ C.voter = c /\ A.time = x /\ B.time = y /\ C.time = now
  BY DEF Asked
<1> HIDE DEF A, B, C
<1>3. /\ Cardinality({A.voter.who, B.voter.who, C.voter.who}) = 3
      /\ Cardinality({A.voter.server, B.voter.server, C.voter.server}) = 3
      /\ A.time + RequestTime > B.time /\ B.time + RequestTime > C.time /\ C.time = now
      /\ A.time <= B.time /\ B.time <= C.time
  BY <1>1, <1>2
<1> QED BY <1>2, <1>3 DEF Agreed

(* What check_majority() enters for the voters of a request.               *)
Request(m, voters) == [mask |-> m, voters |-> voters, time |-> now]

(* The G-line that is taken away is one the mask of the request finds.     *)
LEMMA RemovedIsFound ==
    ASSUME KeptInv, NEW m, remove_gline_match(m)
    PROVE  /\ placed'["G"] \subseteq placed["G"]
           /\ \A p \in placed["G"] \ placed'["G"] : FoundBy(p[1], m)
<1>1. placed = [k \in PlacedKinds |-> placed[k]] /\ "G" \in PlacedKinds /\ IsList(bans["G"])
  BY DEF KeptInv, ByKind, InForce, Listing, PlacedKinds, DbKinds
<1>2. CASE UNCHANGED placed
  BY <1>2
<1>3. CASE ~UNCHANGED placed
  <2>0. PICK i : i = find_placed(bans, "G", m)
    OBVIOUS
  <2>1. PICK e : e = bans["G"][i]
    OBVIOUS
  <2>2. /\ i # 0 /\ Bucket[m] = Bucket[e.mask]
        /\ placed' = [placed EXCEPT !["G"] = placed["G"] \ {<<e.mask, e.until>>}]
    BY <1>3, <2>0, <2>1 DEF remove_gline_match, UnplaceAddress, Unplace, delete_one_address_conf
  <2>3. e.mask = m \/ m \in Covers[e.mask]
    BY <1>1, <2>0, <2>1, <2>2, SearchFinds
  <2>4. placed'["G"] = placed["G"] \ {<<e.mask, e.until>>}
    BY <1>1, <2>2
  <2> QED BY <2>2, <2>3, <2>4 DEF FoundBy
<1> QED BY <1>2, <1>3

(* A vote: the request keeps its votes, and when it goes there were three. *)
LEMMA VoteStep ==
    ASSUME KeptInv, PendingRight, NEW t \in Sides, NEW v \in Voters, NEW m, Vote(t, v, m)
    PROVE  PendingRight' /\ OpersAgree
<1>p. PICK P : P = expire_pending_glines(pending)
  OBVIOUS
<1> DEFINE I == {j \in DOMAIN P[t] : P[t][j].mask = m}
<1>i. PICK i : i = FirstOf(I)
  OBVIOUS
<1>q. PICK p : p = P[t][i]
  OBVIOUS
<1>n. PICK New : New = Asked(t, m, v, now)
  OBVIOUS
<1>1. check_majority(t, v, m) /\ votes' = votes \cup {New} /\ UNCHANGED now
  BY <1>n DEF Vote, Asked
<1>2. /\ P = [s \in Sides |-> P[s]]
      /\ \A s \in Sides : IsList(P[s]) /\ \A r \in ToSet(P[s]) : Backed(s, r) /\ r.time + RequestTime > now
  BY <1>p, ExpireFacts
<1>3. I \in SUBSET (Nat \ {0})
  BY <1>2, ListFacts
<1>4. i # 0 => i \in I
  BY <1>3, <1>i, FirstFound
<1>5. i # 0 => i \in DOMAIN P[t] /\ p \in ToSet(P[t]) /\ p.mask = m /\ Backed(t, p) /\ p.time + RequestTime > now
  BY <1>2, <1>4, <1>q, ListFacts
<1> DEFINE Kept1 == pending' = P /\ UNCHANGED placed
           First1 == pending' = [P EXCEPT ![t] = <<Request(m, <<v>>)>> \o P[t]] /\ UNCHANGED placed
           Other1 == i # 0 /\ \A j \in DOMAIN p.voters : ~SameSide(v, p.voters[j])
           Second1 == /\ Len(p.voters) = 1 /\ UNCHANGED placed
                      /\ pending' = [P EXCEPT ![t] = [P[t] EXCEPT ![i] = Request(m, Append(p.voters, v))]]
           Third1 == /\ Len(p.voters) # 1
                     /\ pending' = [P EXCEPT ![t] = RemoveAt(P[t], i)]
                     /\ IF t = "add" THEN Place("G", m, GlineTime) ELSE remove_gline_match(m)
<1>6. Kept1 \/ First1 \/ (Other1 /\ (Second1 \/ Third1))
  BY <1>1, <1>p, <1>i, <1>q DEF check_majority, Request
<1>7. now \in Int /\ now' = now
  BY <1>1 DEF PendingRight
<1>8. New \in votes' /\ votes \subseteq votes'
  BY <1>1
<1> HIDE DEF I
<1>9. /\ pending' = [s \in Sides |-> pending'[s]]
       /\ \A s \in Sides : IsList(pending'[s]) /\ \A r \in ToSet(pending'[s]) : Backed(s, r) \/ Backed(s, r)'
  <2>1. CASE Kept1
    BY <1>2, <2>1
  <2>2. CASE First1
    <3>n. PICK new : new = Request(m, <<v>>)
      OBVIOUS
    <3>1. /\ pending' = [s \in Sides |-> pending'[s]] /\ \A s \in Sides \ {t} : pending'[s] = P[s]
          /\ pending'[t] = <<new>> \o P[t]
      BY <1>2, <2>2, <3>n
    <3>2. IsList(pending'[t]) /\ ToSet(pending'[t]) = ToSet(P[t]) \cup {new}
      BY <1>2, <3>1, ListSteps
    <3>3. Backed(t, new)'
      <4>1. <<v>> \in Seq(Voters) /\ Len(<<v>>) = 1 /\ <<v>>[1] = v
        OBVIOUS
      <4>2. new.voters = <<v>> /\ new.time = now /\ new.mask = m
        BY <3>n DEF Request
      <4> QED BY <1>7, <1>8, <1>n, <4>1, <4>2 DEF Backed
    <3>4. ASSUME NEW s \in Sides, NEW r \in ToSet(pending'[s]) PROVE Backed(s, r) \/ Backed(s, r)'
      <4>1. CASE s = t
        BY <1>2, <3>2, <3>3, <4>1
      <4>2. CASE s # t
        BY <1>2, <3>1, <4>2
      <4> QED BY <4>1, <4>2
    <3> QED BY <1>2, <3>1, <3>2, <3>4
  <2>3. CASE Other1 /\ Second1
    <3>w. PICK w : w = Append(p.voters, v)
      OBVIOUS
    <3>n. PICK new : new = Request(m, w)
      OBVIOUS
    <3>1. /\ pending' = [s \in Sides |-> pending'[s]] /\ \A s \in Sides \ {t} : pending'[s] = P[s]
          /\ pending'[t] = [P[t] EXCEPT ![i] = new]
      BY <1>2, <2>3, <3>w, <3>n
    <3>2. i \in DOMAIN P[t] /\ Backed(t, p) /\ p.mask = m /\ p.time + RequestTime > now
      BY <1>5, <2>3
    <3>3. IsList(pending'[t]) /\ ToSet(pending'[t]) \subseteq ToSet(P[t]) \cup {new}
      <4>1. IsList(P[t])
        BY <1>2
      <4>2. IsList([P[t] EXCEPT ![i] = new]) /\ ToSet([P[t] EXCEPT ![i] = new]) \subseteq ToSet(P[t]) \cup {new}
        BY <3>2, <4>1, ListSteps
      <4> QED BY <3>1, <4>2
    <3>4. /\ p.voters \in Seq(Voters) /\ Len(p.voters) = 1 /\ p.time \in Int /\ p.time <= now
          /\ Asked(t, m, p.voters[1], p.time) \in votes
      BY <2>3, <3>2 DEF Backed
    <3>5. w \in Seq(Voters) /\ Len(w) = 2 /\ w[2] = v /\ w[1] = p.voters[1] /\ 1 \in DOMAIN p.voters
      BY <3>4, <3>w
    <3>6. ~SameSide(w[2], w[1])
      BY <2>3, <3>5
    <3>7. new.voters = w /\ new.time = now /\ new.mask = m
      BY <3>n DEF Request
    <3>8. Backed(t, new)'
      <4>1. \E time \in Int : /\ time + RequestTime > now /\ time <= now
                              /\ Asked(t, m, w[1], time) \in votes'
        BY <1>8, <3>2, <3>4, <3>5
      <4>2. new.voters[Len(new.voters)] = v /\ new.voters[1] = w[1] /\ ~SameSide(new.voters[2], new.voters[1])
        BY <3>5, <3>6, <3>7
      <4>3. Asked(t, m, v, now) \in votes'
        BY <1>8, <1>n
      <4> QED BY <1>7, <3>5, <3>7, <4>1, <4>2, <4>3 DEF Backed
    <3>9. ASSUME NEW s \in Sides, NEW r \in ToSet(pending'[s]) PROVE Backed(s, r) \/ Backed(s, r)'
      <4>1. CASE s = t
        BY <1>2, <3>3, <3>8, <4>1
      <4>2. CASE s # t
        BY <1>2, <3>1, <4>2
      <4> QED BY <4>1, <4>2
    <3> QED BY <1>2, <3>1, <3>3, <3>9
  <2>4. CASE Other1 /\ Third1
    <3>1. /\ pending' = [s \in Sides |-> pending'[s]] /\ \A s \in Sides \ {t} : pending'[s] = P[s]
          /\ pending'[t] = RemoveAt(P[t], i)
      BY <1>2, <2>4
    <3>2. IsList(pending'[t]) /\ ToSet(pending'[t]) \subseteq ToSet(P[t])
      BY <1>2, <1>5, <2>4, <3>1, ListSteps
    <3> QED BY <1>2, <3>1, <3>2
  <2> QED BY <1>6, <2>1, <2>2, <2>3, <2>4
<1>10. PendingRight'
  BY <1>7, <1>8, <1>9, FewerPending
<1>11. Other1 /\ Third1 => Agreed(t, m)
  <2> SUFFICES ASSUME Other1, Third1 PROVE Agreed(t, m)
    OBVIOUS
  <2>1. Backed(t, p) /\ p.mask = m /\ p.time + RequestTime > now
    BY <1>5
  <2>2. /\ Len(p.voters) = 2 /\ p.voters \in Seq(Voters) /\ p.time \in Int /\ p.time <= now
        /\ Asked(t, m, p.voters[2], p.time) \in votes /\ ~SameSide(p.voters[2], p.voters[1])
    BY <2>1 DEF Backed
  <2>3. PICK time \in Int : /\ time + RequestTime > p.time /\ time <= p.time
                            /\ Asked(t, m, p.voters[1], time) \in votes
    BY <2>1, <2>2 DEF Backed
  <2>4. ~SameSide(v, p.voters[1]) /\ ~SameSide(v, p.voters[2])
    BY <2>2
  <2>5. /\ Asked(t, m, p.voters[1], time) \in votes' /\ Asked(t, m, p.voters[2], p.time) \in votes'
        /\ Asked(t, m, v, now) \in votes'
    BY <1>8, <2>2, <2>3, <1>n
  <2> QED BY <1>7, <2>1, <2>2, <2>3, <2>4, <2>5, ThreeAgreed
<1>12. OpersAgree
  <2>1. CASE UNCHANGED placed
    BY <2>1 DEF OpersAgree
  <2>2. CASE Other1 /\ Third1 /\ t = "add"
    <3>1. PICK until : placed' = [placed EXCEPT !["G"] = placed["G"] \cup {<<m, until>>}]
      BY <2>2 DEF Place
    <3>2. "G" \in PlacedKinds /\ placed = [k \in PlacedKinds |-> placed[k]]
      BY DEF KeptInv, ByKind, PlacedKinds, DbKinds
    <3>3. placed'["G"] = placed["G"] \cup {<<m, until>>}
      BY <3>1, <3>2
    <3>4. Agreed("add", m)
      BY <1>11, <2>2
    <3> QED BY <3>3, <3>4 DEF OpersAgree
  <2>3. CASE Other1 /\ Third1 /\ t # "add"
    <3>1. t = "del" /\ remove_gline_match(m)
      BY <2>3 DEF Sides
    <3>2. placed'["G"] \subseteq placed["G"] /\ \A q \in placed["G"] \ placed'["G"] : FoundBy(q[1], m)
      BY <3>1, RemovedIsFound
    <3>3. New \in votes' /\ New.mask = m
      BY <1>8, <1>n DEF Asked
    <3>4. Agreed("del", m)
      BY <1>11, <2>3, <3>1
    <3> QED BY <3>2, <3>3, <3>4 DEF OpersAgree
  <2> QED BY <1>6, <2>1, <2>2, <2>3
<1> QED BY <1>10, <1>12

(* Every other step takes no vote and forgets requests or leaves them.     *)
LEMMA OtherVotes ==
    ASSUME PendingRight, BansNext, ~\E v \in Voters, m \in banscene.masks : mo_gline(v, m) \/ do_sungline(v, m)
    PROVE  PendingRight' /\ UNCHANGED votes
<1>1. UNCHANGED votes
  BY DEF BansNext, conf_connect_allowed, check_client, m_rchg, Command, Tick, cleanup_tklines, cleanup_glines,
         conf_rehash, Start, save_all_databases, server_die, SaveStep, SaveFails, Crash
<1>2. now \in Int /\ (now' = now \/ now' = now + 60)
  BY DEF PendingRight, BansNext, conf_connect_allowed, check_client, m_rchg, Command, Tick, cleanup_tklines, cleanup_glines,
         conf_rehash, Start, save_all_databases, server_die, SaveStep, SaveFails, Crash
<1>3. UNCHANGED pending \/ pending' = expire_pending_glines(pending) \/ pending' = [t \in Sides |-> <<>>]
  BY DEF Sides, BansNext, conf_connect_allowed, check_client, m_rchg, Command, Tick, cleanup_tklines, cleanup_glines,
         conf_rehash, Start, save_all_databases, server_die, SaveStep, SaveFails, Crash
<1>4. now' \in Int /\ now <= now'
  BY <1>2
<1>5. CASE UNCHANGED pending
  BY <1>1, <1>4, <1>5, FewerPending DEF PendingRight
<1>6. CASE pending' = expire_pending_glines(pending)
  <2>1. /\ pending' = [t \in Sides |-> pending'[t]]
        /\ \A t \in Sides : IsList(pending'[t]) /\ \A p \in ToSet(pending'[t]) : Backed(t, p)
    BY <1>6, ExpireFacts
  <2> QED BY <1>1, <1>4, <2>1, FewerPending
<1>7. CASE pending' = [t \in Sides |-> <<>>]
  <2>1. pending' = [t \in Sides |-> pending'[t]] /\ \A t \in Sides : pending'[t] = <<>>
    BY <1>7
  <2>2. <<>> \in Seq({}) /\ ToSet(<<>>) = {}
    BY DEF ToSet
  <2> QED BY <1>1, <1>4, <2>1, <2>2 DEF PendingRight, IsList
<1> QED BY <1>1, <1>3, <1>5, <1>6, <1>7

(* ThreeOpers for any opers, masks, matching and time limits: a vote       *)
(* places a G-line, or takes one away, only as the third of three voters   *)
(* none of whom shares user@host or server with another, each within       *)
(* RequestTime of the one before (check_majority(), m_gline.c), whatever   *)
(* commands, REHASHes, saves, crashes and starts come between the votes.   *)
THEOREM ThreeAgree ==
    ASSUME InputsRight
    PROVE  BansSpec => ThreeOpers
<1> DEFINE Inv == KeptInv /\ PendingRight
<1>1. BansInit => Inv
  <2> SUFFICES ASSUME BansInit PROVE KeptInv /\ PendingRight
    OBVIOUS
  <2>1. <<>> \in Seq({}) /\ ToSet(<<>>) = {}
    BY DEF ToSet
  <2> QED BY <2>1, KeptInit DEF BansInit, PendingRight, Sides, IsList
<1>2. Inv /\ [BansNext]_bansvars => Inv' /\ [OpersAgree]_bansvars
  <2> SUFFICES ASSUME KeptInv, PendingRight, [BansNext]_bansvars PROVE KeptInv' /\ PendingRight' /\ OpersAgree
    OBVIOUS
  <2>1. KeptInv'
    BY KeptNext
  <2>2. CASE \E v \in Voters, m \in banscene.masks : mo_gline(v, m) \/ do_sungline(v, m)
    <3>1. \E v \in Voters, m \in banscene.masks : Vote("add", v, m) \/ Vote("del", v, m)
      BY <2>2 DEF mo_gline, do_sungline
    <3> QED BY <2>1, <3>1, VoteStep DEF Sides
  <2>3. CASE BansNext /\ ~\E v \in Voters, m \in banscene.masks : mo_gline(v, m) \/ do_sungline(v, m)
    BY <2>1, <2>3, OtherVotes DEF OpersAgree
  <2>4. CASE UNCHANGED bansvars
    <3>1. UNCHANGED <<now, pending, votes>>
      BY <2>4 DEF bansvars
    <3>2. now' \in Int /\ now <= now'
      BY <3>1 DEF PendingRight
    <3> QED BY <2>1, <3>1, <3>2, FewerPending DEF PendingRight, OpersAgree
  <2> QED BY <2>2, <2>3, <2>4
<1> QED BY <1>1, <1>2, PTL DEF BansSpec, ThreeOpers
=============================================================================
