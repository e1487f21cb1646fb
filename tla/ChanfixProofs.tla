--------------------------- MODULE ChanfixProofs ---------------------------
(***************************************************************************)
(* Theorems about the chanfix service, for every set of channels, hosts,   *)
(* clients and users and for every bound: the copies of its database on    *)
(* disk (ChanfixDB), its fixes (ChanfixFix) and the sessions and the file  *)
(* of its users (ChanfixUsers).                                            *)
(***************************************************************************)
EXTENDS ChanfixDB, ChanfixFix, ChanfixUsers, LinkedListsProofs, FiniteSetTheorems

-----------------------------------------------------------------------------
(* The copies of the database.                                             *)

(* What a completed save, or a first start, leaves of one sub-database:    *)
(* two whole copies of it, or no file and nothing to lose.                 *)
TwoCopies(f, ce) ==
    \/ f = Copies(Gone, Gone, Gone) /\ ce = CE_reset
    \/ \E d, o : f = Copies(Whole(ce, d), Whole(ce, d), o)
CopiesInv ==
    /\ CopySurvives
    /\ ~failing => \A k \in Subs : TwoCopies(files[k], good[k])

(* The contents DB_load() finds do not depend on the day.                  *)
LoadedFrom(f) ==
    IF f.ocf.state = "whole" THEN f.ocf.ce
    ELSE IF f.bak.state = "whole" THEN f.bak.ce
    ELSE IF f.old.state = "whole" THEN f.old.ce ELSE CE_reset

(* This is so before and after a step.                                     *)
LEMMA LoadContents ==
    ASSUME NEW k
    PROVE  /\ DB_load(files[k]).ce = LoadedFrom(files[k])
           /\ (DB_load(files[k]).ce)' = LoadedFrom(files'[k])
<1>1. DB_load(files[k]).ce = LoadedFrom(files[k])
  BY DEF DB_load, LoadedFrom, Whole
<1>2. (DB_load(files[k]).ce)' = LoadedFrom(files'[k])
  BY DEF DB_load, LoadedFrom, Whole
<1> QED BY <1>1, <1>2

(* A sub-database with two copies is loaded as it was saved.               *)
LEMMA LoadsGood ==
    ASSUME NEW f, NEW ce, TwoCopies(f, ce)
    PROVE  LoadedFrom(f) = ce
<1>1. CASE f = Copies(Gone, Gone, Gone) /\ ce = CE_reset
  BY <1>1 DEF LoadedFrom, Copies, Gone
<1>2. CASE \E d, o : f = Copies(Whole(ce, d), Whole(ce, d), o)
  BY <1>2 DEF LoadedFrom, Copies, Whole
<1> QED BY <1>1, <1>2 DEF TwoCopies

(* DB_save() of one sub-database leaves two copies of what it wrote.       *)
LEMMA SavedTwice ==
    ASSUME NEW f, NEW ce
    PROVE  TwoCopies(Saved(f, ce), ce)
BY DEF TwoCopies, Saved

(* Wherever DB_save() of a sub-database with two copies is broken off,     *)
(* DB_load() finds the old contents or what was being written.             *)
LEMMA BrokenSaveLoads ==
    ASSUME NEW f, NEW ce, NEW old, TwoCopies(f, old), NEW g \in Interrupted(f, ce)
    PROVE  LoadedFrom(g) \in {old, ce} \cup Shortened(ce)
<1>1. \/ f.bak = Gone /\ f.old = Gone /\ old = CE_reset
      \/ f.bak.state = "whole" /\ f.bak.ce = old
  BY DEF TwoCopies, Copies, Whole
<1>2. Torn.state = "torn" /\ Gone.state = "gone"
  BY DEF Torn, Gone
<1>3. ASSUME NEW o \in Cut(ce), NEW y, NEW z, g = Copies(o, y, z),
             \/ y = f.bak /\ z \in {f.old, Gone}
             \/ y = Gone /\ z = f.bak
      PROVE  LoadedFrom(g) \in {old, ce} \cup Shortened(ce)
  <2>1. g.ocf = o /\ g.bak = y /\ g.old = z
    BY <1>3 DEF Copies
  <2>2. CASE o = Torn
    BY <1>1, <1>2, <1>3, <2>1, <2>2 DEF LoadedFrom
  <2>3. CASE \E e \in Shortened(ce) : o = Whole(e, day)
    BY <2>1, <2>3 DEF LoadedFrom, Whole
  <2> QED BY <1>3, <2>2, <2>3 DEF Cut
<1>4. ASSUME NEW y, NEW z, g = Copies(Whole(ce, day), y, z) PROVE LoadedFrom(g) = ce
  BY <1>4 DEF LoadedFrom, Whole, Copies
<1> QED BY <1>3, <1>4 DEF Interrupted

(* A complete save.                                                        *)
LEMMA SaveKeepsCopies ==
    ASSUME DB_save
    PROVE  CopiesInv'
<1> DEFINE D == [k \in Subs |-> DB_save_iteration(db[k])]
<1>1. files' = [k \in Subs |-> Saved(files[k], D[k])] /\ good' = D
  BY DEF DB_save
<1>2. \A k \in Subs : TwoCopies(files'[k], good'[k])
  BY <1>1, SavedTwice
<1>3. \A k \in Subs : (DB_load(files[k]).ce)' = good'[k]
  BY <1>2, LoadsGood, LoadContents
<1> QED BY <1>2, <1>3 DEF CopiesInv, CopySurvives

(* A save that is broken off at sub-database k.                            *)
LEMMA BrokenKeepsCopies ==
    ASSUME CopiesInv, SaveBroken
    PROVE  CopiesInv'
<1> DEFINE D == [j \in Subs |-> DB_save_iteration(db[j])]
<1>1. ~failing /\ failing'
  BY DEF SaveBroken
<1>2. \A j \in Subs : TwoCopies(files[j], good[j])
  BY <1>1 DEF CopiesInv
<1>3. PICK k \in Subs : \E f \in Interrupted(files[k], D[k]) :
         /\ files' = [j \in Subs |-> IF j \in {i \in Subs : i < k} THEN Saved(files[j], D[j])
                                        ELSE IF j = k THEN f ELSE files[j]]
         /\ good' = [j \in Subs |-> IF j \in {i \in Subs : i < k} THEN D[j] ELSE good[j]]
         /\ attempt' = [j \in Subs |-> IF j \in {i \in Subs : i < k} \cup {k} THEN D[j] ELSE attempt[j]]
  BY DEF SaveBroken
<1> DEFINE done == {i \in Subs : i < k}
<1>4. PICK f \in Interrupted(files[k], D[k]) :
         /\ files' = [j \in Subs |-> IF j \in done THEN Saved(files[j], D[j])
                                        ELSE IF j = k THEN f ELSE files[j]]
         /\ good' = [j \in Subs |-> IF j \in done THEN D[j] ELSE good[j]]
         /\ attempt' = [j \in Subs |-> IF j \in done \cup {k} THEN D[j] ELSE attempt[j]]
  BY <1>3
<1> HIDE DEF D, done
<1>5. ASSUME NEW j \in Subs
      PROVE  LoadedFrom(files'[j]) \in {good'[j], attempt'[j]} \cup Shortened(attempt'[j])
  <2>1. CASE j \in done
    <3>1. files'[j] = Saved(files[j], D[j]) /\ good'[j] = D[j]
      BY <1>4, <2>1
    <3> QED BY <3>1, SavedTwice, LoadsGood
  <2>2. CASE j \notin done /\ j = k
    <3>1. files'[j] = f /\ good'[j] = good[k] /\ attempt'[j] = D[k]
      BY <1>4, <2>2
    <3> QED BY <1>2, <1>4, <3>1, BrokenSaveLoads
  <2>3. CASE j \notin done /\ j # k
    <3>1. files'[j] = files[j] /\ good'[j] = good[j]
      BY <1>4, <2>3
    <3> QED BY <1>2, <3>1, LoadsGood
  <2> QED BY <2>1, <2>2, <2>3
<1> QED BY <1>1, <1>5, LoadContents DEF CopiesInv, CopySurvives

(* A step that leaves the files and what they should hold alone.           *)
LEMMA OthersKeepCopies ==
    ASSUME CopiesInv, UNCHANGED <<files, good, attempt, failing>>
    PROVE  CopiesInv'
<1>1. \A k \in Subs : LoadedFrom(files[k]) \in {good[k], attempt[k]} \cup Shortened(attempt[k])
  BY LoadContents DEF CopiesInv, CopySurvives
<1> QED BY <1>1, LoadContents DEF CopiesInv, CopySurvives

(* One save may be broken off at any point, by a crash or by an error, of  *)
(* any number of sub-databases: what DB_load() finds is the last complete  *)
(* save or the one that was broken off, until two in a row have been       *)
(* (DB_save(), DB_load()).                                                 *)
THEOREM CopiesSurvive == DBSpec => []CopySurvives
<1>1. DBInit => CopiesInv
  <2> SUFFICES ASSUME DBInit PROVE CopiesInv
    OBVIOUS
  <2>1. \A k \in Subs : TwoCopies(files[k], good[k])
    BY DEF DBInit, TwoCopies
  <2> QED BY <2>1, LoadsGood, LoadContents DEF CopiesInv, CopySurvives
<1>2. CopiesInv /\ [DBNext]_(dbvars) => CopiesInv'
  <2> SUFFICES ASSUME CopiesInv, [DBNext]_(dbvars) PROVE CopiesInv'
    OBVIOUS
  <2>1. CASE ocf_save_database \/ db_moddeinit
    BY <2>1, SaveKeepsCopies DEF ocf_save_database, db_moddeinit
  <2>2. CASE SaveBroken
    BY <2>2, BrokenKeepsCopies
  <2>3. CASE gather_rotate \/ DBCrash \/ db_modinit \/ Midnight
    BY <2>3, OthersKeepCopies DEF gather_rotate, DBCrash, db_modinit, Midnight
  <2>4. ASSUME NEW n \in dbscene.names, NEW hosts, update_scores_of_channel(n, hosts) PROVE CopiesInv'
    BY <2>4, OthersKeepCopies DEF update_scores_of_channel
  <2>5. ASSUME NEW n \in dbscene.names,
               \/ add_fix(n) \/ process_cmd_addnote(n) \/ process_cmd_block(n) \/ process_cmd_unblock(n)
               \/ process_cmd_alert(n) \/ process_cmd_unalert(n)
               \/ \E k \in 1 .. MAXNOTECOUNT : process_cmd_delnote(n, k)
        PROVE  CopiesInv'
    <3>1. UNCHANGED <<files, good, attempt, failing>>
      BY <2>5 DEF add_fix, process_cmd_addnote, process_cmd_block, process_cmd_unblock,
                  process_cmd_alert, process_cmd_unalert, process_cmd_delnote, Change
    <3> QED BY <3>1, OthersKeepCopies
  <2>6. CASE UNCHANGED dbvars
    BY <2>6, OthersKeepCopies DEF dbvars
  <2> QED BY <2>1, <2>2, <2>3, <2>4, <2>5, <2>6 DEF DBNext
<1>3. CopiesInv => CopySurvives
  BY DEF CopiesInv
<1> QED BY <1>1, <1>2, <1>3, PTL DEF DBSpec

-----------------------------------------------------------------------------
(* The index of the database. An array, of whatever kind.                  *)
IsArray(q) == \E S : q \in Seq(S)

(* The entry of a channel, whose operators have room in its array.         *)
EntryRight(c) ==
    /\ c = [name |-> c.name, chanop |-> c.chanop, chanopmax |-> c.chanopmax, flag |-> c.flag, channote |-> c.channote]
    /\ c.name \in Names /\ IsArray(c.chanop) /\ c.chanopmax \in Nat \ {0} /\ Len(c.chanop) <= c.chanopmax

(* The hash of the channel at place i, and a sub-database whose array is    *)
(* sorted by it, subsort[h] entries being of a lower hash than h.           *)
HashAt(ce, i) == CEHash[ce.channels[i].name]
Indexed(ce) ==
    /\ ce = [channels |-> ce.channels, subsort |-> ce.subsort]
    /\ IsArray(ce.channels) /\ \A i \in 1 .. Len(ce.channels) : EntryRight(ce.channels[i])
    /\ \A i, j \in 1 .. Len(ce.channels) : ce.channels[i].name = ce.channels[j].name => i = j
    /\ ce.subsort \in [Hashes -> Nat]
    /\ \A h \in Hashes : /\ ce.subsort[h] <= Len(ce.channels)
                         /\ \A i \in 1 .. Len(ce.channels) : i <= ce.subsort[h] <=> HashAt(ce, i) < h

(* The numbers up to n are n.                                              *)
LEMMA CountUpTo == \A n \in Nat : IsFiniteSet(1 .. n) /\ Cardinality(1 .. n) = n
<1> SUFFICES ASSUME NEW n \in Nat PROVE IsFiniteSet(1 .. n) /\ Cardinality(1 .. n) = n
  OBVIOUS
<1>1. 1 \in Int /\ n \in Int
  OBVIOUS
<1>2. IsFiniteSet(1 .. n) /\ Cardinality(1 .. n) = IF 1 > n THEN 0 ELSE n - 1 + 1
  BY <1>1, FS_Interval
<1> QED BY <1>2

(* An array of the database has a length and is indexed from 1 to it.      *)
LEMMA ArrayIs ==
    ASSUME NEW q, IsArray(q)
    PROVE  Len(q) \in Nat /\ DOMAIN q = 1 .. Len(q)
BY DEF IsArray

(* InsertAt puts one element in its place and moves those behind it, which *)
(* is what CE_new_channel() and the sort of DB_write_end() do.             *)
LEMMA InsertAtFacts ==
    ASSUME NEW q, IsArray(q), NEW x, NEW i \in 1 .. Len(q) + 1
    PROVE  /\ IsArray(InsertAt(q, i, x))
           /\ Len(InsertAt(q, i, x)) = Len(q) + 1
           /\ \A j \in 1 .. Len(q) + 1 :
                InsertAt(q, i, x)[j] = IF j < i THEN q[j] ELSE IF j = i THEN x ELSE q[j - 1]
<1>1. PICK S : q \in Seq(S)
  BY DEF IsArray
<1> DEFINE T == S \cup {x}
           a == SubSeq(q, 1, i - 1)
           b == SubSeq(q, i, Len(q))
           r == InsertAt(q, i, x)
<1>2. Len(q) \in Nat /\ i \in Nat /\ 1 <= i /\ i <= Len(q) + 1
  BY <1>1
<1>3. a \in Seq(S) /\ Len(a) = i - 1 /\ \A j \in 1 .. i - 1 : a[j] = q[j]
  BY <1>1, <1>2
<1>4. b \in Seq(S) /\ Len(b) = Len(q) - i + 1 /\ \A j \in 1 .. Len(q) - i + 1 : b[j] = q[j + i - 1]
  BY <1>1, <1>2
<1>5. r = (a \o <<x>>) \o b
  BY DEF InsertAt
<1> DEFINE c == a \o <<x>>
<1> HIDE DEF a, b, r
<1>6. a \in Seq(T) /\ b \in Seq(T) /\ <<x>> \in Seq(T) /\ Len(<<x>>) = 1
  BY <1>3, <1>4
<1>7. c \in Seq(T) /\ Len(c) = i /\ c[i] = x /\ \A j \in 1 .. i - 1 : c[j] = q[j]
  <2>1. c \in Seq(T) /\ Len(c) = Len(a) + 1
    BY <1>6
  <2>2. c[Len(a) + 1] = x
    BY <1>6
  <2>3. ASSUME NEW j \in 1 .. i - 1 PROVE c[j] = q[j]
    <3>1. j \in 1 .. Len(a)
      BY <1>3
    <3>2. c[j] = a[j]
      BY <3>1, <1>6
    <3> QED BY <3>2, <1>3
  <2>4. Len(c) = i /\ Len(a) + 1 = i
    BY <2>1, <1>3, <1>2
  <2> QED BY <2>1, <2>2, <2>3, <2>4
<1> HIDE DEF c, T
<1>8. r \in Seq(T) /\ Len(r) = Len(q) + 1
  <2>1. r \in Seq(T) /\ Len(r) = Len(c) + Len(b)
    BY <1>5, <1>6, <1>7 DEF c
  <2> QED BY <2>1, <1>7, <1>4, <1>2
<1>9. ASSUME NEW j \in 1 .. Len(q) + 1
      PROVE  r[j] = IF j < i THEN q[j] ELSE IF j = i THEN x ELSE q[j - 1]
  <2>1. CASE j <= i
    <3>1. j \in 1 .. Len(c)
      BY <2>1, <1>7
    <3>2. r[j] = c[j]
      BY <3>1, <1>5, <1>6, <1>7 DEF c
    <3> QED BY <3>2, <1>7, <2>1, <1>2
  <2>2. CASE ~(j <= i)
    <3> DEFINE k == j - i
    <3>1. k \in 1 .. Len(b) /\ Len(c) + k = j /\ ~(j < i) /\ j # i
      BY <2>2, <1>7, <1>4, <1>2
    <3>2. k + i - 1 = j - 1
      BY <1>2
    <3> HIDE DEF k
    <3>3. (c \o b)[Len(c) + k] = b[k]
      <4>1. c \in Seq(T)
        BY <1>7
      <4>2. b \in Seq(T)
        BY <1>6
      <4>3. k \in 1 .. Len(b)
        BY <3>1
      <4> QED BY ONLY <4>1, <4>2, <4>3, SecondPart, Zenon
    <3>4. b[k] = q[k + i - 1]
      BY <3>1, <1>4
    <3> QED BY <3>1, <3>2, <3>3, <3>4, <1>5 DEF c
  <2> QED BY <2>1, <2>2, <1>2
<1>10. IsArray(r)
  BY <1>8 DEF IsArray
<1>11. IsArray(r) /\ Len(r) = Len(q) + 1
  BY <1>8, <1>10
<1> QED BY <1>9, <1>11, Zenon DEF r

(* A function on 1 .. n is a list of length n.                             *)
LEMMA ArrayFrom ==
    ASSUME NEW n \in Nat, NEW f, f = [i \in 1 .. n |-> f[i]]
    PROVE  IsArray(f) /\ Len(f) = n /\ DOMAIN f = 1 .. n
<1> DEFINE S == {f[i] : i \in 1 .. n}
<1>1. f \in [1 .. n -> S]
  OBVIOUS
<1> HIDE DEF S
<1>2. f \in Seq(S) /\ Len(f) = n
  BY <1>1
<1> QED BY <1>2 DEF IsArray

(* The other way round.                                                    *)
LEMMA ArrayFunction ==
    ASSUME NEW q, IsArray(q)
    PROVE  q = [i \in 1 .. Len(q) |-> q[i]]
BY DEF IsArray

(* Min() of a set of numbers is one of them.                               *)
LEMMA MinFacts ==
    ASSUME NEW T, T \subseteq Nat, T # {}
    PROVE  Min(T) \in T /\ \A y \in T : Min(T) <= y
<1>1. \E x \in T : \A y \in T : x <= y
  BY LeastNumber
<1> QED BY <1>1 DEF Min

(* Writing one element of an array leaves its length as it was.            *)
LEMMA ExceptArray ==
    ASSUME NEW q, IsArray(q), NEW i, NEW x
    PROVE  IsArray([q EXCEPT ![i] = x]) /\ Len([q EXCEPT ![i] = x]) = Len(q)
<1>1. q = [j \in 1 .. Len(q) |-> q[j]] /\ Len(q) \in Nat
  BY ArrayFunction, ArrayIs
<1> DEFINE r == [q EXCEPT ![i] = x]
<1>2. r = [j \in 1 .. Len(q) |-> r[j]]
  BY <1>1
<1> HIDE DEF r
<1>3. IsArray(r) /\ Len(r) = Len(q)
  BY <1>1, <1>2, ArrayFrom
<1> QED BY <1>3 DEF r

(* DB_write_end() puts the operators in another order.                     *)
LEMMA RankedFacts ==
    ASSUME NEW q, IsArray(q), NEW x
    PROVE  IsArray(Ranked(q, x)) /\ Len(Ranked(q, x)) = Len(q) + 1
<1> DEFINE T == {i \in DOMAIN q : Score(q[i]) >= Score(x)}
           p == 1 + Cardinality(T)
<1>1. Len(q) \in Nat /\ DOMAIN q = 1 .. Len(q) /\ T \subseteq 1 .. Len(q)
  BY ArrayIs
<1> HIDE DEF T
<1>2. IsFiniteSet(1 .. Len(q)) /\ Cardinality(1 .. Len(q)) = Len(q)
  BY <1>1, CountUpTo
<1>3. Cardinality(T) \in Nat /\ Cardinality(T) <= Len(q)
  <2>1. IsFiniteSet(T) /\ Cardinality(T) <= Cardinality(1 .. Len(q))
    BY ONLY <1>1, <1>2, FS_Subset, Zenon
  <2>2. Cardinality(T) \in Nat
    BY ONLY <2>1, FS_CardinalityType, Zenon
  <2> QED BY <2>1, <2>2, <1>2
<1>4. p \in 1 .. Len(q) + 1
  BY <1>1, <1>3
<1>5. Ranked(q, x) = InsertAt(q, p, x)
  BY DEF Ranked, T
<1> HIDE DEF p
<1> QED BY <1>4, <1>5, InsertAtFacts

(* DB_write_end() sorts the operators of the write channel in place: there *)
(* are as many as before.                                                  *)
LEMMA WriteEndFacts ==
    ASSUME NEW oplist, IsArray(oplist)
    PROVE  IsArray(DB_write_end(oplist)) /\ Len(DB_write_end(oplist)) = Len(oplist)
<1> DEFINE n == Len(oplist)
           Run(m, k) == k = [i \in 0 .. m |-> IF i = 0 THEN <<>> ELSE Ranked(k[i - 1], oplist[i])]
           A == {m \in 0 .. n : \E k : Run(m, k)}
           done == CHOOSE k : Run(n, k)
<1>0. n \in Nat
  BY ArrayIs
<1>1. DB_write_end(oplist) = done[n]
  BY DEF DB_write_end
<1> HIDE DEF n
<1>2. 0 \in A
  <2>1. Run(0, [i \in 0 .. 0 |-> <<>>])
    OBVIOUS
  <2> HIDE DEF Run
  <2> QED BY <2>1, <1>0
<1>3. ASSUME NEW m \in 1 .. n, m - 1 \in A
      PROVE  m \in A
  <2>1. PICK k : Run(m - 1, k)
    BY <1>3
  <2> DEFINE k2 == [i \in 0 .. m |-> IF i = m THEN Ranked(k[m - 1], oplist[m]) ELSE k[i]]
  <2>2. ASSUME NEW i \in 0 .. m
        PROVE  k2[i] = IF i = 0 THEN <<>> ELSE Ranked(k2[i - 1], oplist[i])
    <3>1. CASE i = m
      <4>1. k2[i - 1] = k[m - 1] /\ i # 0
        BY <3>1, <1>0
      <4> QED BY <4>1, <3>1
    <3>2. CASE i # m
      <4>1. i \in 0 .. m - 1 /\ k2[i] = k[i] /\ (i # 0 => k2[i - 1] = k[i - 1])
        BY <3>2, <1>0
      <4> HIDE DEF k2
      <4> QED BY <4>1, <2>1
    <3> QED BY <3>1, <3>2
  <2>3. k2 = [i \in 0 .. m |-> k2[i]]
    OBVIOUS
  <2> HIDE DEF k2
  <2>4. Run(m, k2)
    BY <2>2, <2>3
  <2> HIDE DEF Run
  <2> QED BY <2>4, <1>0
<1> HIDE DEF A
<1>4. 0 .. n \subseteq A
  BY <1>0, <1>2, <1>3, UpTo
<1>5. Run(n, done)
  <2>1. n \in A
    BY <1>0, <1>4
  <2> HIDE DEF Run
  <2> QED BY <2>1 DEF A
<1> HIDE DEF done
<1>6. \A i \in 0 .. n : done[i] = IF i = 0 THEN <<>> ELSE Ranked(done[i - 1], oplist[i])
  BY ONLY <1>5
<1> HIDE DEF Run
<1> DEFINE B == {i \in 0 .. n : IsArray(done[i]) /\ Len(done[i]) = i}
<1>7. 0 \in B
  <2>1. IsArray(<<>>) /\ Len(<<>>) = 0
    BY DEF IsArray
  <2> QED BY <1>0, <1>6, <2>1
<1>8. ASSUME NEW i \in 1 .. n, i - 1 \in B
      PROVE  i \in B
  <2>1. i \in 0 .. n /\ i # 0 /\ done[i] = Ranked(done[i - 1], oplist[i])
    BY <1>0, <1>6
  <2>2. IsArray(done[i - 1]) /\ Len(done[i - 1]) = i - 1
    BY <1>8
  <2>3. IsArray(done[i]) /\ Len(done[i]) = i
    BY <2>1, <2>2, RankedFacts
  <2> QED BY <2>1, <2>3
<1> HIDE DEF B
<1>9. 0 .. n \subseteq B
  BY <1>0, <1>7, <1>8, UpTo
<1>10. n \in B
  BY <1>0, <1>9
<1> QED BY <1>1, <1>10 DEF B, n
(* CE_register_op() keeps the entry right: when there is no room for one   *)
(* more operator, the array is enlarged.                                   *)
LEMMA AddedArray ==
    ASSUME NEW q, IsArray(q), NEW x
    PROVE  IsArray(Append(q, x)) /\ Len(Append(q, x)) = Len(q) + 1
<1>1. PICK S : q \in Seq(S)
  BY DEF IsArray
<1> DEFINE T == S \cup {x}
<1>2. q \in Seq(T) /\ x \in T
  BY <1>1
<1> HIDE DEF T
<1>3. Append(q, x) \in Seq(T) /\ Len(Append(q, x)) = Len(q) + 1
  BY <1>2
<1> QED BY <1>3 DEF IsArray

(* CE_register_op() keeps the name of the channel, and doubles its array of*)
(* operators before the one that would not fit.                            *)
LEMMA RegisterKeeps ==
    ASSUME NEW c, EntryRight(c), NEW h, NEW d
    PROVE  EntryRight(CE_register_op(c, h, d)) /\ CE_register_op(c, h, d).name = c.name
<1> DEFINE known == {i \in DOMAIN c.chanop : c.chanop[i].host = h}
           full == Len(c.chanop) >= c.chanopmax
           grown == IF known = {} /\ full THEN [c EXCEPT !.chanopmax = 2 * @] ELSE c
           at == IF known = {} THEN Len(c.chanop) + 1 ELSE Min(known)
           oplist == IF known = {} THEN Append(c.chanop, NewOp(h)) ELSE c.chanop
           new == [oplist EXCEPT ![at].daycount[DaySlot(d)] = @ + 1, ![at].when[d] = @ + 1]
<1>1. /\ c = [name |-> c.name, chanop |-> c.chanop, chanopmax |-> c.chanopmax, flag |-> c.flag, channote |-> c.channote]
      /\ c.name \in Names /\ IsArray(c.chanop) /\ c.chanopmax \in Nat \ {0} /\ Len(c.chanop) <= c.chanopmax
      /\ Len(c.chanop) \in Nat
  BY ArrayIs DEF EntryRight
<1>2. CE_register_op(c, h, d) = IF known = {} /\ full /\ c.chanopmax >= MAXOPCOUNT THEN c
                                ELSE [grown EXCEPT !.chanop = new]
  BY DEF CE_register_op
<1>3. IsArray(oplist) /\ Len(oplist) = IF known = {} THEN Len(c.chanop) + 1 ELSE Len(c.chanop)
  BY <1>1, AddedArray
<1> HIDE DEF oplist, at, known
<1>4. IsArray(new) /\ Len(new) = Len(oplist)
  <2>1. PICK q : q = oplist
    OBVIOUS
  <2>2. PICK i, t : i = at /\ t = DaySlot(d)
    OBVIOUS
  <2> DEFINE r == [q EXCEPT ![i].daycount[t] = @ + 1, ![i].when[d] = @ + 1]
  <2>3. IsArray(q)
    BY <1>3, <2>1
  <2>5. r = new
    BY <2>1, <2>2, Zenon
  <2>6. q = [j \in 1 .. Len(q) |-> q[j]] /\ Len(q) \in Nat
    BY <2>3, ArrayFunction, ArrayIs
  <2>7. r = [j \in 1 .. Len(q) |-> r[j]]
    BY <2>6
  <2> HIDE DEF r
  <2>4. IsArray(r) /\ Len(r) = Len(q)
    BY <2>6, <2>7, ArrayFrom
  <2> QED BY <2>1, <2>4, <2>5
<1> HIDE DEF new
<1>5. CASE known = {} /\ full
  <2> DEFINE e == [name |-> c.name, chanop |-> new, chanopmax |-> 2 * c.chanopmax, flag |-> c.flag, channote |-> c.channote]
  <2>4. grown = [name |-> c.name, chanop |-> c.chanop, chanopmax |-> 2 * c.chanopmax, flag |-> c.flag,
                 channote |-> c.channote]
    <3>1. PICK m : m = 2 * c.chanopmax
      OBVIOUS
    <3>2. [c EXCEPT !.chanopmax = m] = [name |-> c.name, chanop |-> c.chanop, chanopmax |-> m, flag |-> c.flag,
                                        channote |-> c.channote]
      BY <1>1
    <3> QED BY <1>5, <3>1, <3>2
  <2>1. [grown EXCEPT !.chanop = new] = e
    BY <2>4
  <2>2. 2 * c.chanopmax \in Nat \ {0} /\ Len(new) <= 2 * c.chanopmax
    BY <1>1, <1>3, <1>4, <1>5
  <2>3. EntryRight(e) /\ e.name = c.name
    BY <1>1, <1>4, <2>2 DEF EntryRight
  <2> QED BY <1>2, <2>1, <2>3
<1>6. CASE ~(known = {} /\ full)
  <2> DEFINE e == [name |-> c.name, chanop |-> new, chanopmax |-> c.chanopmax, flag |-> c.flag, channote |-> c.channote]
  <2>1. [grown EXCEPT !.chanop = new] = e
    BY <1>1, <1>6
  <2>2. Len(new) <= c.chanopmax
    BY <1>1, <1>3, <1>4, <1>6
  <2>3. EntryRight(e) /\ e.name = c.name
    BY <1>1, <1>4, <2>2 DEF EntryRight
  <2> QED BY <1>2, <1>6, <2>1, <2>3
<1> QED BY <1>5, <1>6

(* The hosts that gather_all_channels() finds on a channel are a list of   *)
(* some length.                                                            *)
LEMMA HostsListed ==
    ASSUME IsFiniteSet(Hosts), NEW hosts \in HostLists
    PROVE  Len(hosts) \in Nat
<1>1. PICK H \in SUBSET Hosts : hosts \in SetToSeqs(H)
  BY DEF HostLists
<1>2. IsFiniteSet(H)
  BY <1>1, FS_Subset
<1>3. PICK n \in Nat : n = Cardinality(H)
  BY <1>2, FS_CardinalityType
<1>4. hosts \in [1 .. n -> H]
  BY <1>1, <1>3 DEF SetToSeqs
<1>5. hosts \in Seq(H)
  BY <1>4
<1> QED BY <1>5

(* update_scores_of_channel() registers one operator after the other; the  *)
(* entry stays right after each.                                           *)
LEMMA RegisteredKeeps ==
    ASSUME IsFiniteSet(Hosts), NEW hosts \in HostLists, NEW c, EntryRight(c), NEW d
    PROVE  EntryRight(Registered(c, hosts, d)) /\ Registered(c, hosts, d).name = c.name
<1> DEFINE n == Len(hosts)
           Run(m, k) == k = [i \in 0 .. m |-> IF i = 0 THEN c ELSE CE_register_op(k[i - 1], hosts[i], d)]
           A == {m \in 0 .. n : \E k : Run(m, k)}
           done == CHOOSE k : Run(n, k)
<1>0. n \in Nat
  BY HostsListed
<1>1. Registered(c, hosts, d) = done[n]
  BY DEF Registered
<1> HIDE DEF n
<1>2. 0 \in A
  <2>1. Run(0, [i \in 0 .. 0 |-> c])
    OBVIOUS
  <2> HIDE DEF Run
  <2> QED BY <2>1, <1>0
<1>3. ASSUME NEW m \in 1 .. n, m - 1 \in A
      PROVE  m \in A
  <2>1. PICK k : Run(m - 1, k)
    BY <1>3
  <2> DEFINE k2 == [i \in 0 .. m |-> IF i = m THEN CE_register_op(k[m - 1], hosts[m], d) ELSE k[i]]
  <2>2. ASSUME NEW i \in 0 .. m
        PROVE  k2[i] = IF i = 0 THEN c ELSE CE_register_op(k2[i - 1], hosts[i], d)
    <3>1. CASE i = m
      <4>1. k2[i - 1] = k[m - 1] /\ i # 0
        BY <3>1, <1>0
      <4> QED BY <4>1, <3>1
    <3>2. CASE i # m
      <4>1. i \in 0 .. m - 1 /\ k2[i] = k[i] /\ (i # 0 => k2[i - 1] = k[i - 1])
        BY <3>2, <1>0
      <4> HIDE DEF k2
      <4> QED BY <4>1, <2>1
    <3> QED BY <3>1, <3>2
  <2>3. k2 = [i \in 0 .. m |-> k2[i]]
    OBVIOUS
  <2> HIDE DEF k2
  <2>4. Run(m, k2)
    BY <2>2, <2>3
  <2> HIDE DEF Run
  <2> QED BY <2>4, <1>0
<1> HIDE DEF A
<1>4. 0 .. n \subseteq A
  BY <1>0, <1>2, <1>3, UpTo
<1>5. Run(n, done)
  <2>1. n \in A
    BY <1>0, <1>4
  <2> HIDE DEF Run
  <2> QED BY <2>1 DEF A
<1> HIDE DEF done
<1>6. \A i \in 0 .. n : done[i] = IF i = 0 THEN c ELSE CE_register_op(done[i - 1], hosts[i], d)
  BY ONLY <1>5
<1> HIDE DEF Run
<1> DEFINE B == {i \in 0 .. n : EntryRight(done[i]) /\ done[i].name = c.name}
<1>7. 0 \in B
  BY <1>0, <1>6
<1>8. ASSUME NEW i \in 1 .. n, i - 1 \in B
      PROVE  i \in B
  <2>1. i \in 0 .. n /\ i # 0 /\ done[i] = CE_register_op(done[i - 1], hosts[i], d)
    BY <1>0, <1>6
  <2>2. EntryRight(done[i - 1]) /\ done[i - 1].name = c.name
    BY <1>8
  <2>3. EntryRight(done[i]) /\ done[i].name = c.name
    BY <2>1, <2>2, RegisterKeeps
  <2> QED BY <2>1, <2>3
<1> HIDE DEF B
<1>9. 0 .. n \subseteq B
  BY <1>0, <1>7, <1>8, UpTo
<1>10. n \in B
  BY <1>0, <1>9
<1> QED BY <1>1, <1>10 DEF B

(* An entry with other operators, that are no more, or with another flag   *)
(* and other notes.                                                        *)
LEMMA EntryChanges ==
    ASSUME NEW c, EntryRight(c)
    PROVE  /\ \A q : IsArray(q) /\ Len(q) <= Len(c.chanop) =>
                EntryRight([c EXCEPT !.chanop = q]) /\ [c EXCEPT !.chanop = q].name = c.name
                /\ [c EXCEPT !.chanop = q].chanop = q
           /\ \A f : EntryRight([c EXCEPT !.flag = f]) /\ [c EXCEPT !.flag = f].name = c.name
           /\ \A t : EntryRight([c EXCEPT !.channote = t]) /\ [c EXCEPT !.channote = t].name = c.name
<1>1. /\ c = [name |-> c.name, chanop |-> c.chanop, chanopmax |-> c.chanopmax, flag |-> c.flag, channote |-> c.channote]
      /\ c.name \in Names /\ IsArray(c.chanop) /\ c.chanopmax \in Nat \ {0} /\ Len(c.chanop) <= c.chanopmax
      /\ Len(c.chanop) \in Nat
  BY ArrayIs DEF EntryRight
<1>2. ASSUME NEW q, IsArray(q), Len(q) <= Len(c.chanop)
      PROVE  EntryRight([c EXCEPT !.chanop = q]) /\ [c EXCEPT !.chanop = q].name = c.name
             /\ [c EXCEPT !.chanop = q].chanop = q
  <2> DEFINE e == [name |-> c.name, chanop |-> q, chanopmax |-> c.chanopmax, flag |-> c.flag, channote |-> c.channote]
  <2>1. [c EXCEPT !.chanop = q] = e
    BY <1>1
  <2>2. Len(q) <= c.chanopmax
    BY <1>1, <1>2, ArrayIs
  <2>3. EntryRight(e) /\ e.name = c.name /\ e.chanop = q
    BY <1>1, <1>2, <2>2 DEF EntryRight
  <2> QED BY <2>1, <2>3
<1>3. ASSUME NEW f
      PROVE  EntryRight([c EXCEPT !.flag = f]) /\ [c EXCEPT !.flag = f].name = c.name
  <2> DEFINE e == [name |-> c.name, chanop |-> c.chanop, chanopmax |-> c.chanopmax, flag |-> f, channote |-> c.channote]
  <2>1. [c EXCEPT !.flag = f] = e
    BY <1>1
  <2>2. EntryRight(e) /\ e.name = c.name
    BY <1>1 DEF EntryRight
  <2> QED BY <2>1, <2>2
<1>4. ASSUME NEW t
      PROVE  EntryRight([c EXCEPT !.channote = t]) /\ [c EXCEPT !.channote = t].name = c.name
  <2> DEFINE e == [name |-> c.name, chanop |-> c.chanop, chanopmax |-> c.chanopmax, flag |-> c.flag, channote |-> t]
  <2>1. [c EXCEPT !.channote = t] = e
    BY <1>1
  <2>2. EntryRight(e) /\ e.name = c.name
    BY <1>1 DEF EntryRight
  <2> QED BY <2>1, <2>2
<1> QED BY <1>2, <1>3, <1>4
(* Adding and deleting a note, and writing the notes to disk.              *)
LEMMA NotesKeep ==
    ASSUME NEW c, EntryRight(c)
    PROVE  /\ \A t : EntryRight(DB_channel_add_note(c, t)) /\ DB_channel_add_note(c, t).name = c.name
           /\ \A k : EntryRight(DB_channel_del_note(c, k)) /\ DB_channel_del_note(c, k).name = c.name
           /\ EntryRight(Packed(c)) /\ Packed(c).name = c.name
<1>1. ASSUME NEW t
      PROVE  EntryRight(DB_channel_add_note(c, t)) /\ DB_channel_add_note(c, t).name = c.name
  <2>1. \E u : DB_channel_add_note(c, t) = [c EXCEPT !.channote = u]
    BY DEF DB_channel_add_note
  <2> QED BY <2>1, EntryChanges
<1>2. ASSUME NEW k
      PROVE  EntryRight(DB_channel_del_note(c, k)) /\ DB_channel_del_note(c, k).name = c.name
  <2>1. \E u : DB_channel_del_note(c, k) = [c EXCEPT !.channote = u]
    BY DEF DB_channel_del_note
  <2> QED BY <2>1, EntryChanges
<1>3. EntryRight(Packed(c)) /\ Packed(c).name = c.name
  <2>1. PICK u : Packed(c) = [c EXCEPT !.channote = u]
    BY DEF Packed
  <2>2. EntryRight([c EXCEPT !.channote = u]) /\ [c EXCEPT !.channote = u].name = c.name
    BY EntryChanges
  <2> QED BY <2>1, <2>2, Zenon
<1> QED BY <1>1, <1>2, <1>3

(* The first elements of an array are an array: chanopcount lowered as in  *)
(* CE_update_day().                                                        *)
LEMMA FirstOnes ==
    ASSUME NEW q, IsArray(q), NEW m \in 0 .. Len(q)
    PROVE  IsArray(SubSeq(q, 1, m)) /\ Len(SubSeq(q, 1, m)) = m
<1>1. PICK S : q \in Seq(S)
  BY DEF IsArray
<1>2. SubSeq(q, 1, m) \in Seq(S) /\ Len(SubSeq(q, 1, m)) = m
  BY <1>1
<1> QED BY <1>2 DEF IsArray

(* Sorting the operators of a channel with DB_write_end() keeps its entry  *)
(* right and its name.                                                     *)
LEMMA SortedKeeps ==
    ASSUME NEW c, EntryRight(c)
    PROVE  EntryRight(Sorted(c)) /\ Sorted(c).name = c.name
<1>1. PICK q : q = DB_write_end(c.chanop)
  OBVIOUS
<1>2. IsArray(c.chanop)
  BY DEF EntryRight
<1>3. IsArray(q) /\ Len(q) = Len(c.chanop) /\ Len(c.chanop) \in Nat
  BY <1>1, <1>2, WriteEndFacts, ArrayIs
<1>4. Len(q) <= Len(c.chanop)
  BY <1>3
<1>5. Sorted(c) = [c EXCEPT !.chanop = q]
  BY <1>1 DEF Sorted
<1> QED BY <1>3, <1>4, <1>5, EntryChanges

(* The counter of the new day is emptied, the operators are put in order,  *)
(* those without a score are cut off and memory is given back.             *)
LEMMA DayKeeps ==
    ASSUME NEW c, EntryRight(c), NEW d
    PROVE  LET e == Shrunk(CutZeros(Sorted(Zeroed(c, d))))
           IN EntryRight(e) /\ e.name = c.name
<1>1. PICK z : z = Zeroed(c, d)
  OBVIOUS
<1>2. EntryRight(z) /\ z.name = c.name
  <2> DEFINE q == [i \in DOMAIN c.chanop |-> [c.chanop[i] EXCEPT !.daycount[DaySlot(d)] = 0]]
  <2>1. z = [c EXCEPT !.chanop = q]
    BY <1>1 DEF Zeroed
  <2>2. IsArray(c.chanop)
    BY DEF EntryRight
  <2>3. Len(c.chanop) \in Nat /\ DOMAIN c.chanop = 1 .. Len(c.chanop)
    BY <2>2, ArrayIs
  <2>4. q = [i \in 1 .. Len(c.chanop) |-> q[i]]
    BY <2>3
  <2> HIDE DEF q
  <2>5. IsArray(q) /\ Len(q) = Len(c.chanop)
    BY <2>3, <2>4, ArrayFrom
  <2>6. Len(q) <= Len(c.chanop)
    BY <2>3, <2>5
  <2> QED BY <2>1, <2>5, <2>6, EntryChanges
<1>3. PICK y : y = Sorted(z)
  OBVIOUS
<1>4. EntryRight(y) /\ y.name = c.name
  BY <1>2, <1>3, SortedKeeps
<1>5. PICK x : x = CutZeros(y)
  OBVIOUS
<1>6. EntryRight(x) /\ x.name = c.name
  <2> DEFINE zero == {i \in DOMAIN y.chanop : Score(y.chanop[i]) = 0}
  <2>1. IsArray(y.chanop)
    BY <1>4 DEF EntryRight
  <2>2. Len(y.chanop) \in Nat /\ DOMAIN y.chanop = 1 .. Len(y.chanop)
    BY <2>1, ArrayIs
  <2>3. x = IF zero = {} THEN y ELSE [y EXCEPT !.chanop = SubSeq(@, 1, Min(zero) - 1)]
    BY <1>5 DEF CutZeros
  <2>4. CASE zero = {}
    BY <2>3, <2>4, <1>4
  <2>5. CASE zero # {}
    <3>1. zero \subseteq Nat /\ zero \subseteq 1 .. Len(y.chanop)
      BY <2>2
    <3> HIDE DEF zero
    <3>2. Min(zero) \in zero
      BY <2>5, <3>1, MinFacts
    <3>3. PICK m : m = Min(zero) - 1
      OBVIOUS
    <3>4. m \in 0 .. Len(y.chanop)
      <4>1. Min(zero) \in 1 .. Len(y.chanop)
        BY ONLY <3>1, <3>2, Zenon
      <4> QED BY ONLY <2>2, <3>3, <4>1
    <3>5. PICK q : q = SubSeq(y.chanop, 1, m)
      OBVIOUS
    <3>6. IsArray(q) /\ Len(q) = m
      BY <2>1, <3>4, <3>5, FirstOnes
    <3>7. Len(q) <= Len(y.chanop)
      BY <2>2, <3>4, <3>6
    <3>8. x = [y EXCEPT !.chanop = q]
      BY <2>3, <2>5, <3>3, <3>5
    <3> QED BY <1>4, <3>6, <3>7, <3>8, EntryChanges
  <2> QED BY <2>4, <2>5
<1>7. PICK w : w = Shrunk(x)
  OBVIOUS
<1>8. EntryRight(w) /\ w.name = c.name
  <2>1. /\ x = [name |-> x.name, chanop |-> x.chanop, chanopmax |-> x.chanopmax, flag |-> x.flag, channote |-> x.channote]
        /\ x.name \in Names /\ IsArray(x.chanop) /\ x.chanopmax \in Nat \ {0} /\ Len(x.chanop) \in Nat
    BY <1>6, ArrayIs DEF EntryRight
  <2>2. CASE ~(x.chanop # <<>> /\ Len(x.chanop) <= x.chanopmax \div 3 /\ x.chanopmax > InitOps)
    BY <1>6, <1>7, <2>2 DEF Shrunk
  <2>3. CASE x.chanop # <<>> /\ Len(x.chanop) <= x.chanopmax \div 3 /\ x.chanopmax > InitOps
    <3>1. PICK m : m = x.chanopmax \div 2
      OBVIOUS
    <3> DEFINE e == [name |-> x.name, chanop |-> x.chanop, chanopmax |-> m, flag |-> x.flag, channote |-> x.channote]
    <3>2. w = [x EXCEPT !.chanopmax = m]
      BY <1>7, <2>3, <3>1 DEF Shrunk
    <3>3. [x EXCEPT !.chanopmax = m] = e
      BY <2>1
    <3>4. Len(x.chanop) # 0
      BY <2>1, <2>3 DEF IsArray
    <3>5. m \in Nat \ {0} /\ Len(x.chanop) <= m
      BY <2>1, <2>3, <3>1, <3>4
    <3>6. EntryRight(e) /\ e.name = x.name
      BY <2>1, <3>5 DEF EntryRight
    <3> QED BY <1>6, <3>2, <3>3, <3>6
  <2> QED BY <2>2, <2>3
<1> QED BY <1>1, <1>3, <1>5, <1>7, <1>8
(* A channel is found at its place, and a channel that is not found is not *)
(* there.                                                                  *)
LEMMA FindsOwn ==
    ASSUME IndexRight, NEW ce, Indexed(ce), NEW i \in 1 .. Len(ce.channels)
    PROVE  CE_find_channel(ce, ce.channels[i].name) = i
<1> DEFINE n == ce.channels[i].name
           H == CEHash[n]
           at == {j \in ce.subsort[H] + 1 .. Len(ce.channels) : ce.channels[j].name = n}
<1>1. n \in Names /\ H \in Hashes /\ H \in Nat
  BY DEF Indexed, EntryRight, IndexRight
<1>2. Len(ce.channels) \in Nat
  BY ArrayIs DEF Indexed
<1>3. ~(HashAt(ce, i) < H)
  BY <1>1 DEF HashAt
<1>4. ce.subsort[H] \in Nat /\ ~(i <= ce.subsort[H])
  BY <1>1, <1>3 DEF Indexed
<1>5. i \in ce.subsort[H] + 1 .. Len(ce.channels)
  BY <1>2, <1>4
<1>6. ASSUME NEW j \in at PROVE j = i
  <2>1. j \in 1 .. Len(ce.channels) /\ ce.channels[j].name = n
    BY <1>2, <1>4
  <2> QED BY <2>1 DEF Indexed
<1>7. at = {i}
  BY <1>5, <1>6
<1>8. CE_find_channel(ce, n) = IF at = {} THEN 0 ELSE Min(at)
  BY DEF CE_find_channel
<1> HIDE DEF at
<1>9. Min(at) = i
  BY <1>2, <1>7, MinFacts
<1> QED BY <1>7, <1>8, <1>9

(* CE_find_channel() finds every channel there is and no other, where the  *)
(* index is right.                                                         *)
LEMMA FindFacts ==
    ASSUME IndexRight, NEW ce, Indexed(ce), NEW n \in Names
    PROVE  \/ /\ CE_find_channel(ce, n) = 0 /\ \A i \in 1 .. Len(ce.channels) : ce.channels[i].name # n
           \/ /\ CE_find_channel(ce, n) \in 1 .. Len(ce.channels) /\ CE_find_channel(ce, n) # 0
              /\ ce.channels[CE_find_channel(ce, n)].name = n
<1>0. Len(ce.channels) \in Nat
  BY ArrayIs DEF Indexed
<1>1. CASE \E i \in 1 .. Len(ce.channels) : ce.channels[i].name = n
  <2>1. PICK i \in 1 .. Len(ce.channels) : ce.channels[i].name = n
    BY <1>1
  <2>2. CE_find_channel(ce, n) = i
    BY <2>1, FindsOwn
  <2> QED BY <1>0, <2>1, <2>2
<1>2. CASE \A i \in 1 .. Len(ce.channels) : ce.channels[i].name # n
  <2>1. ce.subsort[CEHash[n]] \in Nat
    BY DEF Indexed, IndexRight
  <2>2. {i \in ce.subsort[CEHash[n]] + 1 .. Len(ce.channels) : ce.channels[i].name = n} = {}
    BY <1>0, <1>2, <2>1
  <2>3. CE_find_channel(ce, n) = 0
    BY <2>2 DEF CE_find_channel
  <2> QED BY <1>2, <2>3
<1> QED BY <1>1, <1>2

(* An empty sub-database, and one with other entries of the same names.    *)
LEMMA ResetIndexed ==
    ASSUME IndexRight
    PROVE  Indexed(CE_reset)
<1>1. CE_reset.channels = <<>> /\ CE_reset.subsort = [h \in Hashes |-> 0]
      /\ CE_reset = [channels |-> CE_reset.channels, subsort |-> CE_reset.subsort]
  BY DEF CE_reset
<1>2. Len(CE_reset.channels) = 0 /\ IsArray(CE_reset.channels)
  BY <1>1 DEF IsArray
<1> QED BY <1>1, <1>2 DEF Indexed

(* Changing the channels of the array in place, names apart, leaves the    *)
(* index right.                                                            *)
LEMMA SameNames ==
    ASSUME NEW ce, Indexed(ce), NEW q, IsArray(q), Len(q) = Len(ce.channels),
           \A i \in 1 .. Len(ce.channels) : EntryRight(q[i]) /\ q[i].name = ce.channels[i].name
    PROVE  Indexed([ce EXCEPT !.channels = q]) /\ [ce EXCEPT !.channels = q].channels = q
<1> DEFINE e == [channels |-> q, subsort |-> ce.subsort]
<1>1. ce = [channels |-> ce.channels, subsort |-> ce.subsort]
  BY DEF Indexed
<1>2. [ce EXCEPT !.channels = q] = e
  BY <1>1
<1>3. e.channels = q /\ e.subsort = ce.subsort /\ e = [channels |-> e.channels, subsort |-> e.subsort]
  OBVIOUS
<1> HIDE DEF e
<1>4. \A i \in 1 .. Len(ce.channels) : HashAt(e, i) = HashAt(ce, i)
  BY <1>3 DEF HashAt
<1>5. Indexed(e)
  BY <1>3, <1>4 DEF Indexed
<1> QED BY <1>2, <1>3, <1>5
(* The entries before where a lower hash begins come before where a higher *)
(* one does.                                                               *)
LEMMA SubsortGrows ==
    ASSUME IndexRight, NEW ce, Indexed(ce), NEW h \in Hashes, NEW g \in Hashes, h <= g
    PROVE  ce.subsort[h] <= ce.subsort[g]
<1> DEFINE i == ce.subsort[h]
<1>1. i \in Nat /\ ce.subsort[g] \in Nat /\ i <= Len(ce.channels) /\ Len(ce.channels) \in Nat
  BY ArrayIs DEF Indexed
<1>2. CASE i = 0
  BY <1>1, <1>2
<1>3. CASE i # 0
  <2>1. i \in 1 .. Len(ce.channels)
    BY <1>1, <1>3
  <2>2. HashAt(ce, i) < h
    BY <1>1, <2>1 DEF Indexed
  <2>3. HashAt(ce, i) \in Nat /\ h \in Nat /\ g \in Nat
    BY <2>1 DEF Indexed, EntryRight, HashAt, IndexRight
  <2>4. HashAt(ce, i) < g
    BY <2>2, <2>3
  <2> QED BY <2>1, <2>4 DEF Indexed
<1> QED BY <1>2, <1>3

(* CE_new_channel() puts a channel that is not there where its hash begins. *)
LEMMA NewKeeps ==
    ASSUME IndexRight, NEW ce, Indexed(ce), NEW n \in Names, CE_find_channel(ce, n) = 0
    PROVE  /\ Indexed(CE_new_channel(ce, n))
           /\ CE_find_channel(CE_new_channel(ce, n), n) # 0
<1> DEFINE H == CEHash[n]
           L == Len(ce.channels)
           start == ce.subsort[H]
           r == IF start < L THEN start ELSE L
           c == NewChannel(n)
           q == InsertAt(ce.channels, r + 1, c)
           s == Shift(ce, H, 1)
           e == [channels |-> q, subsort |-> s]
<1>1. CE_new_channel(ce, n) = e
  BY DEF CE_new_channel
<1>2. H \in Hashes /\ Hashes \subseteq Nat /\ L \in Nat /\ start \in Nat /\ start <= L
  BY ArrayIs DEF Indexed, IndexRight
<1>3. EntryRight(c) /\ c.name = n
  <2>1. /\ c = [name |-> c.name, chanop |-> c.chanop, chanopmax |-> c.chanopmax, flag |-> c.flag, channote |-> c.channote]
        /\ c.name = n /\ c.chanop = <<>> /\ c.chanopmax = InitOps
    BY DEF NewChannel
  <2> HIDE DEF c
  <2>2. IsArray(<<>>) /\ Len(<<>>) = 0
    BY DEF IsArray
  <2> QED BY <2>1, <2>2 DEF EntryRight, IndexRight
<1>4. r = start
  BY <1>2
<1> HIDE DEF r, c
<1>5. start + 1 \in 1 .. L + 1
  BY <1>2
<1>6. /\ IsArray(q) /\ Len(q) = L + 1
      /\ \A j \in 1 .. L + 1 : q[j] = IF j < start + 1 THEN ce.channels[j]
                                      ELSE IF j = start + 1 THEN c ELSE ce.channels[j - 1]
  <2>1. IsArray(ce.channels)
    BY DEF Indexed
  <2>2. PICK p : p = start + 1
    OBVIOUS
  <2>3. PICK t : t = ce.channels
    OBVIOUS
  <2>4. IsArray(t) /\ p \in 1 .. Len(t) + 1
    BY <1>5, <2>1, <2>2, <2>3
  <2> HIDE DEF start
  <2>5. /\ IsArray(InsertAt(t, p, c)) /\ Len(InsertAt(t, p, c)) = Len(t) + 1
        /\ \A j \in 1 .. Len(t) + 1 : InsertAt(t, p, c)[j] = IF j < p THEN t[j] ELSE IF j = p THEN c ELSE t[j - 1]
    BY <2>4, InsertAtFacts
  <2> QED BY <1>4, <2>2, <2>3, <2>5
<1>7. \A i \in 1 .. L : ce.channels[i].name # n /\ EntryRight(ce.channels[i]) /\ HashAt(ce, i) \in Nat
  <2>1. \A i \in 1 .. L : ce.channels[i].name # n
    BY FindFacts
  <2> QED BY <2>1 DEF Indexed, EntryRight, HashAt, IndexRight
<1> DEFINE old(j) == IF j < start + 1 THEN j ELSE j - 1
<1>8. \A j \in 1 .. L + 1 : j # start + 1 => old(j) \in 1 .. L /\ q[j] = ce.channels[old(j)]
  BY <1>2, <1>6
<1>9. start + 1 \in 1 .. L + 1 /\ q[start + 1] = c
  BY <1>2, <1>6
<1>10. \A j \in 1 .. L + 1 : EntryRight(q[j])
  BY <1>3, <1>7, <1>8, <1>9
<1>11. ASSUME NEW i \in 1 .. L + 1, NEW j \in 1 .. L + 1, q[i].name = q[j].name
       PROVE  i = j
  <2>1. CASE i = start + 1 \/ j = start + 1
    <3>1. q[start + 1].name = n
      BY <1>3, <1>9
    <3>2. ASSUME NEW k \in 1 .. L + 1, k # start + 1 PROVE q[k].name # n
      <4>1. old(k) \in 1 .. L /\ q[k] = ce.channels[old(k)]
        BY <1>8, <3>2
      <4> HIDE DEF old, q
      <4> QED BY <1>7, <4>1
    <3> HIDE DEF q, start, L
    <3> QED BY <1>11, <2>1, <3>1, <3>2
  <2>2. CASE i # start + 1 /\ j # start + 1
    <3>1. old(i) \in 1 .. L /\ old(j) \in 1 .. L /\ ce.channels[old(i)].name = ce.channels[old(j)].name
      BY <1>8, <1>11, <2>2
    <3>2. old(i) = old(j)
      <4> HIDE DEF old
      <4> QED BY <3>1 DEF Indexed
    <3> QED BY <1>2, <2>2, <3>2
  <2> QED BY <2>1, <2>2
<1>12. e = [channels |-> e.channels, subsort |-> e.subsort] /\ e.channels = q /\ e.subsort = s
  OBVIOUS
<1> HIDE DEF q, e
<1>13. \A h \in Hashes : s[h] = IF h > H THEN ce.subsort[h] + 1 ELSE ce.subsort[h]
  BY DEF Shift
<1>14. s \in [Hashes -> Nat]
  <2>1. \A h \in Hashes : ce.subsort[h] \in Nat
    BY DEF Indexed
  <2>2. s = [h \in Hashes |-> s[h]]
    BY DEF Shift
  <2> HIDE DEF s
  <2> QED BY <1>13, <2>1, <2>2
<1> HIDE DEF s
<1>15. HashAt(e, start + 1) = H /\ \A j \in 1 .. L + 1 : j # start + 1 => HashAt(e, j) = HashAt(ce, old(j))
  BY <1>3, <1>8, <1>9, <1>12 DEF HashAt
<1>16. ASSUME NEW h \in Hashes
       PROVE  s[h] <= L + 1 /\ \A j \in 1 .. L + 1 : j <= s[h] <=> HashAt(e, j) < h
  <2>1. /\ ce.subsort[h] \in Nat /\ ce.subsort[h] <= L /\ h \in Nat /\ H \in Nat
        /\ \A i \in 1 .. L : i <= ce.subsort[h] <=> HashAt(ce, i) < h
    BY <1>2 DEF Indexed
  <2>2. CASE h > H
    <3>1. start <= ce.subsort[h] /\ s[h] = ce.subsort[h] + 1
      BY <1>2, <1>13, <2>1, <2>2, SubsortGrows
    <3>2. ASSUME NEW j \in 1 .. L + 1, j # start + 1 PROVE j <= s[h] <=> HashAt(e, j) < h
      <4>1. old(j) \in 1 .. L /\ HashAt(e, j) = HashAt(ce, old(j))
        BY <1>8, <1>15, <3>2
      <4>2. j <= s[h] <=> old(j) <= ce.subsort[h]
        BY <1>2, <2>1, <3>1, <3>2
      <4> HIDE DEF old
      <4> QED BY <2>1, <4>1, <4>2
    <3>3. start + 1 <= s[h] /\ HashAt(e, start + 1) < h
      BY <1>2, <1>15, <2>1, <2>2, <3>1
    <3> QED BY <2>1, <3>1, <3>2, <3>3, <1>2
  <2>3. CASE ~(h > H)
    <3>0. h <= H
      BY <2>1, <2>3
    <3>1. ce.subsort[h] <= start /\ s[h] = ce.subsort[h]
      BY <1>2, <1>13, <2>3, <3>0, SubsortGrows
    <3>2. ASSUME NEW j \in 1 .. L + 1, j # start + 1 PROVE j <= s[h] <=> HashAt(e, j) < h
      <4>1. old(j) \in 1 .. L /\ HashAt(e, j) = HashAt(ce, old(j))
        BY <1>8, <1>15, <3>2
      <4>2. j <= s[h] <=> old(j) <= ce.subsort[h]
        BY <1>2, <2>1, <3>1, <3>2
      <4> HIDE DEF old
      <4> QED BY <2>1, <4>1, <4>2
    <3>3. ~(start + 1 <= s[h]) /\ ~(HashAt(e, start + 1) < h)
      BY <1>2, <1>15, <2>1, <2>3, <3>1
    <3> QED BY <2>1, <3>1, <3>2, <3>3, <1>2
  <2> QED BY <2>2, <2>3
<1>17. Indexed(e)
  BY <1>6, <1>10, <1>11, <1>12, <1>14, <1>16 DEF Indexed
<1>18. CE_find_channel(e, n) # 0
  <2>1. e.channels[start + 1].name = n /\ start + 1 \in 1 .. Len(e.channels)
    BY <1>3, <1>6, <1>9, <1>12
  <2>2. CE_find_channel(e, n) = start + 1
    BY <1>17, <2>1, FindsOwn
  <2> QED BY <1>2, <2>2
<1> QED BY <1>1, <1>17, <1>18
(* CE_del_channel() of a channel that is there.                            *)
LEMMA DelKeeps ==
    ASSUME IndexRight, NEW ce, Indexed(ce), NEW n \in Names,
           \E i \in 1 .. Len(ce.channels) : ce.channels[i].name = n
    PROVE  /\ Indexed(CE_del_channel(ce, n))
           /\ \A i \in 1 .. Len(ce.channels) : ce.channels[i].name # n =>
                \E j \in 1 .. Len(CE_del_channel(ce, n).channels) :
                   CE_del_channel(ce, n).channels[j].name = ce.channels[i].name
<1> DEFINE H == CEHash[n]
           L == Len(ce.channels)
           p == CE_find_channel(ce, n)
           q == RemoveAt(ce.channels, p)
           s == Shift(ce, H, -1)
           e == [channels |-> q, subsort |-> s]
<1>1. CE_del_channel(ce, n) = e
  BY DEF CE_del_channel
<1>2. H \in Hashes /\ Hashes \subseteq Nat /\ L \in Nat /\ p \in 1 .. L /\ ce.channels[p].name = n
  BY ArrayIs, FindFacts DEF Indexed, IndexRight
<1> HIDE DEF p
<1>3. IsArray(q) /\ Len(q) = L - 1 /\ \A j \in 1 .. L - 1 : q[j] = IF j < p THEN ce.channels[j] ELSE ce.channels[j + 1]
  <2>1. PICK S : ce.channels \in Seq(S)
    BY DEF Indexed, IsArray
  <2>2. PICK t : t = ce.channels
    OBVIOUS
  <2>3. t \in Seq(S) /\ p \in DOMAIN t /\ Len(t) = L
    BY <1>2, <2>1, <2>2
  <2>4. /\ RemoveAt(t, p) \in Seq(S) /\ Len(RemoveAt(t, p)) = Len(t) - 1
        /\ \A j \in 1 .. Len(t) - 1 : RemoveAt(t, p)[j] = IF j < p THEN t[j] ELSE t[j + 1]
    BY <2>3, RemoveAtFacts
  <2>5. IsArray(RemoveAt(t, p))
    BY <2>4 DEF IsArray
  <2> QED BY <2>2, <2>3, <2>4, <2>5
<1> DEFINE old(j) == IF j < p THEN j ELSE j + 1
<1>4. \A j \in 1 .. L - 1 : old(j) \in 1 .. L /\ old(j) # p /\ q[j] = ce.channels[old(j)]
  BY <1>2, <1>3
<1>5. \A i \in 1 .. L : EntryRight(ce.channels[i]) /\ HashAt(ce, i) \in Nat
  BY DEF Indexed, EntryRight, HashAt, IndexRight
<1>6. e = [channels |-> e.channels, subsort |-> e.subsort] /\ e.channels = q /\ e.subsort = s
  OBVIOUS
<1> HIDE DEF q, e
<1>7. \A j \in 1 .. L - 1 : EntryRight(q[j]) /\ HashAt(e, j) = HashAt(ce, old(j))
  BY <1>4, <1>5, <1>6 DEF HashAt
<1>8. ASSUME NEW i \in 1 .. L - 1, NEW j \in 1 .. L - 1, q[i].name = q[j].name
      PROVE  i = j
  <2>1. old(i) \in 1 .. L /\ old(j) \in 1 .. L /\ ce.channels[old(i)].name = ce.channels[old(j)].name
    BY <1>4, <1>8
  <2>2. old(i) = old(j)
    <3> HIDE DEF old
    <3> QED BY <2>1 DEF Indexed
  <2> QED BY <1>2, <2>2
<1>9. \A h \in Hashes : s[h] = IF h > H THEN ce.subsort[h] - 1 ELSE ce.subsort[h]
  BY DEF Shift
<1>10. \A h \in Hashes : /\ ce.subsort[h] \in Nat /\ ce.subsort[h] <= L /\ h \in Nat
                         /\ \A i \in 1 .. L : i <= ce.subsort[h] <=> HashAt(ce, i) < h
  BY <1>2 DEF Indexed
<1>11. \A h \in Hashes : p <= ce.subsort[h] <=> h > H
  <2>1. HashAt(ce, p) = H
    BY <1>2 DEF HashAt
  <2>2. H \in Nat
    BY <1>2
  <2> QED BY <1>2, <1>10, <2>1, <2>2
<1>12. s \in [Hashes -> Nat]
  <2>1. ASSUME NEW h \in Hashes PROVE s[h] \in Nat
    BY <1>2, <1>9, <1>10, <1>11
  <2>2. s = [h \in Hashes |-> s[h]]
    BY DEF Shift
  <2> HIDE DEF s
  <2> QED BY <2>1, <2>2
<1> HIDE DEF s
<1>13. ASSUME NEW h \in Hashes
       PROVE  s[h] <= L - 1 /\ \A j \in 1 .. L - 1 : j <= s[h] <=> HashAt(e, j) < h
  <2>1. /\ ce.subsort[h] \in Nat /\ ce.subsort[h] <= L /\ h \in Nat /\ H \in Nat
        /\ \A i \in 1 .. L : i <= ce.subsort[h] <=> HashAt(ce, i) < h
    BY <1>2, <1>10
  <2>2. (p <= ce.subsort[h] /\ s[h] = ce.subsort[h] - 1) \/ (ce.subsort[h] < p /\ s[h] = ce.subsort[h])
    BY <1>2, <1>9, <1>10, <1>11
  <2>3. s[h] <= L - 1
    BY <1>2, <2>1, <2>2
  <2>4. ASSUME NEW j \in 1 .. L - 1 PROVE j <= s[h] <=> HashAt(e, j) < h
    <3>1. old(j) \in 1 .. L /\ HashAt(e, j) = HashAt(ce, old(j))
      BY <1>4, <1>7
    <3>2. j <= s[h] <=> old(j) <= ce.subsort[h]
      BY <1>2, <2>1, <2>2
    <3> HIDE DEF old
    <3> QED BY <2>1, <3>1, <3>2
  <2> QED BY <2>3, <2>4
<1>14. Indexed(e)
  BY <1>2, <1>3, <1>6, <1>7, <1>8, <1>12, <1>13 DEF Indexed
<1>15. ASSUME NEW i \in 1 .. L, ce.channels[i].name # n
       PROVE  \E j \in 1 .. L - 1 : q[j].name = ce.channels[i].name
  <2>1. i # p
    BY <1>2, <1>15
  <2>2. PICK j : j = IF i < p THEN i ELSE i - 1
    OBVIOUS
  <2>3. j \in 1 .. L - 1 /\ old(j) = i
    BY <1>2, <2>1, <2>2
  <2> QED BY <1>4, <2>3
<1> QED BY <1>1, <1>3, <1>6, <1>14, <1>15
(* ForgetObsolete() deletes channels by name; the channels that are still  *)
(* to be looked at stay.                                                   *)
LEMMA ForgetKeeps ==
    ASSUME IndexRight, NEW ce, Indexed(ce)
    PROVE  Indexed(ForgetObsolete(ce))
<1> DEFINE n == Len(ce.channels)
           Run(m, k) == k = [i \in 0 .. m |-> IF i = 0 THEN ce ELSE Forget(k[i - 1], ce.channels[i])]
           A == {m \in 0 .. n : \E k : Run(m, k)}
           left == CHOOSE k : Run(n, k)
<1>0. n \in Nat
  BY ArrayIs DEF Indexed
<1>1. ForgetObsolete(ce) = left[n]
  BY DEF ForgetObsolete
<1>2. 0 \in A
  <2>1. Run(0, [i \in 0 .. 0 |-> ce])
    OBVIOUS
  <2> HIDE DEF Run
  <2> QED BY <2>1, <1>0
<1> DEFINE N == n
<1>3. N = n
  OBVIOUS
<1> HIDE DEF N
<1>4. ASSUME NEW m \in 1 .. N, m - 1 \in A
      PROVE  m \in A
  <2>1. PICK k : Run(m - 1, k)
    BY <1>4
  <2> DEFINE k2 == [i \in 0 .. m |-> IF i = m THEN Forget(k[m - 1], ce.channels[m]) ELSE k[i]]
  <2>2. ASSUME NEW i \in 0 .. m
        PROVE  k2[i] = IF i = 0 THEN ce ELSE Forget(k2[i - 1], ce.channels[i])
    <3>1. CASE i = m
      <4>1. k2[i - 1] = k[m - 1] /\ i # 0
        BY <3>1, <1>0, <1>3
      <4> QED BY <4>1, <3>1
    <3>2. CASE i # m
      <4>1. i \in 0 .. m - 1 /\ k2[i] = k[i] /\ (i # 0 => k2[i - 1] = k[i - 1])
        BY <3>2, <1>0, <1>3
      <4> HIDE DEF k2
      <4> QED BY <4>1, <2>1
    <3> QED BY <3>1, <3>2
  <2>3. k2 = [i \in 0 .. m |-> k2[i]]
    OBVIOUS
  <2> HIDE DEF k2
  <2>4. Run(m, k2)
    BY <2>2, <2>3
  <2> HIDE DEF Run
  <2> QED BY <2>4, <1>0, <1>3
<1> HIDE DEF A
<1>5. 0 .. n \subseteq A
  BY <1>0, <1>2, <1>3, <1>4, UpTo
<1>6. Run(n, left)
  <2>1. n \in A
    BY <1>0, <1>5
  <2> HIDE DEF Run
  <2> QED BY <2>1 DEF A
<1> HIDE DEF left
<1>7. \A i \in 0 .. n : left[i] = IF i = 0 THEN ce ELSE Forget(left[i - 1], ce.channels[i])
  BY ONLY <1>6
<1> HIDE DEF Run
<1> DEFINE There(e, i) == \E j \in 1 .. Len(e.channels) : e.channels[j].name = ce.channels[i].name
           B == {m \in 0 .. n : Indexed(left[m]) /\ \A i \in m + 1 .. n : There(left[m], i)}
<1>8. 0 \in B
  BY <1>0, <1>7
<1>9. ASSUME NEW m \in 1 .. N, m - 1 \in B
      PROVE  m \in B
  <2>1. m \in 0 .. n /\ m # 0 /\ m \in 1 .. n /\ m - 1 + 1 = m /\ left[m] = Forget(left[m - 1], ce.channels[m])
    BY <1>0, <1>3, <1>7
  <2>2. PICK e : e = left[m - 1]
    OBVIOUS
  <2> HIDE DEF There
  <2>3. Indexed(e) /\ \A i \in m .. n : There(e, i)
    BY <1>9, <2>1, <2>2
  <2>4. PICK x : x = ce.channels[m].name
    OBVIOUS
  <2>5. x \in Names
    BY <2>1, <2>4 DEF Indexed, EntryRight
  <2>6. There(e, m)
    BY <1>0, <2>1, <2>3
  <2>7. \E i \in 1 .. Len(e.channels) : e.channels[i].name = x
    BY <2>4, <2>6 DEF There
  <2>8. CASE left[m] = e
    <3>1. \A i \in m + 1 .. n : There(left[m], i)
      BY <1>0, <2>1, <2>3, <2>8
    <3> QED BY <2>1, <2>3, <2>8, <3>1
  <2>9. CASE left[m] = CE_del_channel(e, x)
    <3>1. Indexed(left[m])
      BY <2>3, <2>5, <2>7, <2>9, DelKeeps
    <3>2. ASSUME NEW i \in m + 1 .. n PROVE There(left[m], i)
      <4>1. i \in m .. n /\ i # m /\ i \in 1 .. n
        BY <1>0, <2>1
      <4>2. ce.channels[i].name # x
        BY <2>1, <2>4, <4>1 DEF Indexed
      <4>3. PICK j \in 1 .. Len(e.channels) : e.channels[j].name = ce.channels[i].name
        BY <2>3, <4>1 DEF There
      <4>5. \A k \in 1 .. Len(e.channels) : e.channels[k].name # x =>
               \E l \in 1 .. Len(CE_del_channel(e, x).channels) :
                  CE_del_channel(e, x).channels[l].name = e.channels[k].name
        BY <2>3, <2>5, <2>7, DelKeeps
      <4>4. \E l \in 1 .. Len(left[m].channels) : left[m].channels[l].name = e.channels[j].name
        BY <2>9, <4>2, <4>3, <4>5
      <4> QED BY <4>3, <4>4 DEF There
    <3> QED BY <2>1, <3>1, <3>2
  <2>10. left[m] = e \/ left[m] = CE_del_channel(e, x)
    BY <2>1, <2>2, <2>4 DEF Forget
  <2> QED BY <2>8, <2>9, <2>10
<1> HIDE DEF B
<1>10. 0 .. n \subseteq B
  BY <1>0, <1>3, <1>8, <1>9, UpTo
<1>11. n \in B
  BY <1>0, <1>10
<1> QED BY <1>1, <1>11 DEF B

(* CE_update_day() and what DB_save() writes of a sub-database.            *)
LEMMA DayIndexed ==
    ASSUME IndexRight, NEW ce, Indexed(ce), NEW d
    PROVE  Indexed(CE_update_day(ce, d))
<1> DEFINE q == [i \in DOMAIN ce.channels |->
                   Shrunk(CutZeros(Sorted(Zeroed(ce.channels[i], d))))]
<1>1. Len(ce.channels) \in Nat /\ DOMAIN ce.channels = 1 .. Len(ce.channels)
  BY ArrayIs DEF Indexed
<1>2. \A i \in 1 .. Len(ce.channels) : EntryRight(q[i]) /\ q[i].name = ce.channels[i].name
  <2> SUFFICES ASSUME NEW i \in 1 .. Len(ce.channels) PROVE EntryRight(q[i]) /\ q[i].name = ce.channels[i].name
    OBVIOUS
  <2>1. PICK c : c = ce.channels[i]
    OBVIOUS
  <2>2. EntryRight(c)
    BY <2>1 DEF Indexed
  <2>3. q[i] = Shrunk(CutZeros(Sorted(Zeroed(c, d))))
    BY <1>1, <2>1
  <2> HIDE DEF q
  <2> QED BY <2>1, <2>2, <2>3, DayKeeps
<1>3. q = [i \in 1 .. Len(ce.channels) |-> q[i]]
  BY <1>1
<1>4. CE_update_day(ce, d) = ForgetObsolete([ce EXCEPT !.channels = q])
  BY DEF CE_update_day
<1> HIDE DEF q
<1>5. IsArray(q) /\ Len(q) = Len(ce.channels)
  BY <1>1, <1>3, ArrayFrom
<1>6. Indexed([ce EXCEPT !.channels = q])
  BY <1>2, <1>5, SameNames
<1> QED BY <1>4, <1>6, ForgetKeeps

(* DB_save_iteration() packs the notes of the channels it writes; the index*)
(* stays right.                                                            *)
LEMMA SaveIndexed ==
    ASSUME NEW ce, Indexed(ce)
    PROVE  Indexed(DB_save_iteration(ce))
<1> DEFINE q == [i \in DOMAIN ce.channels |-> Packed(ce.channels[i])]
<1>1. Len(ce.channels) \in Nat /\ DOMAIN ce.channels = 1 .. Len(ce.channels)
  BY ArrayIs DEF Indexed
<1>2. \A i \in 1 .. Len(ce.channels) : EntryRight(q[i]) /\ q[i].name = ce.channels[i].name
  BY <1>1, NotesKeep DEF Indexed
<1>3. q = [i \in 1 .. Len(ce.channels) |-> q[i]]
  BY <1>1
<1>4. DB_save_iteration(ce) = [ce EXCEPT !.channels = q]
  BY DEF DB_save_iteration
<1> HIDE DEF q
<1>5. IsArray(q) /\ Len(q) = Len(ce.channels)
  BY <1>1, <1>3, ArrayFrom
<1> QED BY <1>2, <1>4, <1>5, SameNames
-----------------------------------------------------------------------------
(* All sub-databases.                                                      *)
IndexedAll(D) == D = [k \in Subs |-> D[k]] /\ \A k \in Subs : Indexed(D[k])

(* There is an entry exactly when the channel is found.                    *)
LEMMA ThereIfFound ==
    ASSUME IndexRight, NEW D, IndexedAll(D), NEW n \in Names
    PROVE  /\ DBHash[n] \in Subs /\ Indexed(D[DBHash[n]])
           /\ DB_channel_exists(D, n) <=>
                \E i \in 1 .. Len(D[DBHash[n]].channels) : D[DBHash[n]].channels[i].name = n
           /\ DB_channel_exists(D, n) =>
                EntryRight(ChannelEntry(D, n)) /\ ChannelEntry(D, n).name = n
<1>1. DBHash[n] \in Subs
  BY DEF Subs
<1>2. PICK ce : ce = D[DBHash[n]]
  OBVIOUS
<1>3. Indexed(ce)
  BY <1>1, <1>2 DEF IndexedAll
<1>4. PICK p : p = CE_find_channel(ce, n)
  OBVIOUS
<1>5. \/ p = 0 /\ \A i \in 1 .. Len(ce.channels) : ce.channels[i].name # n
      \/ p \in 1 .. Len(ce.channels) /\ p # 0 /\ ce.channels[p].name = n
  BY <1>3, <1>4, FindFacts
<1>6. DB_channel_exists(D, n) <=> p # 0
  BY <1>2, <1>4 DEF DB_channel_exists
<1>7. ChannelEntry(D, n) = ce.channels[p]
  BY <1>2, <1>4 DEF ChannelEntry
<1>8. DB_channel_exists(D, n) => EntryRight(ChannelEntry(D, n)) /\ ChannelEntry(D, n).name = n
  BY <1>3, <1>5, <1>6, <1>7 DEF Indexed
<1> QED BY <1>1, <1>2, <1>3, <1>5, <1>6, <1>8

(* Changing the entry of a channel that is there.                          *)
LEMMA PutKeeps ==
    ASSUME IndexRight, NEW D, IndexedAll(D), NEW n \in Names, DB_channel_exists(D, n),
           NEW c, EntryRight(c), c.name = n
    PROVE  /\ IndexedAll(Put(D, n, c))
           /\ \A m \in Names : DB_channel_exists(D, m) => DB_channel_exists(Put(D, n, c), m)
<1>1. PICK s : s = DBHash[n]
  OBVIOUS
<1>2. PICK ce : ce = D[s]
  OBVIOUS
<1>3. PICK p : p = CE_find_channel(ce, n)
  OBVIOUS
<1>4. s \in Subs /\ Indexed(ce)
  BY <1>1, <1>2, ThereIfFound
<1>5. p \in 1 .. Len(ce.channels) /\ ce.channels[p].name = n
  <2>1. p # 0
    BY <1>1, <1>2, <1>3 DEF DB_channel_exists
  <2> QED BY <1>3, <1>4, <2>1, FindFacts
<1>6. PICK q : q = [ce.channels EXCEPT ![p] = c]
  OBVIOUS
<1>7. PICK e : e = [ce EXCEPT !.channels = q]
  OBVIOUS
<1>8. PICK E : E = [D EXCEPT ![s] = e]
  OBVIOUS
<1>9. Put(D, n, c) = E
  BY <1>1, <1>2, <1>3, <1>6, <1>7, <1>8 DEF Put
<1>10. IsArray(ce.channels) /\ ce.channels = [i \in 1 .. Len(ce.channels) |-> ce.channels[i]]
  BY <1>4, ArrayFunction DEF Indexed
<1>11. IsArray(q) /\ Len(q) = Len(ce.channels)
  BY <1>6, <1>10, ExceptArray
<1>12. \A i \in 1 .. Len(ce.channels) : q[i] = IF i = p THEN c ELSE ce.channels[i]
  BY <1>6, <1>10
<1>13. \A i \in 1 .. Len(ce.channels) : EntryRight(q[i]) /\ q[i].name = ce.channels[i].name
  BY <1>4, <1>5, <1>12 DEF Indexed
<1>14. Indexed(e) /\ e.channels = q
  BY <1>4, <1>7, <1>11, <1>13, SameNames
<1>15. E = [k \in Subs |-> E[k]] /\ \A k \in Subs : E[k] = IF k = s THEN e ELSE D[k]
  BY <1>8 DEF IndexedAll
<1>16. IndexedAll(E)
  BY <1>14, <1>15 DEF IndexedAll
<1>17. ASSUME NEW m \in Names, DB_channel_exists(D, m)
       PROVE  DB_channel_exists(E, m)
  <2>1. PICK t : t = DBHash[m]
    OBVIOUS
  <2>2. t \in Subs /\ \E i \in 1 .. Len(D[t].channels) : D[t].channels[i].name = m
    BY <1>17, <2>1, ThereIfFound
  <2>3. PICK i \in 1 .. Len(D[t].channels) : D[t].channels[i].name = m
    BY <2>2
  <2>4. i \in 1 .. Len(E[t].channels) /\ E[t].channels[i].name = m
    <3>1. CASE t # s
      <4>1. E[t] = D[t]
        BY <1>15, <2>2, <3>1
      <4> QED BY <2>3, <4>1
    <3>2. CASE t = s
      <4>1. E[t] = e /\ D[t] = ce
        BY <1>2, <1>15, <2>2, <3>2
      <4> QED BY <1>11, <1>13, <1>14, <2>3, <4>1
    <3> QED BY <3>1, <3>2
  <2> QED BY <1>16, <2>1, <2>4, ThereIfFound
<1> QED BY <1>9, <1>16, <1>17

(* DB_set_write_channel(): the channel that was open is closed, the one     *)
(* that is asked for is there.                                             *)
WriteRight(D, w) == w # None => w \in Names /\ DB_channel_exists(D, w)

(* DB_set_write_channel(): sorting the operators of the channel that was   *)
(* open leaves every index right.                                          *)
LEMMA ClosedKeeps ==
    ASSUME IndexRight, NEW D, IndexedAll(D), WriteRight(D, write)
    PROVE  IndexedAll(Closed(D))
<1>1. CASE write = None
  BY <1>1 DEF Closed
<1>2. CASE write # None
  <2>1. write \in Names /\ DB_channel_exists(D, write)
    BY <1>2 DEF WriteRight
  <2>2. PICK n : n = write
    OBVIOUS
  <2>3. PICK c : c = ChannelEntry(D, n)
    OBVIOUS
  <2>4. n \in Names /\ DB_channel_exists(D, n)
    BY <2>1, <2>2
  <2>5. EntryRight(c) /\ c.name = n
    BY <2>3, <2>4, ThereIfFound
  <2>6. EntryRight(Sorted(c)) /\ Sorted(c).name = n
    BY <2>5, SortedKeeps
  <2>7. PICK z : z = Sorted(c)
    OBVIOUS
  <2>8. IndexedAll(Put(D, n, z))
    BY <2>4, <2>6, <2>7, PutKeeps
  <2>9. Closed(D) = Put(D, n, z)
    BY <1>2, <2>2, <2>3, <2>7 DEF Closed
  <2> QED BY <2>8, <2>9
<1> QED BY <1>1, <1>2

(* DB_set_write_channel(): the channel that is asked for is there          *)
(* afterwards, created if need be, and every index is right.               *)
LEMMA OpenKeeps ==
    ASSUME IndexRight, NEW D, IndexedAll(D), WriteRight(D, write), NEW n \in Names
    PROVE  /\ IndexedAll(DB_set_write_channel(D, n)) /\ DB_channel_exists(DB_set_write_channel(D, n), n)
           /\ EntryRight(ChannelEntry(DB_set_write_channel(D, n), n))
           /\ ChannelEntry(DB_set_write_channel(D, n), n).name = n
<1>1. PICK C : C = Closed(D)
  OBVIOUS
<1>2. IndexedAll(C)
  BY <1>1, ClosedKeeps
<1>3. PICK E : E = DB_set_write_channel(D, n)
  OBVIOUS
<1>4. IndexedAll(E) /\ DB_channel_exists(E, n)
  <2>1. CASE DB_channel_exists(C, n)
    <3>1. E = C
      BY <1>1, <1>3, <2>1 DEF DB_set_write_channel
    <3> QED BY <1>2, <2>1, <3>1
  <2>2. CASE ~DB_channel_exists(C, n)
    <3>1. PICK s : s = DBHash[n]
      OBVIOUS
    <3>2. PICK ce : ce = C[s]
      OBVIOUS
    <3>3. s \in Subs /\ Indexed(ce)
      BY <1>2, <3>1, <3>2, ThereIfFound
    <3>4. CE_find_channel(ce, n) = 0
      BY <2>2, <3>1, <3>2 DEF DB_channel_exists
    <3>5. PICK e : e = CE_new_channel(ce, n)
      OBVIOUS
    <3>6. Indexed(e) /\ CE_find_channel(e, n) # 0
      BY <3>3, <3>4, <3>5, NewKeeps
    <3>7. E = [C EXCEPT ![s] = e]
      BY <1>1, <1>3, <2>2, <3>1, <3>2, <3>5 DEF DB_set_write_channel
    <3>8. E = [k \in Subs |-> E[k]] /\ \A k \in Subs : E[k] = IF k = s THEN e ELSE C[k]
      BY <1>2, <3>7 DEF IndexedAll
    <3>9. IndexedAll(E)
      BY <1>2, <3>6, <3>8 DEF IndexedAll
    <3>10. DB_channel_exists(E, n)
      BY <3>1, <3>3, <3>6, <3>8 DEF DB_channel_exists
    <3> QED BY <3>9, <3>10
  <2> QED BY <2>1, <2>2
<1>5. EntryRight(ChannelEntry(E, n)) /\ ChannelEntry(E, n).name = n
  BY <1>4, ThereIfFound
<1> QED BY <1>3, <1>4, <1>5
(* What the property says of sub-databases that are indexed right.         *)
LEMMA IndexedFinds ==
    ASSUME IndexRight, IndexedAll(db)
    PROVE  IndexFinds
<1> SUFFICES ASSUME NEW k \in Subs, NEW ce, ce = db[k]
             PROVE  /\ \A i \in DOMAIN ce.channels : CE_find_channel(ce, ce.channels[i].name) = i
                    /\ \A h \in Hashes : ce.subsort[h] = Cardinality({i \in DOMAIN ce.channels : CEHash[ce.channels[i].name] < h})
                    /\ \A i \in DOMAIN ce.channels : Len(ce.channels[i].chanop) <= ce.channels[i].chanopmax
  BY DEF IndexFinds
<1>1. Indexed(ce)
  BY DEF IndexedAll
<1>2. Len(ce.channels) \in Nat /\ DOMAIN ce.channels = 1 .. Len(ce.channels)
  BY <1>1, ArrayIs DEF Indexed
<1>3. \A i \in DOMAIN ce.channels : CE_find_channel(ce, ce.channels[i].name) = i
  BY <1>1, <1>2, FindsOwn
<1>4. ASSUME NEW h \in Hashes
      PROVE  ce.subsort[h] = Cardinality({i \in DOMAIN ce.channels : CEHash[ce.channels[i].name] < h})
  <2>1. /\ ce.subsort[h] \in Nat /\ ce.subsort[h] <= Len(ce.channels)
        /\ \A i \in 1 .. Len(ce.channels) : i <= ce.subsort[h] <=> CEHash[ce.channels[i].name] < h
    BY <1>1 DEF Indexed, HashAt
  <2>2. PICK m : m = ce.subsort[h]
    OBVIOUS
  <2>3. {i \in DOMAIN ce.channels : CEHash[ce.channels[i].name] < h} = 1 .. m
    BY <1>2, <2>1, <2>2
  <2>4. m \in Nat
    BY <2>1, <2>2
  <2>5. Cardinality(1 .. m) = m
    BY <2>4, CountUpTo
  <2> QED BY <2>2, <2>3, <2>5
<1>5. \A i \in DOMAIN ce.channels : Len(ce.channels[i].chanop) <= ce.channels[i].chanopmax
  BY <1>1, <1>2 DEF Indexed, EntryRight
<1> QED BY <1>3, <1>4, <1>5

-----------------------------------------------------------------------------
(* The copies on disk, one of which may be read back.                      *)
CopyRight(x) == x.state = "whole" => Indexed(x.ce)
CopiesRight(f) == CopyRight(f.ocf) /\ CopyRight(f.bak) /\ CopyRight(f.old)
SceneRight(s) == s \in [saves : Nat, steps : Nat, names : SUBSET Names, commands : BOOLEAN]
IndexInv ==
    /\ IndexedAll(db) /\ WriteRight(db, write) /\ SceneRight(dbscene)
    /\ \A k \in Subs : CopiesRight(files[k])

(* A file whose last channel lost its last operators loads as an index that*)
(* is right: DB_load_iteration().                                          *)
LEMMA ShortenedRight ==
    ASSUME NEW ce, Indexed(ce), NEW e \in Shortened(ce)
    PROVE  Indexed(e)
<1> DEFINE L == Len(ce.channels)
<1>1. L \in Nat /\ IsArray(ce.channels) /\ ce.channels = [i \in 1 .. L |-> ce.channels[i]]
  BY ArrayIs, ArrayFunction DEF Indexed
<1>2. ce.channels # <<>>
  BY DEF Shortened
<1>3. L \in 1 .. L
  <2>1. L # 0
    BY <1>1, <1>2 DEF IsArray
  <2> QED BY <1>1, <2>1
<1>4. PICK k : e = Blanked(ce, k)
  BY <1>2 DEF Shortened
<1>5. PICK c : c = ce.channels[L]
  OBVIOUS
<1>6. EntryRight(c)
  BY <1>3, <1>5 DEF Indexed
<1> DEFINE oplist == [i \in DOMAIN c.chanop |-> IF i <= k THEN c.chanop[i] ELSE NewOp(None)]
<1>7. Len(c.chanop) \in Nat /\ DOMAIN c.chanop = 1 .. Len(c.chanop)
  BY <1>6, ArrayIs DEF EntryRight
<1>8. oplist = [i \in 1 .. Len(c.chanop) |-> oplist[i]]
  BY <1>7
<1>9. PICK x : x = [c EXCEPT !.chanop = oplist]
  OBVIOUS
<1>10. PICK q : q = [ce.channels EXCEPT ![L] = x]
  OBVIOUS
<1>11. e = [ce EXCEPT !.channels = q]
  BY <1>4, <1>5, <1>9, <1>10 DEF Blanked
<1> HIDE DEF oplist, L
<1>12. IsArray(oplist) /\ Len(oplist) = Len(c.chanop) /\ Len(oplist) <= Len(c.chanop)
  BY <1>7, <1>8, ArrayFrom
<1>13. EntryRight(x) /\ x.name = c.name
  BY <1>6, <1>9, <1>12, EntryChanges
<1>14. IsArray(q) /\ Len(q) = Len(ce.channels)
  BY <1>1, <1>10, ExceptArray
<1>15. \A i \in 1 .. L : q[i] = IF i = L THEN x ELSE ce.channels[i]
  BY <1>1, <1>10
<1>16. \A i \in 1 .. L : EntryRight(q[i]) /\ q[i].name = ce.channels[i].name
  BY <1>5, <1>13, <1>15 DEF Indexed, L
<1> QED BY <1>11, <1>14, <1>16, SameNames DEF L

(* DB_save(): each of the three copies is right after a save, and at each  *)
(* point at which one may be broken off.                                   *)
LEMMA SavedRight ==
    ASSUME NEW f, CopiesRight(f), NEW ce, Indexed(ce)
    PROVE  CopiesRight(Saved(f, ce)) /\ \A g \in Interrupted(f, ce) : CopiesRight(g)
<1>1. CopyRight(Gone) /\ CopyRight(Whole(ce, day)) /\ CopyRight(f.bak) /\ CopyRight(f.old)
  BY DEF CopyRight, Gone, Whole, CopiesRight
<1>2. \A o \in Cut(ce) : CopyRight(o)
  <2>1. CopyRight(Torn)
    BY DEF CopyRight, Torn
  <2>2. \A e \in Shortened(ce) : CopyRight(Whole(e, day))
    BY ShortenedRight DEF CopyRight, Whole
  <2> QED BY <2>1, <2>2 DEF Cut
<1>3. \A x, y, z : CopyRight(x) /\ CopyRight(y) /\ CopyRight(z) => CopiesRight(Copies(x, y, z))
  BY DEF CopiesRight, Copies
<1>4. CopiesRight(Saved(f, ce))
  BY <1>1, <1>3 DEF Saved
<1>5. \A g \in Interrupted(f, ce) : CopiesRight(g)
  BY <1>1, <1>2, <1>3 DEF Interrupted
<1> QED BY <1>4, <1>5

(* DB_load(): whatever copy it takes, or none, the index of what is loaded *)
(* is right.                                                               *)
LEMMA LoadRight ==
    ASSUME IndexRight, NEW f, CopiesRight(f)
    PROVE  Indexed(DB_load(f).ce)
<1>1. Indexed(Whole(CE_reset, today).ce)
  BY ResetIndexed DEF Whole
<1> QED BY <1>1 DEF DB_load, CopiesRight, CopyRight
-----------------------------------------------------------------------------
(* The steps.                                                              *)
SomeChange(n, c) ==
    /\ dbscene' = [dbscene EXCEPT !.steps = @ - 1] /\ dbscene.steps > 0 /\ write' = n
    /\ db' = Put(DB_set_write_channel(db, n), n, c) /\ UNCHANGED files

(* A change of one channel through the write channel keeps the invariant.  *)
LEMMA ChangeKeeps ==
    ASSUME IndexRight, IndexInv, NEW n \in Names, NEW c, SomeChange(n, c),
           EntryRight(c), c.name = n
    PROVE  IndexInv'
<1>1. PICK D : D = DB_set_write_channel(db, n)
  OBVIOUS
<1>2. IndexedAll(D) /\ DB_channel_exists(D, n)
  BY <1>1, OpenKeeps DEF IndexInv
<1>3. db' = Put(D, n, c)
  BY <1>1 DEF SomeChange
<1>4. IndexedAll(db') /\ DB_channel_exists(db', n)
  BY <1>2, <1>3, PutKeeps
<1>5. WriteRight(db', write')
  BY <1>4 DEF WriteRight, SomeChange
<1>6. SceneRight(dbscene')
  BY DEF SomeChange, IndexInv, SceneRight
<1>7. \A k \in Subs : CopiesRight(files'[k])
  BY DEF SomeChange, IndexInv
<1> QED BY <1>4, <1>5, <1>6, <1>7 DEF IndexInv

(* The commands and the gathering change the entry of one channel.         *)
LEMMA CommandsChange ==
    ASSUME IndexRight, IndexInv, NEW n \in Names,
           \/ \E hosts \in HostLists : update_scores_of_channel(n, hosts)
           \/ add_fix(n)
           \/ process_cmd_addnote(n) \/ process_cmd_block(n) \/ process_cmd_unblock(n)
           \/ process_cmd_alert(n) \/ process_cmd_unalert(n)
           \/ \E k \in 1 .. MAXNOTECOUNT : process_cmd_delnote(n, k)
    PROVE  IndexInv'
<1>1. PICK e : e = ChannelEntry(DB_set_write_channel(db, n), n)
  OBVIOUS
<1>2. EntryRight(e) /\ e.name = n
  BY <1>1, OpenKeeps DEF IndexInv
<1>3. \A q : EntryRight([e EXCEPT !.flag = q]) /\ [e EXCEPT !.flag = q].name = n
  BY <1>2, EntryChanges
<1>4. \A c, t : EntryRight(c) /\ c.name = n => EntryRight(DB_channel_add_note(c, t)) /\ DB_channel_add_note(c, t).name = n
  BY NotesKeep
<1>5. SUFFICES \E c : SomeChange(n, c) /\ EntryRight(c) /\ c.name = n
  BY ChangeKeeps
<1>6. CASE \E hosts \in HostLists : update_scores_of_channel(n, hosts)
  <2>1. PICK hosts \in HostLists : update_scores_of_channel(n, hosts)
    BY <1>6
  <2>2. PICK c : c = Registered(e, hosts, day)
    OBVIOUS
  <2>3. SomeChange(n, c)
    BY <1>1, <2>1, <2>2 DEF update_scores_of_channel, SomeChange
  <2>4. EntryRight(c) /\ c.name = n
    BY <1>2, <2>2, RegisteredKeeps DEF IndexRight
  <2> QED BY <2>3, <2>4
<1>7. CASE add_fix(n)
  <2>1. SomeChange(n, e)
    BY <1>1, <1>7 DEF add_fix, Change, SomeChange
  <2> QED BY <1>2, <2>1
<1>8. CASE process_cmd_addnote(n)
  <2>1. SomeChange(n, DB_channel_add_note(e, "NOTE"))
    BY <1>1, <1>8 DEF process_cmd_addnote, Change, SomeChange
  <2> QED BY <1>2, <1>4, <2>1
<1>9. CASE process_cmd_block(n)
  <2>1. SomeChange(n, DB_channel_add_note([e EXCEPT !.flag = {"BLOCK"}], "BLOCK"))
    BY <1>1, <1>9 DEF process_cmd_block, Change, SomeChange
  <2> QED BY <1>3, <1>4, <2>1
<1>10. CASE process_cmd_unblock(n)
  <2>1. SomeChange(n, DB_channel_add_note([e EXCEPT !.flag = @ \ {"BLOCK"}], "UNBLOCK"))
    BY <1>1, <1>10 DEF process_cmd_unblock, Change, SomeChange
  <2> QED BY <1>3, <1>4, <2>1
<1>11. CASE process_cmd_alert(n)
  <2>1. SomeChange(n, DB_channel_add_note([e EXCEPT !.flag = {"ALERT"}], "ALERT"))
    BY <1>1, <1>11 DEF process_cmd_alert, Change, SomeChange
  <2> QED BY <1>3, <1>4, <2>1
<1>12. CASE process_cmd_unalert(n)
  <2>1. SomeChange(n, DB_channel_add_note([e EXCEPT !.flag = @ \ {"ALERT"}], "UNALERT"))
    BY <1>1, <1>12 DEF process_cmd_unalert, Change, SomeChange
  <2> QED BY <1>3, <1>4, <2>1
<1>13. CASE \E k \in 1 .. MAXNOTECOUNT : process_cmd_delnote(n, k)
  <2>1. PICK k \in 1 .. MAXNOTECOUNT : process_cmd_delnote(n, k)
    BY <1>13
  <2>2. SomeChange(n, DB_channel_del_note(e, k))
    BY <1>1, <2>1 DEF process_cmd_delnote, Change, SomeChange
  <2>3. EntryRight(DB_channel_del_note(e, k)) /\ DB_channel_del_note(e, k).name = n
    BY <1>2, NotesKeep
  <2> QED BY <2>2, <2>3
<1> QED BY <1>6, <1>7, <1>8, <1>9, <1>10, <1>11, <1>12, <1>13

(* DB_update_day(): the rotation of a day, which sorts every channel and   *)
(* deletes the obsolete ones, keeps the invariant.                         *)
LEMMA RotateIndexed ==
    ASSUME IndexRight, IndexInv, gather_rotate
    PROVE  IndexInv'
<1>1. PICK C : C = Closed(db)
  OBVIOUS
<1>2. IndexedAll(C)
  BY <1>1, ClosedKeeps DEF IndexInv
<1>3. db' = [k \in Subs |-> CE_update_day(C[k], today)]
  BY <1>1 DEF gather_rotate
<1>4. \A k \in Subs : db'[k] = CE_update_day(C[k], today) /\ Indexed(C[k])
  BY <1>2, <1>3 DEF IndexedAll
<1>5. \A k \in Subs : Indexed(db'[k])
  BY <1>4, DayIndexed
<1>6. IndexedAll(db')
  BY <1>3, <1>5 DEF IndexedAll
<1>7. write' = None /\ files' = files /\ dbscene' = dbscene
  BY DEF gather_rotate
<1> QED BY <1>6, <1>7 DEF IndexInv, WriteRight

(* A save, to the end or not.                                              *)
LEMMA SavesIndexed ==
    ASSUME IndexRight, IndexInv, DB_save \/ SaveBroken
    PROVE  IndexInv'
<1>1. PICK D : D = [k \in Subs |-> DB_save_iteration(db[k])]
  OBVIOUS
<1>2. \A k \in Subs : Indexed(D[k])
  BY <1>1, SaveIndexed DEF IndexInv, IndexedAll
<1>3. \A k \in Subs : CopiesRight(Saved(files[k], D[k])) /\ \A g \in Interrupted(files[k], D[k]) : CopiesRight(g)
  BY <1>2, SavedRight DEF IndexInv
<1>4. \A k \in Subs : CopiesRight(files[k])
  BY DEF IndexInv
<1>5. \A k \in Subs : CopiesRight(files'[k])
  <2>1. CASE DB_save
    <3>1. files' = [k \in Subs |-> Saved(files[k], D[k])]
      BY <1>1, <2>1 DEF DB_save
    <3> QED BY <1>3, <3>1
  <2>2. CASE SaveBroken
    <3>1. PICK k \in Subs : \E f \in Interrupted(files[k], D[k]) :
             files' = [j \in Subs |-> IF j \in {i \in Subs : i < k} THEN Saved(files[j], D[j])
                                      ELSE IF j = k THEN f ELSE files[j]]
      BY <1>1, <2>2 DEF SaveBroken
    <3> DEFINE done == {i \in Subs : i < k}
    <3>2. PICK f \in Interrupted(files[k], D[k]) :
             files' = [j \in Subs |-> IF j \in done THEN Saved(files[j], D[j]) ELSE IF j = k THEN f ELSE files[j]]
      BY <3>1
    <3> HIDE DEF done
    <3>3. ASSUME NEW j \in Subs PROVE CopiesRight(files'[j])
      <4>1. files'[j] = IF j \in done THEN Saved(files[j], D[j]) ELSE IF j = k THEN f ELSE files[j]
        BY <3>2
      <4> QED BY <1>3, <1>4, <3>2, <4>1
    <3> QED BY <3>3
  <2> QED BY <2>1, <2>2
<1>6. db' = db /\ write' = write
  BY DEF DB_save, SaveBroken
<1>7. dbscene' = [dbscene EXCEPT !.saves = @ - 1] /\ dbscene.saves > 0
  BY DEF DB_save, SaveBroken
<1>8. SceneRight(dbscene')
  BY <1>7 DEF IndexInv, SceneRight
<1> QED BY <1>5, <1>6, <1>8 DEF IndexInv, WriteRight, DB_channel_exists

(* _modinit(): a start, which loads one of the copies, keeps the invariant.*)
LEMMA LoadIndexed ==
    ASSUME IndexRight, IndexInv, db_modinit
    PROVE  IndexInv'
<1>1. db' = [k \in Subs |-> DB_load(files[k]).ce] /\ write' = None /\ files' = files /\ dbscene' = dbscene
  BY DEF db_modinit
<1>2. \A k \in Subs : Indexed(db'[k])
  BY <1>1, LoadRight DEF IndexInv
<1>3. IndexedAll(db')
  BY <1>1, <1>2 DEF IndexedAll
<1> QED BY <1>1, <1>3 DEF IndexInv, WriteRight

(* Whatever the service gathers, is told, forgets after DAYSAMPLES days,   *)
(* writes and reads back, every channel it has an entry of is found by     *)
(* CE_find_channel() where it is, subsort counts the entries of lower      *)
(* hashes, and the operators of no channel outgrow their array             *)
(* (CE_new_channel(), CE_del_channel(), CE_register_op(), CE_update_day()). *)
THEOREM EntriesFound ==
    ASSUME IndexRight
    PROVE  DBSpec => []IndexFinds
<1>1. DBInit => IndexInv
  <2> SUFFICES ASSUME DBInit PROVE IndexInv
    OBVIOUS
  <2>1. IndexedAll(db)
    BY ResetIndexed DEF DBInit, IndexedAll
  <2>2. SceneRight(dbscene)
    BY DEF DBInit, SceneRight, IndexRight
  <2>3. CopyRight(Gone)
    BY DEF CopyRight, Gone
  <2>4. \A k \in Subs : CopiesRight(files[k])
    BY <2>3 DEF DBInit, CopiesRight, Copies
  <2> QED BY <2>1, <2>2, <2>4 DEF DBInit, IndexInv, WriteRight
<1>2. IndexInv /\ [DBNext]_(dbvars) => IndexInv'
  <2> SUFFICES ASSUME IndexInv, [DBNext]_(dbvars) PROVE IndexInv'
    OBVIOUS
  <2>1. CASE ocf_save_database \/ db_moddeinit \/ SaveBroken
    BY <2>1, SavesIndexed DEF ocf_save_database, db_moddeinit
  <2>2. CASE gather_rotate
    BY <2>2, RotateIndexed
  <2>3. CASE db_modinit
    BY <2>3, LoadIndexed
  <2>4. CASE DBCrash \/ Midnight \/ UNCHANGED dbvars
    <3>1. UNCHANGED <<db, write, files, dbscene>>
      BY <2>4 DEF DBCrash, Midnight, dbvars
    <3> QED BY <3>1 DEF IndexInv, WriteRight, DB_channel_exists
  <2>5. ASSUME NEW n \in dbscene.names,
               \/ \E hosts \in HostLists : update_scores_of_channel(n, hosts)
               \/ add_fix(n)
               \/ process_cmd_addnote(n) \/ process_cmd_block(n) \/ process_cmd_unblock(n)
               \/ process_cmd_alert(n) \/ process_cmd_unalert(n)
               \/ \E k \in 1 .. MAXNOTECOUNT : process_cmd_delnote(n, k)
        PROVE  IndexInv'
    <3>1. n \in Names
      BY DEF IndexInv, SceneRight
    <3> QED BY <2>5, <3>1, CommandsChange
  <2> QED BY <2>1, <2>2, <2>3, <2>4, <2>5 DEF DBNext
<1>3. IndexInv => IndexFinds
  BY IndexedFinds DEF IndexInv
<1> QED BY <1>1, <1>2, <1>3, PTL DEF DBSpec

-----------------------------------------------------------------------------
(* The fixes.                                                              *)

Lines == [cmd : {"-iklb", "+o", "PART"}, nicks : SUBSET ChanClients]
PartOnItsWay(q) == \E i \in DOMAIN q : q[i].cmd = "PART"
FixInv ==
    /\ members \subseteq ChanClients /\ svcqueue \in Seq(Lines)
    /\ manual = None \/ auto = None
    /\ svc => PartOnItsWay(svcqueue)

(* The service enters the channel with its PART behind what it has to say. *)
LEMMA EnterLeaves ==
    ASSUME FixInv, NEW lines \in Seq(Lines), Enter(lines)
    PROVE  svcqueue' \in Seq(Lines) /\ PartOnItsWay(svcqueue')
<1> DEFINE part == Line("PART", {})
           first == svcqueue \o lines
<1>1. part \in Lines /\ part.cmd = "PART"
  BY DEF Line, Lines
<1>2. first \in Seq(Lines) /\ svcqueue' = first \o <<part>>
  BY DEF Enter, FixInv
<1> HIDE DEF part, first
<1>3. svcqueue' \in Seq(Lines) /\ Len(svcqueue') = Len(first) + 1 /\ svcqueue'[Len(first) + 1] = part
  BY <1>1, <1>2
<1> QED BY <1>1, <1>3 DEF PartOnItsWay

(* Or it stays where it is.                                                *)
LEMMA StayKeeps ==
    ASSUME FixInv, StayOut
    PROVE  svcqueue' \in Seq(Lines) /\ (svc' => PartOnItsWay(svcqueue'))
BY DEF FixInv, StayOut

(* What it has to say are lines.                                           *)
LEMMA RemoveModesLines == RemoveModes \in Seq(Lines)
<1>1. Line("-iklb", {}) \in Lines
  BY DEF Line, Lines
<1> QED BY <1>1 DEF RemoveModes

(* Whoever it gives ops to, GiveOps() does one or the other.               *)
LEMMA GiveOpsLines ==
    ASSUME FixInv, NEW n, NEW min, NEW S \in find_scored_nicks(n, min),
           IF S = {} THEN StayOut ELSE Enter(<<Line("+o", S)>>)
    PROVE  svcqueue' \in Seq(Lines) /\ (svc' => PartOnItsWay(svcqueue'))
<1>1. S \subseteq ChanClients
  BY DEF find_scored_nicks, FixInv
<1>2. <<Line("+o", S)>> \in Seq(Lines)
  BY <1>1 DEF Line, Lines
<1> QED BY <1>2, EnterLeaves, StayKeeps

(* One attempt of either fix.                                              *)
LEMMA AttemptLines ==
    ASSUME FixInv, ocf_fix_opless_channel \/ ocf_manual_fix_stage_one \/ ocf_manual_fix_stage_two
    PROVE  svcqueue' \in Seq(Lines) /\ (svc' => PartOnItsWay(svcqueue'))
<1>1. CASE StayOut
  BY <1>1, StayKeeps
<1>2. CASE Enter(RemoveModes)
  BY <1>2, EnterLeaves, RemoveModesLines
<1>3. CASE \E n, min : \E S \in find_scored_nicks(n, min) :
             IF S = {} THEN StayOut ELSE Enter(<<Line("+o", S)>>)
  BY <1>3, GiveOpsLines
<1>4. CASE ocf_fix_opless_channel
  BY <1>1, <1>2, <1>3, <1>4 DEF ocf_fix_opless_channel, GiveOps
<1>5. CASE ocf_manual_fix_stage_one
  BY <1>1, <1>2, <1>5 DEF ocf_manual_fix_stage_one
<1>6. CASE ocf_manual_fix_stage_two
  BY <1>1, <1>3, <1>6 DEF ocf_manual_fix_stage_two, GiveOps
<1> QED BY <1>4, <1>5, <1>6

(* The timed events.                                                       *)
LEMMA EventKeepsFix ==
    ASSUME FixInv, Event
    PROVE  FixInv'
<1>1. CASE ocf_check_split
  BY <1>1 DEF FixInv, ocf_check_split, chanvars, fixvars
<1>2. CASE ocf_check_opless_channels
  <2>1. UNCHANGED <<members, svcqueue, svc, manual>> /\ (auto' # auto => manual = None)
    BY <1>2 DEF ocf_check_opless_channels, chanvars, is_being_fixed, is_being_chanfixed
  <2> QED BY <2>1 DEF FixInv
<1>3. CASE ocf_fix_autofix_channels
  <2>1. UNCHANGED <<members, manual>>
    BY <1>3 DEF ocf_fix_autofix_channels, chanvars
  <2>2. auto = None => UNCHANGED auto
    BY <1>3 DEF ocf_fix_autofix_channels
  <2>3. UNCHANGED <<svc, svcqueue>> \/ StayOut \/ ocf_fix_opless_channel
    BY <1>3 DEF ocf_fix_autofix_channels
  <2>4. svcqueue' \in Seq(Lines) /\ (svc' => PartOnItsWay(svcqueue'))
    BY <2>3, AttemptLines, StayKeeps DEF StayOut
  <2> QED BY <2>1, <2>2, <2>4 DEF FixInv
<1>4. CASE ocf_fix_chanfix_channels
  <2>1. UNCHANGED <<members, auto>>
    BY <1>4 DEF ocf_fix_chanfix_channels
  <2>2. manual = None => UNCHANGED manual
    BY <1>4 DEF ocf_fix_chanfix_channels
  <2>3. UNCHANGED <<svc, svcqueue>> \/ StayOut \/ ocf_manual_fix_stage_one \/ ocf_manual_fix_stage_two
    BY <1>4 DEF ocf_fix_chanfix_channels
  <2>4. svcqueue' \in Seq(Lines) /\ (svc' => PartOnItsWay(svcqueue'))
    BY <2>3, AttemptLines, StayKeeps DEF StayOut
  <2> QED BY <2>1, <2>2, <2>4 DEF FixInv
<1> QED BY <1>1, <1>2, <1>3, <1>4 DEF Event

(* A line of the service is read: the PART stays behind the others, and    *)
(* takes the service out of the channel.                                   *)
LEMMA ReadKeepsFix ==
    ASSUME FixInv, ReadService
    PROVE  FixInv'
<1>1. /\ svcqueue # <<>> /\ svcqueue' = Tail(svcqueue) /\ svc' = (svc /\ Head(svcqueue).cmd # "PART")
      /\ UNCHANGED <<members, manual, auto>> /\ svcqueue \in Seq(Lines)
  BY DEF ReadService, fixvars, FixInv
<1>2. ASSUME svc' PROVE PartOnItsWay(svcqueue')
  <2>1. PICK i \in DOMAIN svcqueue : svcqueue[i].cmd = "PART"
    BY <1>1, <1>2 DEF FixInv, PartOnItsWay
  <2>2. i # 1
    <3>1. Head(svcqueue).cmd # "PART"
      BY ONLY <1>1, <1>2, Zenon
    <3>2. Head(svcqueue) = svcqueue[1]
      BY <1>1
    <3> QED BY <2>1, <3>1, <3>2
  <2>3. i - 1 \in DOMAIN svcqueue' /\ svcqueue'[i - 1] = svcqueue[i]
    BY <1>1, <2>1, <2>2
  <2> QED BY <2>1, <2>3 DEF PartOnItsWay
<1>3. svcqueue' \in Seq(Lines)
  BY <1>1
<1> QED BY <1>1, <1>2, <1>3 DEF FixInv

(* A channel is never on both lists, whatever commands, flags, splits and  *)
(* departures meet the events, and the service is in the channel only      *)
(* while its PART is on the way (add_autofix_channel(), is_being_fixed(),  *)
(* process_cmd_chanfix(), ocf_ojoin_channel()).                            *)
THEOREM FixedOneWay == FixSpec => []OneFix
<1>1. FixInit => FixInv
  BY DEF FixInit, FixInv
<1>2. FixInv /\ [FixNext]_(allfixvars) => FixInv'
  <2> SUFFICES ASSUME FixInv, [FixNext]_(allfixvars) PROVE FixInv'
    OBVIOUS
  <2>1. CASE Event
    BY <2>1, EventKeepsFix
  <2>2. CASE ReadService
    BY <2>2, ReadKeepsFix
  <2>3. CASE FixTick
    BY <2>3 DEF FixInv, FixTick, Older, chanvars
  <2>4. ASSUME NEW o \in BOOLEAN, process_cmd_chanfix(o) PROVE FixInv'
    BY <2>4 DEF FixInv, process_cmd_chanfix, chanvars, fixvars
  <2>5. CASE FlagCommand \/ SetModes \/ Netsplit \/ UNCHANGED allfixvars
    <3>1. UNCHANGED <<members, svc, svcqueue, auto, manual>>
      BY <2>5 DEF FlagCommand, SetFlag, SetModes, Netsplit, Happens, chanvars, fixvars, allfixvars
    <3> QED BY <3>1 DEF FixInv
  <2>6. ASSUME NEW c \in ChanClients, Join(c) \/ Leave(c) \/ Op(c) PROVE FixInv'
    <3>1. UNCHANGED <<svc, svcqueue, auto, manual>> /\ members' \subseteq members \cup {c}
      BY <2>6 DEF Join, Leave, Op, Happens, fixvars
    <3> QED BY <3>1 DEF FixInv
  <2> QED BY <2>1, <2>2, <2>3, <2>4, <2>5, <2>6 DEF FixNext
<1>3. FixInv => OneFix
  BY DEF FixInv, OneFix, is_being_chanfixed, is_being_autofixed, PartOnItsWay
<1> QED BY <1>1, <1>2, <1>3, PTL DEF FixSpec

-----------------------------------------------------------------------------
(* The users: lists of them and what is found in one.                      *)

IsUsers(U) == IsList(U) /\ UniqueIds(U) /\ \A i \in DOMAIN U : IsUser(U[i])
UniqueNames(U) ==
    \A i, j \in DOMAIN U : U[i].name = U[j].name /\ ~U[i].deleted /\ ~U[j].deleted => i = j

(* NamedUser() finds a user of that name, not deleted, if there is one.    *)
LEMMA NamedFacts ==
    ASSUME NEW U, IsList(U), NEW name
    PROVE  /\ NamedUser(U, name) = 0 => \A i \in DOMAIN U : U[i].name = name => U[i].deleted
           /\ NamedUser(U, name) # 0 => /\ NamedUser(U, name) \in DOMAIN U
                                    /\ U[NamedUser(U, name)].name = name /\ ~U[NamedUser(U, name)].deleted
<1> DEFINE at == {i \in DOMAIN U : U[i].name = name /\ ~U[i].deleted}
<1>1. at \in SUBSET Nat /\ 0 \notin at
  BY ListFacts
<1>2. CASE at = {}
  BY <1>2 DEF NamedUser
<1>3. CASE at # {}
  <2>1. PICK x \in at : \A y \in at : x <= y
    BY <1>1, <1>3, LeastNumber
  <2>2. Min(at) \in at
    BY <2>1 DEF Min
  <2>3. NamedUser(U, name) = Min(at)
    BY <1>3 DEF NamedUser
  <2>4. NamedUser(U, name) \in at /\ NamedUser(U, name) # 0
    BY <1>1, <2>2, <2>3
  <2> QED BY <2>4
<1> QED BY <1>2, <1>3

(* The id of a user leads to it.                                           *)
LEMMA ByIdFacts ==
    ASSUME NEW U, UniqueIds(U), NEW i \in DOMAIN U
    PROVE  ById(U, U[i].id) = U[i]
BY DEF ById, UniqueIds

(* ocf_users_get_unique_id() gives an id that no user has.                 *)
LEMMA NewId ==
    ASSUME NEW U, IsUsers(U)
    PROVE  /\ ocf_users_get_unique_id(U) \in Nat
           /\ \A i \in DOMAIN U : ocf_users_get_unique_id(U) # U[i].id
<1> DEFINE n == Len(U)
           A == {k \in 0 .. n : \E m \in {0} \cup {U[i].id : i \in 1 .. k} : \A i \in 1 .. k : m >= U[i].id}
           ids == {0} \cup {U[i].id : i \in DOMAIN U}
<1>1. n \in Nat /\ DOMAIN U = 1 .. n /\ \A i \in 1 .. n : U[i].id \in Nat
  BY ListFacts DEF IsUsers, IsUser
<1>2. 0 \in A
  BY <1>1
<1>3. ASSUME NEW k \in 1 .. n, k - 1 \in A PROVE k \in A
  <2>1. PICK m \in {0} \cup {U[i].id : i \in 1 .. k - 1} : \A i \in 1 .. k - 1 : m >= U[i].id
    BY <1>3
  <2>2. m \in Nat /\ U[k].id \in Nat
    BY <1>1
  <2>3. CASE m >= U[k].id
    <3>1. m \in {0} \cup {U[i].id : i \in 1 .. k}
      OBVIOUS
    <3>2. \A i \in 1 .. k : m >= U[i].id
      BY <1>1, <2>1, <2>3
    <3>3. k \in 0 .. n
      BY <1>1
    <3> QED BY <3>1, <3>2, <3>3
  <2>4. CASE ~(m >= U[k].id)
    <3>1. \A i \in 1 .. k : U[k].id >= U[i].id
      BY <1>1, <2>1, <2>2, <2>4
    <3>2. U[k].id \in {0} \cup {U[i].id : i \in 1 .. k}
      OBVIOUS
    <3>3. k \in 0 .. n
      BY <1>1
    <3> QED BY <3>1, <3>2, <3>3
  <2> QED BY <2>3, <2>4
<1>4. n \in A
  <2> HIDE DEF A
  <2>1. 0 .. n \subseteq A
    BY <1>1, <1>2, <1>3, UpTo
  <2> QED BY <1>1, <2>1
<1>5. PICK m \in ids : \A x \in ids : m >= x
  <2>1. PICK m \in {0} \cup {U[i].id : i \in 1 .. n} : \A i \in 1 .. n : m >= U[i].id
    BY <1>4
  <2>2. ids = {0} \cup {U[i].id : i \in 1 .. n}
    BY <1>1
  <2>3. m >= 0
    BY <1>1
  <2> QED BY <2>1, <2>2, <2>3
<1>6. Max(ids) \in ids /\ \A x \in ids : Max(ids) >= x
  BY <1>5 DEF Max
<1>7. Max(ids) \in Nat
  BY <1>1, <1>6
<1>8. ocf_users_get_unique_id(U) = 1 + Max(ids)
  BY DEF ocf_users_get_unique_id
<1> HIDE DEF ids
<1>9. \A i \in DOMAIN U : U[i].id \in ids /\ U[i].id \in Nat
  BY <1>1 DEF ids
<1> QED BY <1>6, <1>7, <1>8, <1>9

(* What a command may leave of a user, by the fields that matter to where  *)
(* it is found.                                                            *)
SameUser(u, v) == IsUser(v) /\ v.id = u.id /\ v.name = u.name /\ v.deleted = u.deleted

(* A change of one field does, and so does the choice of a main server,    *)
(* which is made once.                                                     *)
LEMMA FieldChanges ==
    ASSUME NEW u, IsUser(u), NEW x
    PROVE  /\ SameUser(u, [u EXCEPT !.flags = x]) /\ SameUser(u, [u EXCEPT !.pass = x])
           /\ SameUser(u, [u EXCEPT !.hosts = x]) /\ SameUser(u, [u EXCEPT !.umode = x])
           /\ SameUser(u, [u EXCEPT !.main = x])
           /\ x \in Seq(ToSet(x) \ {None}) => SameUser(u, [u EXCEPT !.servers = x])
<1> DEFINE Rec(id, name, flags, pass, hosts, main, servers, umode, deleted) ==
               [id |-> id, name |-> name, flags |-> flags, pass |-> pass, hosts |-> hosts,
                main |-> main, servers |-> servers, umode |-> umode, deleted |-> deleted]
<1>1. u = Rec(u.id, u.name, u.flags, u.pass, u.hosts, u.main, u.servers, u.umode, u.deleted)
      /\ u.id \in Nat /\ u.deleted \in BOOLEAN /\ u.servers \in Seq(ToSet(u.servers) \ {None})
  BY DEF IsUser
<1>2. [u EXCEPT !.flags = x] = Rec(u.id, u.name, x, u.pass, u.hosts, u.main, u.servers, u.umode, u.deleted)
  BY <1>1
<1>3. [u EXCEPT !.pass = x] = Rec(u.id, u.name, u.flags, x, u.hosts, u.main, u.servers, u.umode, u.deleted)
  BY <1>1
<1>4. [u EXCEPT !.hosts = x] = Rec(u.id, u.name, u.flags, u.pass, x, u.main, u.servers, u.umode, u.deleted)
  BY <1>1
<1>5. [u EXCEPT !.umode = x] = Rec(u.id, u.name, u.flags, u.pass, u.hosts, u.main, u.servers, x, u.deleted)
  BY <1>1
<1>6. [u EXCEPT !.main = x] = Rec(u.id, u.name, u.flags, u.pass, u.hosts, x, u.servers, u.umode, u.deleted)
  BY <1>1
<1>7. [u EXCEPT !.servers = x] = Rec(u.id, u.name, u.flags, u.pass, u.hosts, u.main, x, u.umode, u.deleted)
  BY <1>1
<1>8. ASSUME NEW f, NEW p, NEW h, NEW m, NEW s, NEW w, s \in Seq(ToSet(s) \ {None})
      PROVE  SameUser(u, Rec(u.id, u.name, f, p, h, m, s, w, u.deleted))
  <2> DEFINE v == Rec(u.id, u.name, f, p, h, m, s, w, u.deleted)
  <2>1. /\ v.id = u.id /\ v.name = u.name /\ v.flags = f /\ v.pass = p /\ v.hosts = h
        /\ v.main = m /\ v.servers = s /\ v.umode = w /\ v.deleted = u.deleted
    OBVIOUS
  <2>2. v = Rec(v.id, v.name, v.flags, v.pass, v.hosts, v.main, v.servers, v.umode, v.deleted)
    BY <2>1
  <2>3. v.servers \in Seq(ToSet(v.servers) \ {None})
    BY <1>8, <2>1
  <2> HIDE DEF v
  <2>4. IsUser(v)
    BY <1>1, <2>1, <2>2, <2>3 DEF IsUser
  <2>5. SameUser(u, v)
    BY <2>1, <2>4 DEF SameUser
  <2> QED BY <2>5 DEF v
<1> HIDE DEF Rec
<1> QED BY <1>1, <1>2, <1>3, <1>4, <1>5, <1>6, <1>7, <1>8

(* A list is one of its own elements.                                      *)
LEMMA OwnElements ==
    ASSUME NEW S, NEW q \in Seq(S), NEW x, x \notin S
    PROVE  q \in Seq(ToSet(q) \ {x})
<1> DEFINE T == ToSet(q) \ {x}
<1>1. Len(q) \in Nat /\ DOMAIN q = 1 .. Len(q) /\ \A i \in 1 .. Len(q) : q[i] \in S /\ q[i] \in ToSet(q)
  BY DEF ToSet
<1>2. \A i \in 1 .. Len(q) : q[i] \in T
  BY <1>1
<1> HIDE DEF T
<1>3. q = [i \in 1 .. Len(q) |-> q[i]]
  BY <1>1
<1>4. [i \in 1 .. Len(q) |-> q[i]] \in Seq(T)
  BY <1>1, <1>2
<1>5. q \in Seq(T)
  BY <1>3, <1>4
<1> QED BY <1>5 DEF T

(* WithMain() is such a change of two fields, and is made once.            *)
LEMMA WithMainFacts ==
    ASSUME NEW u, IsUser(u)
    PROVE  /\ SameUser(u, WithMain(u)) /\ WithMain(WithMain(u)) = WithMain(u)
           /\ u.servers = <<>> => WithMain(u) = u
<1>1. CASE u.main # None \/ u.servers = <<>>
  <2>1. WithMain(u) = u
    BY <1>1 DEF WithMain
  <2> QED BY <2>1 DEF SameUser
<1>2. CASE ~(u.main # None \/ u.servers = <<>>)
  <2> DEFINE v == [u EXCEPT !.main = Head(u.servers)]
             w == [v EXCEPT !.servers = Tail(u.servers)]
             S == ToSet(u.servers) \ {None}
  <2>1. u.servers \in Seq(S) /\ u.servers # <<>>
    BY <1>2 DEF IsUser
  <2>2. Head(u.servers) # None /\ Tail(u.servers) \in Seq(S)
    BY <2>1
  <2>3. Tail(u.servers) \in Seq(ToSet(Tail(u.servers)) \ {None})
    BY <2>2, OwnElements
  <2>4. SameUser(u, v)
    BY FieldChanges
  <2>5. v.main = Head(u.servers)
    BY DEF IsUser
  <2>6. SameUser(v, w)
    BY <2>3, <2>4, FieldChanges DEF SameUser
  <2>7. w.main = v.main
    BY <2>4 DEF SameUser, IsUser
  <2>8. WithMain(u) = w
    BY <1>2 DEF WithMain
  <2> HIDE DEF v, w
  <2>9. WithMain(w) = w
    BY <2>2, <2>5, <2>7 DEF WithMain
  <2> QED BY <1>2, <2>4, <2>6, <2>8, <2>9 DEF SameUser
<1> QED BY <1>1, <1>2

(* What ButMain() leaves says who the user is.                             *)
LEMMA ButMainFacts ==
    ASSUME NEW u, IsUser(u)
    PROVE  /\ ButMain(u).id = u.id /\ ButMain(u).name = u.name /\ ButMain(u).deleted = u.deleted
           /\ \A x : ButMain([u EXCEPT !.main = x]) = ButMain(u)
BY DEF IsUser, ButMain

(* The i-th user of a file f is one that ocf_user_load_all() skips, since  *)
(* it has put one of that name on the list.                                *)
Taken(f, i) == \E j \in 1 .. i - 1 : f[j].name = f[i].name /\ ~f[j].deleted

(* Each user of the list that is loaded is one of the file which is not    *)
(* skipped, and the other way round.                                       *)
LEMMA LoadAll ==
    ASSUME NEW f, IsUsers(f)
    PROVE  LET U == ocf_user_load_all(f)
           IN /\ IsUsers(U)
              /\ \A i \in DOMAIN U : \E j \in DOMAIN f : ~Taken(f, j) /\ U[i] = WithMain(f[j])
              /\ \A j \in DOMAIN f : ~Taken(f, j) => \E i \in DOMAIN U : U[i] = WithMain(f[j])
<1> DEFINE T == {f[i] : i \in {j \in DOMAIN f : ~Taken(f, j)}}
           read == Keep(f, T)
           W == [i \in DOMAIN read |-> WithMain(read[i])]
           U == ocf_user_load_all(f)
<1>1. IsList(f) /\ UniqueIds(f) /\ \A j \in DOMAIN f : IsUser(f[j])
  BY DEF IsUsers
<1>2. PICK S : f \in Seq(S)
  BY <1>1 DEF IsList
<1>3. IsInjective(f)
  BY <1>1 DEF IsInjective, UniqueIds
<1>4. read \in Seq(S) /\ ToSet(read) = ToSet(f) \cap T /\ IsInjective(read)
  BY <1>2, <1>3, KeepFacts
<1>5. U = Reverse(W)
  BY DEF ocf_user_load_all, Taken
<1> DEFINE n == Len(read)
<1>6. n \in Nat /\ DOMAIN read = 1 .. n
  BY <1>4
<1>7. \A i \in 1 .. n : \E j \in DOMAIN f : ~Taken(f, j) /\ read[i] = f[j]
  <2> SUFFICES ASSUME NEW i \in 1 .. n PROVE \E j \in DOMAIN f : ~Taken(f, j) /\ read[i] = f[j]
    OBVIOUS
  <2>1. read[i] \in ToSet(read)
    BY <1>6 DEF ToSet
  <2>2. read[i] \in T
    BY <1>4, <2>1
  <2> QED BY <2>2
<1>8. \A j \in DOMAIN f : ~Taken(f, j) => \E i \in 1 .. n : read[i] = f[j]
  <2> SUFFICES ASSUME NEW j \in DOMAIN f, ~Taken(f, j) PROVE \E i \in 1 .. n : read[i] = f[j]
    OBVIOUS
  <2>1. f[j] \in T /\ f[j] \in ToSet(f)
    BY DEF ToSet
  <2>2. f[j] \in ToSet(read)
    BY <1>4, <2>1
  <2> QED BY <1>6, <2>2 DEF ToSet
<1> HIDE DEF T, read
<1>9. W \in Seq({WithMain(read[i]) : i \in 1 .. n}) /\ Len(W) = n
  BY <1>6
<1>10. U = [i \in 1 .. n |-> WithMain(read[n - i + 1])]
  <2>1. Reverse(W) = [i \in 1 .. Len(W) |-> W[Len(W) - i + 1]]
    BY DEF Reverse
  <2>2. \A i \in 1 .. n : n - i + 1 \in DOMAIN read
    BY <1>6
  <2> QED BY <1>5, <1>9, <2>1, <2>2
<1>11. DOMAIN U = 1 .. n /\ \A i \in 1 .. n : n - i + 1 \in 1 .. n /\ U[i] = WithMain(read[n - i + 1])
  BY <1>6, <1>10
<1> HIDE DEF U, n
<1>12. \A i \in DOMAIN U : \E j \in DOMAIN f : ~Taken(f, j) /\ U[i] = WithMain(f[j])
  BY <1>7, <1>11
<1>13. ASSUME NEW j \in DOMAIN f, ~Taken(f, j) PROVE \E i \in DOMAIN U : U[i] = WithMain(f[j])
  <2>1. PICK i \in 1 .. n : read[i] = f[j]
    BY <1>8, <1>13
  <2>2. n - i + 1 \in 1 .. n /\ n - (n - i + 1) + 1 = i
    BY <1>6
  <2> QED BY <1>11, <2>1, <2>2
<1>14. IsList(U)
  <2>1. U \in Seq({WithMain(read[i]) : i \in 1 .. n})
    BY <1>6, <1>10
  <2> QED BY <2>1 DEF IsList
<1>15. \A i \in DOMAIN U : IsUser(U[i])
  BY <1>1, <1>12, WithMainFacts DEF SameUser
<1>16. ASSUME NEW i \in DOMAIN U, NEW k \in DOMAIN U, U[i].id = U[k].id PROVE i = k
  <2> DEFINE a == n - i + 1
             b == n - k + 1
  <2>1. a \in 1 .. n /\ b \in 1 .. n /\ U[i] = WithMain(read[a]) /\ U[k] = WithMain(read[b])
    BY <1>11
  <2>2. PICK j \in DOMAIN f : read[a] = f[j]
    BY <1>7, <2>1
  <2>3. PICK l \in DOMAIN f : read[b] = f[l]
    BY <1>7, <2>1
  <2>4. U[i].id = f[j].id /\ U[k].id = f[l].id
    BY <1>1, <2>1, <2>2, <2>3, WithMainFacts DEF SameUser
  <2>5. j = l
    BY <1>1, <1>16, <2>4 DEF UniqueIds
  <2>6. a = b
    BY <1>4, <1>6, <2>1, <2>2, <2>3, <2>5 DEF IsInjective
  <2> QED BY <1>6, <1>11, <2>6
<1>17. IsUsers(U)
  BY <1>14, <1>15, <1>16 DEF IsUsers, UniqueIds
<1> QED BY <1>12, <1>13, <1>17 DEF U

(* No two users with one name come back.                                   *)
LEMMA LoadedNames ==
    ASSUME NEW f, IsUsers(f)
    PROVE  UniqueNames(ocf_user_load_all(f))
<1> DEFINE U == ocf_user_load_all(f)
<1>1. \A i \in DOMAIN U : \E j \in DOMAIN f : ~Taken(f, j) /\ U[i] = WithMain(f[j])
  BY LoadAll
<1>2. IsUsers(U)
  BY LoadAll
<1> HIDE DEF U
<1>3. ASSUME NEW i \in DOMAIN U, NEW k \in DOMAIN U, U[i].name = U[k].name, ~U[i].deleted, ~U[k].deleted
      PROVE  i = k
  <2>1. PICK j \in DOMAIN f : ~Taken(f, j) /\ U[i] = WithMain(f[j])
    BY <1>1
  <2>2. PICK l \in DOMAIN f : ~Taken(f, l) /\ U[k] = WithMain(f[l])
    BY <1>1
  <2>3. /\ U[i].name = f[j].name /\ U[i].deleted = f[j].deleted
        /\ U[k].name = f[l].name /\ U[k].deleted = f[l].deleted
    BY <2>1, <2>2, WithMainFacts DEF SameUser, IsUsers
  <2>4. f[j].name = f[l].name /\ ~f[j].deleted /\ ~f[l].deleted
    BY <1>3, <2>3
  <2>5. DOMAIN f \subseteq Nat \ {0}
    BY ListFacts DEF IsUsers
  <2>6. ~(j < l) /\ ~(l < j)
    BY <2>1, <2>2, <2>4, <2>5 DEF Taken
  <2>7. j = l
    BY <2>5, <2>6
  <2> QED BY <1>2, <2>1, <2>2, <2>7 DEF IsUsers, UniqueIds
<1> QED BY <1>3 DEF UniqueNames, U

(* A file that has just been written gives everybody back.                 *)
LEMMA KeptWritten ==
    ASSUME NEW U, IsUsers(U), UniqueNames(U)
    PROVE  GivenBack(U, U)
<1>1. ASSUME NEW i \in DOMAIN U, ~U[i].deleted
      PROVE  \E u \in Range(ocf_user_load_all(U)) : ButMain(u) = ButMain(WithMain(U[i]))
  <2>1. ~Taken(U, i)
    <3>1. DOMAIN U = 1 .. Len(U) /\ Len(U) \in Nat
      BY ListFacts DEF IsUsers
    <3> QED BY <1>1, <3>1 DEF Taken, UniqueNames
  <2>2. PICK k \in DOMAIN ocf_user_load_all(U) : ocf_user_load_all(U)[k] = WithMain(U[i])
    BY <2>1, LoadAll
  <2> QED BY <2>2 DEF Range
<1> QED BY <1>1 DEF GivenBack

(* So does one that has just been read.                                    *)
LEMMA KeptRead ==
    ASSUME NEW f, IsUsers(f)
    PROVE  GivenBack(ocf_user_load_all(f), f)
<1> DEFINE U == ocf_user_load_all(f)
<1>1. ASSUME NEW i \in DOMAIN U, ~U[i].deleted
      PROVE  \E u \in Range(U) : ButMain(u) = ButMain(WithMain(U[i]))
  <2>1. PICK j \in DOMAIN f : U[i] = WithMain(f[j])
    BY LoadAll
  <2>2. WithMain(U[i]) = U[i]
    BY <2>1, WithMainFacts DEF IsUsers
  <2> QED BY <2>2 DEF Range
<1> QED BY <1>1 DEF GivenBack

(* Whoever comes back is found under the same name and has the same id.    *)
LEMMA KeptFound ==
    ASSUME NEW U, NEW f, IsUsers(U), IsUsers(f), GivenBack(U, f), NEW i \in DOMAIN U, ~U[i].deleted
    PROVE  LET L == ocf_user_load_all(f)
               k == NamedUser(L, U[i].name)
           IN k \in DOMAIN L /\ k # 0 /\ L[k].id = U[i].id /\ ~L[k].deleted
<1> DEFINE L == ocf_user_load_all(f)
           k == NamedUser(L, U[i].name)
<1>1. IsUsers(L) /\ UniqueNames(L) /\ IsList(L)
  BY LoadAll, LoadedNames DEF IsUsers
<1>2. PICK u \in Range(L) : ButMain(u) = ButMain(WithMain(U[i]))
  BY DEF GivenBack
<1> HIDE DEF L
<1>3. PICK m \in DOMAIN L : u = L[m]
  BY <1>2 DEF Range
<1>4. SameUser(U[i], WithMain(U[i])) /\ IsUser(u)
  BY <1>1, <1>3, WithMainFacts DEF IsUsers
<1>5. u.id = U[i].id /\ u.name = U[i].name /\ u.deleted = U[i].deleted
  BY <1>2, <1>4, ButMainFacts DEF SameUser
<1>6. ~L[m].deleted /\ L[m].name = U[i].name
  BY <1>3, <1>5
<1>7. k # 0 /\ k \in DOMAIN L /\ L[k].name = U[i].name /\ ~L[k].deleted
  BY <1>1, <1>6, NamedFacts
<1>8. k = m
  BY <1>1, <1>6, <1>7 DEF UniqueNames
<1> QED BY <1>3, <1>5, <1>7, <1>8 DEF L

-----------------------------------------------------------------------------
(* The sessions: what holds before and after each command.                 *)

(* The users have ids and names of their own and come back from the file,  *)
(* and a session belongs to one of them: if he is not deleted, the login   *)
(* is among R or proved.                                                   *)
Sound(st, R) ==
    /\ IsUsers(st.users) /\ UniqueNames(st.users) /\ IsUsers(st.file) /\ GivenBack(st.users, st.file)
    /\ st.sessions = [n \in Nicks |-> st.sessions[n]]
    /\ \A n \in Nicks : st.sessions[n] # None =>
         \E i \in DOMAIN st.users : /\ st.users[i].id = st.sessions[n].id
                                    /\ ~st.users[i].deleted =>
                                         <<st.sessions[n].id, n, st.sessions[n].addr>> \in st.proved \cup R
Alive(st) == \A n \in Nicks : st.sessions[n] # None => ~UserOf(st, n).deleted
Right(st, R) == Sound(st, R) /\ Alive(st)

(* A step that only ends sessions.                                         *)
Quiet(st, out, R) ==
    /\ Sound(st, R) => Sound(out, R)
    /\ Right(st, R) => Right(out, R)
    /\ out.users = st.users /\ out.file = st.file
    /\ \A n \in Nicks : out.sessions[n] \in {None, st.sessions[n]}

(* What the constructor of the state puts where.                          *)
LEMMA StateFields ==
    ASSUME NEW U, NEW S, NEW F, NEW L, NEW P
    PROVE  /\ State(U, S, F, L, P).users = U /\ State(U, S, F, L, P).sessions = S
           /\ State(U, S, F, L, P).file = F /\ State(U, S, F, L, P).saved = L /\ State(U, S, F, L, P).proved = P
BY DEF State

(* Logging out does not touch the users, nor what is known of the others.  *)
LEMMA LogoutQuiet ==
    ASSUME NEW st, NEW R, NEW N
    PROVE  Quiet(st, ocf_user_logout(st, N), R)
<1> DEFINE out == ocf_user_logout(st, N)
<1>1. /\ out.users = st.users /\ out.file = st.file
      /\ out.sessions = [n \in Nicks |-> IF n \in N THEN None ELSE st.sessions[n]]
      /\ out.proved = {p \in st.proved : p[2] \notin N}
  BY StateFields DEF ocf_user_logout
<1> HIDE DEF out
<1>2. \A n \in Nicks : out.sessions[n] = IF n \in N THEN None ELSE st.sessions[n]
  BY <1>1
<1>3. out.sessions = [n \in Nicks |-> out.sessions[n]]
  BY <1>1
<1>4. ASSUME Sound(st, R), NEW n \in Nicks, out.sessions[n] # None
      PROVE  \E i \in DOMAIN out.users : /\ out.users[i].id = out.sessions[n].id
                                         /\ ~out.users[i].deleted =>
                                              <<out.sessions[n].id, n, out.sessions[n].addr>> \in out.proved \cup R
  <2>1. n \notin N /\ out.sessions[n] = st.sessions[n]
    BY <1>2, <1>4
  <2>2. PICK i \in DOMAIN st.users : /\ st.users[i].id = st.sessions[n].id
                                     /\ ~st.users[i].deleted =>
                                          <<st.sessions[n].id, n, st.sessions[n].addr>> \in st.proved \cup R
    BY <1>4, <2>1 DEF Sound
  <2>3. <<st.sessions[n].id, n, st.sessions[n].addr>>[2] = n
    OBVIOUS
  <2>4. ~st.users[i].deleted => <<st.sessions[n].id, n, st.sessions[n].addr>> \in out.proved \cup R
    BY <1>1, <2>1, <2>2, <2>3
  <2> QED BY <1>1, <2>1, <2>2, <2>4
<1>5. Sound(st, R) => Sound(out, R)
  BY <1>1, <1>3, <1>4 DEF Sound
<1>6. Alive(st) => Alive(out)
  BY <1>1, <1>2 DEF Alive, UserOf
<1> QED BY <1>1, <1>2, <1>5, <1>6 DEF Quiet, Right, out

(* So do the notices, the regular check and the end of a session that is   *)
(* somebody else's.                                                        *)
LEMMA NoticesQuiet ==
    ASSUME NEW st, NEW R
    PROVE  /\ \A m, but : Quiet(st, send_notice_to_loggedin(st, m, but), R)
           /\ \A name : Quiet(st, send_notice_to_loggedin_username(st, name), R)
           /\ \A long : Quiet(st, ocf_check_loggedin_users(st, long), R)
           /\ \A n, a : Quiet(st, Unhijacked(st, n, a), R)
<1>1. \A m, but : Quiet(st, send_notice_to_loggedin(st, m, but), R)
  BY LogoutQuiet DEF send_notice_to_loggedin, Others
<1>2. \A name : Quiet(st, send_notice_to_loggedin_username(st, name), R)
  BY LogoutQuiet DEF send_notice_to_loggedin_username, Others
<1>3. \A long : Quiet(st, ocf_check_loggedin_users(st, long), R)
  BY LogoutQuiet DEF ocf_check_loggedin_users
<1>4. ASSUME NEW n, NEW a PROVE Quiet(st, Unhijacked(st, n, a), R)
  <2>1. CASE st.sessions[n] = None \/ st.sessions[n].addr = a
    BY <2>1 DEF Unhijacked, Quiet
  <2>2. CASE ~(st.sessions[n] = None \/ st.sessions[n].addr = a)
    <3> DEFINE told == send_notice_to_loggedin(st, "m", {n})
    <3>1. Quiet(st, told, R)
      BY <1>1
    <3>2. Quiet(told, ocf_user_logout(told, {n}), R)
      BY LogoutQuiet
    <3>3. Unhijacked(st, n, a) = ocf_user_logout(told, {n})
      BY <2>2 DEF Unhijacked
    <3> HIDE DEF told
    <3> QED BY <3>1, <3>2, <3>3 DEF Quiet
  <2> QED BY <2>1, <2>2
<1> QED BY <1>1, <1>2, <1>3, <1>4

(* A step that changes users but not who they are, nor the sessions.       *)
LEMMA UsersRight ==
    ASSUME NEW st, NEW R, Right(st, R), NEW out, out.sessions = st.sessions, out.proved = st.proved,
           IsUsers(out.users), UniqueNames(out.users), IsUsers(out.file), GivenBack(out.users, out.file),
           \A i \in DOMAIN st.users : \E j \in DOMAIN out.users :
              out.users[j].id = st.users[i].id /\ out.users[j].deleted = st.users[i].deleted
    PROVE  Right(out, R)
<1>1. ASSUME NEW n \in Nicks, st.sessions[n] # None
      PROVE  /\ \E j \in DOMAIN out.users : /\ out.users[j].id = st.sessions[n].id
                                            /\ ~out.users[j].deleted =>
                                                 <<st.sessions[n].id, n, st.sessions[n].addr>> \in st.proved \cup R
             /\ ~ById(out.users, st.sessions[n].id).deleted
  <2>1. PICK i \in DOMAIN st.users : /\ st.users[i].id = st.sessions[n].id
                                     /\ ~st.users[i].deleted =>
                                          <<st.sessions[n].id, n, st.sessions[n].addr>> \in st.proved \cup R
    BY <1>1 DEF Right, Sound
  <2>2. UserOf(st, n) = st.users[i]
    BY <2>1, ByIdFacts DEF UserOf, Right, Sound, IsUsers
  <2>3. ~st.users[i].deleted
    BY <1>1, <2>2 DEF Right, Alive
  <2>4. PICK j \in DOMAIN out.users : out.users[j].id = st.users[i].id /\ out.users[j].deleted = st.users[i].deleted
    OBVIOUS
  <2>5. ById(out.users, st.sessions[n].id) = out.users[j]
    BY <2>1, <2>4, ByIdFacts DEF IsUsers
  <2> QED BY <2>1, <2>3, <2>4, <2>5
<1>2. Sound(out, R)
  BY <1>1 DEF Sound, Right
<1>3. Alive(out)
  BY <1>1 DEF Alive, UserOf
<1> QED BY <1>2, <1>3 DEF Right

(* And then saves them.                                                    *)
LEMMA WrittenRight ==
    ASSUME NEW st, NEW R, Right(st, R), NEW U, IsUsers(U), UniqueNames(U),
           \A i \in DOMAIN st.users : \E j \in DOMAIN U : U[j].id = st.users[i].id /\ U[j].deleted = st.users[i].deleted
    PROVE  Right(ocf_users_updated(SetUsers(st, U)), R)
<1>1. PICK out : out = ocf_users_updated(SetUsers(st, U))
  OBVIOUS
<1>2. out.users = U /\ out.sessions = st.sessions /\ out.file = U /\ out.proved = st.proved
  BY <1>1, StateFields DEF ocf_users_updated, SetUsers
<1>3. GivenBack(U, U)
  BY KeptWritten
<1>4. Right(out, R)
  BY <1>2, <1>3, UsersRight
<1> QED BY <1>1, <1>4

(* A list of the same users.                                               *)
LEMMA SameList ==
    ASSUME NEW U, IsUsers(U), UniqueNames(U), NEW W, IsList(W), DOMAIN W = DOMAIN U,
           \A i \in DOMAIN U : SameUser(U[i], W[i])
    PROVE  IsUsers(W) /\ UniqueNames(W)
<1>1. UniqueIds(W)
  BY DEF IsUsers, UniqueIds, SameUser
<1>2. UniqueNames(W)
  BY DEF UniqueNames, SameUser
<1> QED BY <1>1, <1>2 DEF IsUsers, SameUser

(* A command that changes one user.                                        *)
LEMMA SetRight ==
    ASSUME NEW st, NEW R, Right(st, R), NEW i \in DOMAIN st.users, NEW v, SameUser(st.users[i], v)
    PROVE  Right(ocf_users_updated(Set(st, i, v)), R)
<1>1. PICK U : U = st.users
  OBVIOUS
<1>2. PICK W : W = [U EXCEPT ![i] = v]
  OBVIOUS
<1>3. IsUsers(U) /\ UniqueNames(U) /\ IsList(U) /\ i \in DOMAIN U /\ SameUser(U[i], v)
  BY <1>1 DEF Right, Sound, IsUsers
<1>4. IsList(W)
  BY <1>2, <1>3, ListSteps
<1>5. DOMAIN W = DOMAIN U /\ \A j \in DOMAIN W : W[j] = IF j = i THEN v ELSE U[j]
  BY <1>2, <1>3 DEF IsList
<1>6. \A j \in DOMAIN U : SameUser(U[j], W[j])
  BY <1>3, <1>5 DEF SameUser, IsUsers
<1>7. /\ IsUsers(W) /\ UniqueNames(W)
      /\ \A k \in DOMAIN U : \E j \in DOMAIN W : W[j].id = U[k].id /\ W[j].deleted = U[k].deleted
  <2>1. IsUsers(W) /\ UniqueNames(W)
    BY <1>3, <1>4, <1>5, <1>6, SameList
  <2>2. \A k \in DOMAIN U : W[k].id = U[k].id /\ W[k].deleted = U[k].deleted
    BY <1>6 DEF SameUser
  <2> QED BY <1>5, <2>1, <2>2
<1>8. Right(ocf_users_updated(SetUsers(st, W)), R)
  BY <1>1, <1>7, WrittenRight
<1> QED BY <1>1, <1>2, <1>8 DEF Set

(* And one that also tells those logged in.                                *)
LEMMA ToldRight ==
    ASSUME NEW st, NEW R, Right(st, R), NEW i \in DOMAIN st.users, NEW v, SameUser(st.users[i], v), NEW n, NEW c
    PROVE  /\ Right(Told(Set(st, i, v), n, c), R)
           /\ Right(send_notice_to_loggedin(ocf_users_updated(Set(st, i, v)), "u", {n}), R)
<1> DEFINE set == ocf_users_updated(Set(st, i, v))
           told == send_notice_to_loggedin(set, "u", {n})
<1>1. Right(set, R)
  BY SetRight
<1>2. Quiet(set, told, R)
  BY NoticesQuiet
<1>3. Quiet(told, send_notice_to_loggedin_username(told, c.name), R)
  BY NoticesQuiet
<1>4. Told(Set(st, i, v), n, c) = send_notice_to_loggedin_username(told, c.name)
  BY DEF Told
<1> HIDE DEF set, told
<1>5. Right(told, R)
  BY <1>1, <1>2 DEF Quiet
<1> QED BY <1>3, <1>4, <1>5 DEF Quiet, told, set

(* The user a command names.                                               *)
LEMMA TargetFacts ==
    ASSUME NEW st, NEW R, Right(st, R), NEW c
    PROVE  /\ Target(st, c) # 0 => /\ Target(st, c) \in DOMAIN st.users /\ IsUser(st.users[Target(st, c)])
                                   /\ st.users[Target(st, c)].name = c.name /\ ~st.users[Target(st, c)].deleted
           /\ Target(st, c) = 0 => \A i \in DOMAIN st.users : st.users[i].name = c.name => st.users[i].deleted
BY NamedFacts DEF Target, Right, Sound, IsUsers

-----------------------------------------------------------------------------
(* The commands, one by one.                                               *)

(* A login to a user that is not deleted.                                  *)
LEMMA LoginRight ==
    ASSUME NEW st, NEW R, Right(st, R), NEW n \in Nicks, NEW a, NEW i \in DOMAIN st.users, ~st.users[i].deleted
    PROVE  Right(ocf_user_login(st, n, a, st.users[i].id), R)
<1>1. CASE st.sessions[n] # None
  BY <1>1 DEF ocf_user_login
<1>2. CASE st.sessions[n] = None
  <2>1. PICK id : id = st.users[i].id
    OBVIOUS
  <2>2. PICK out : out = ocf_user_login(st, n, a, id)
    OBVIOUS
  <2>3. PICK S : S = [st.sessions EXCEPT ![n] = [id |-> id, addr |-> a]]
    OBVIOUS
  <2>4. out.users = st.users /\ out.file = st.file /\ out.sessions = S /\ out.proved = st.proved \cup {<<id, n, a>>}
    BY <1>2, <2>2, <2>3, StateFields DEF ocf_user_login
  <2>5. /\ S = [k \in Nicks |-> S[k]] /\ S[n].id = id /\ S[n].addr = a
        /\ \A k \in Nicks : k # n => S[k] = st.sessions[k]
    BY <2>3 DEF Right, Sound
  <2>6. ASSUME NEW k \in Nicks, S[k] # None
        PROVE  /\ \E j \in DOMAIN st.users : /\ st.users[j].id = S[k].id
                                             /\ ~st.users[j].deleted => <<S[k].id, k, S[k].addr>> \in out.proved \cup R
               /\ ~ById(st.users, S[k].id).deleted
    <3>1. CASE k = n
      <4>1. ById(st.users, id) = st.users[i]
        BY <2>1, ByIdFacts DEF Right, Sound, IsUsers
      <4>2. <<S[k].id, k, S[k].addr>> \in out.proved
        BY <2>4, <2>5, <3>1
      <4> QED BY <2>1, <2>5, <3>1, <4>1, <4>2
    <3>2. CASE k # n
      BY <2>4, <2>5, <2>6, <3>2 DEF Right, Sound, Alive, UserOf
    <3> QED BY <3>1, <3>2
  <2>7. Sound(out, R)
    BY <2>4, <2>5, <2>6 DEF Right, Sound
  <2>8. Alive(out)
    BY <2>4, <2>6 DEF Alive, UserOf
  <2> QED BY <2>1, <2>2, <2>7, <2>8 DEF Right
<1> QED BY <1>1, <1>2

(* LOGIN, LOGOUT.                                                          *)
LEMMA SessionCommands ==
    ASSUME NEW st, NEW R, Right(st, R), NEW n \in Nicks, NEW a, NEW c
    PROVE  Right(process_cmd_login(st, n, a, c), R) /\ Right(process_cmd_logout(st, n, a, c), R)
<1>1. PICK out : out = ocf_user_logout(st, {n})
  OBVIOUS
<1>2. Right(out, R) /\ out.users = st.users
  BY <1>1, LogoutQuiet DEF Quiet
<1>3. \A m, but : Right(send_notice_to_loggedin(out, m, but), R)
  BY <1>2, NoticesQuiet DEF Quiet
<1>4. PICK i : i = Target(st, c)
  OBVIOUS
<1>5. ASSUME i # 0 PROVE Right(send_notice_to_loggedin(ocf_user_login(out, n, a, st.users[i].id), "l", {n}), R)
  <2>1. i \in DOMAIN out.users /\ ~out.users[i].deleted
    BY <1>2, <1>4, <1>5, TargetFacts
  <2>2. Right(ocf_user_login(out, n, a, st.users[i].id), R)
    BY <1>2, <2>1, LoginRight
  <2> QED BY <2>2, NoticesQuiet DEF Quiet
<1>6. \/ process_cmd_login(st, n, a, c) = st
      \/ process_cmd_login(st, n, a, c) = send_notice_to_loggedin(out, "l", {})
      \/ i # 0 /\ process_cmd_login(st, n, a, c) =
                    send_notice_to_loggedin(ocf_user_login(out, n, a, st.users[i].id), "l", {n})
  BY <1>1, <1>4 DEF process_cmd_login
<1>7. process_cmd_logout(st, n, a, c) = send_notice_to_loggedin(out, "l", {})
  BY <1>1 DEF process_cmd_logout
<1> QED BY <1>3, <1>5, <1>6, <1>7

(* PASSWD, UMODE.                                                          *)
LEMMA OwnCommands ==
    ASSUME NEW st, NEW R, Right(st, R), NEW n, NEW a, NEW c
    PROVE  Right(process_cmd_passwd(st, n, a, c), R) /\ Right(process_cmd_umode(st, n, a, c), R)
<1>1. PICK U : U = st.users
  OBVIOUS
<1>2. IsUsers(U) /\ UniqueNames(U) /\ IsList(U) /\ \A i \in DOMAIN U : IsUser(U[i])
  BY <1>1 DEF Right, Sound, IsUsers
<1>3. ASSUME NEW W, W = [i \in DOMAIN U |-> W[i]], \A i \in DOMAIN U : SameUser(U[i], W[i])
      PROVE  Right(ocf_users_updated(SetUsers(st, W)), R)
  <2>1. DOMAIN W = DOMAIN U
    BY <1>3
  <2>2. IsList(W)
    <3>1. U \in Seq(ToSet(U)) /\ Len(U) \in Nat /\ DOMAIN U = 1 .. Len(U)
      BY <1>2 DEF IsList, ToSet
    <3>2. [i \in 1 .. Len(U) |-> W[i]] \in Seq({W[i] : i \in 1 .. Len(U)})
      BY <3>1
    <3> QED BY <1>3, <3>1, <3>2 DEF IsList
  <2>3. IsUsers(W) /\ UniqueNames(W)
    BY <1>2, <1>3, <2>1, <2>2, SameList
  <2>4. \A k \in DOMAIN U : W[k].id = U[k].id /\ W[k].deleted = U[k].deleted
    BY <1>3 DEF SameUser
  <2> QED BY <1>1, <2>1, <2>3, <2>4, WrittenRight
<1>4. PICK id : id = st.sessions[n].id
  OBVIOUS
<1>5. Right(process_cmd_umode(st, n, a, c), R)
  <2>1. PICK W : W = [i \in DOMAIN U |-> IF U[i].id = id THEN [U[i] EXCEPT !.umode = c.arg] ELSE U[i]]
    OBVIOUS
  <2>2. \A i \in DOMAIN U : SameUser(U[i], W[i])
    BY <1>2, <2>1, FieldChanges DEF SameUser
  <2>3. Right(ocf_users_updated(SetUsers(st, W)), R)
    BY <1>3, <2>1, <2>2
  <2>4. process_cmd_umode(st, n, a, c) = ocf_users_updated(SetUsers(st, W))
    BY <1>1, <1>4, <2>1 DEF process_cmd_umode, OnSelf
  <2> QED BY <2>3, <2>4
<1>6. Right(process_cmd_passwd(st, n, a, c), R)
  <2>1. PICK W : W = [i \in DOMAIN U |-> IF U[i].id = id THEN [U[i] EXCEPT !.pass = c.arg] ELSE U[i]]
    OBVIOUS
  <2>2. \A i \in DOMAIN U : SameUser(U[i], W[i])
    BY <1>2, <2>1, FieldChanges DEF SameUser
  <2>3. Right(ocf_users_updated(SetUsers(st, W)), R)
    BY <1>3, <2>1, <2>2
  <2>4. process_cmd_passwd(st, n, a, c) \in {st, ocf_users_updated(SetUsers(st, W))}
    BY <1>1, <1>4, <2>1 DEF process_cmd_passwd, OnSelf
  <2> QED BY <2>3, <2>4
<1> QED BY <1>5, <1>6

(* ADDFLAG, DELFLAG, ADDHOST, DELHOST, CHPASS, SETMAINSERVER.              *)
LEMMA FieldCommands ==
    ASSUME NEW st, NEW R, Right(st, R), NEW n, NEW a, NEW c
    PROVE  /\ Right(process_cmd_addflag(st, n, a, c), R) /\ Right(process_cmd_delflag(st, n, a, c), R)
           /\ Right(process_cmd_addhost(st, n, a, c), R) /\ Right(process_cmd_delhost(st, n, a, c), R)
           /\ Right(process_cmd_chpass(st, n, a, c), R) /\ Right(process_cmd_setmainserver(st, n, a, c), R)
<1>1. PICK i : i = Target(st, c)
  OBVIOUS
<1>2. PICK u : u = st.users[i]
  OBVIOUS
<1>3. ASSUME NEW v, i # 0, SameUser(u, v)
      PROVE  /\ Right(Told(Set(st, i, v), n, c), R)
             /\ Right(send_notice_to_loggedin(ocf_users_updated(Set(st, i, v)), "u", {n}), R)
  <2>1. i \in DOMAIN st.users
    BY <1>1, <1>3, TargetFacts
  <2> QED BY <1>2, <1>3, <2>1, ToldRight
<1>4. i # 0 => IsUser(u)
  BY <1>1, <1>2, TargetFacts
<1>5. \/ process_cmd_addflag(st, n, a, c) = st
      \/ i # 0 /\ process_cmd_addflag(st, n, a, c) = Told(Set(st, i, [u EXCEPT !.flags = @ \cup {c.arg}]), n, c)
  BY <1>1, <1>2 DEF process_cmd_addflag, MayFlag
<1>6. \/ process_cmd_delflag(st, n, a, c) = st
      \/ i # 0 /\ process_cmd_delflag(st, n, a, c) = Told(Set(st, i, [u EXCEPT !.flags = @ \ {c.arg}]), n, c)
  BY <1>1, <1>2 DEF process_cmd_delflag, MayFlag
<1>7. \/ process_cmd_addhost(st, n, a, c) = st
      \/ i # 0 /\ process_cmd_addhost(st, n, a, c) = Told(Set(st, i, [u EXCEPT !.hosts = @ \cup {c.arg}]), n, c)
  BY <1>1, <1>2 DEF process_cmd_addhost
<1>8. \/ process_cmd_delhost(st, n, a, c) = st
      \/ i # 0 /\ process_cmd_delhost(st, n, a, c) = Told(Set(st, i, [u EXCEPT !.hosts = @ \ {c.arg}]), n, c)
  BY <1>1, <1>2 DEF process_cmd_delhost
<1>9. \/ process_cmd_chpass(st, n, a, c) = st
      \/ i # 0 /\ process_cmd_chpass(st, n, a, c) =
                    send_notice_to_loggedin(ocf_users_updated(Set(st, i, [u EXCEPT !.pass = c.arg])), "u", {n})
  BY <1>1, <1>2 DEF process_cmd_chpass
<1>10. \/ process_cmd_setmainserver(st, n, a, c) = st
       \/ i # 0 /\ process_cmd_setmainserver(st, n, a, c) = Told(Set(st, i, [u EXCEPT !.main = c.arg]), n, c)
  BY <1>1, <1>2 DEF process_cmd_setmainserver
<1>11. ASSUME i # 0
       PROVE  \A x : /\ SameUser(u, [u EXCEPT !.flags = x]) /\ SameUser(u, [u EXCEPT !.hosts = x])
                     /\ SameUser(u, [u EXCEPT !.pass = x]) /\ SameUser(u, [u EXCEPT !.main = x])
  BY <1>4, <1>11, FieldChanges
<1>12. Right(process_cmd_addflag(st, n, a, c), R)
  BY <1>3, <1>5, <1>11
<1>13. Right(process_cmd_delflag(st, n, a, c), R)
  BY <1>3, <1>6, <1>11
<1>14. Right(process_cmd_addhost(st, n, a, c), R)
  BY <1>3, <1>7, <1>11
<1>15. Right(process_cmd_delhost(st, n, a, c), R)
  BY <1>3, <1>8, <1>11
<1>16. Right(process_cmd_chpass(st, n, a, c), R)
  BY <1>3, <1>9, <1>11
<1>17. Right(process_cmd_setmainserver(st, n, a, c), R)
  BY <1>3, <1>10, <1>11
<1> QED BY <1>12, <1>13, <1>14, <1>15, <1>16, <1>17

(* ADDSERVER of a server that is named, DELSERVER.                         *)
LEMMA ServerCommands ==
    ASSUME NEW st, NEW R, Right(st, R), NEW n, NEW a, NEW c
    PROVE  /\ c.arg # None => Right(process_cmd_addserver(st, n, a, c), R)
           /\ Right(process_cmd_delserver(st, n, a, c), R)
<1>1. PICK i : i = Target(st, c)
  OBVIOUS
<1>2. PICK u : u = st.users[i]
  OBVIOUS
<1>3. ASSUME NEW v, i # 0, SameUser(u, v) PROVE Right(Told(Set(st, i, v), n, c), R)
  <2>1. i \in DOMAIN st.users
    BY <1>1, <1>3, TargetFacts
  <2> QED BY <1>2, <1>3, <2>1, ToldRight
<1>4. i # 0 => IsUser(u)
  BY <1>1, <1>2, TargetFacts
<1>5. PICK q : q = u.servers
  OBVIOUS
<1>6. PICK S : S = ToSet(q) \ {None}
  OBVIOUS
<1>7. i # 0 => q \in Seq(S)
  BY <1>4, <1>5, <1>6 DEF IsUser
<1>8. ASSUME NEW s, i # 0, s \in Seq(ToSet(s) \ {None}) PROVE SameUser(u, [u EXCEPT !.servers = s])
  BY <1>4, <1>8, FieldChanges
<1>9. ASSUME c.arg # None PROVE Right(process_cmd_addserver(st, n, a, c), R)
  <2>1. PICK s : s = Append(q, c.arg)
    OBVIOUS
  <2>2. \/ process_cmd_addserver(st, n, a, c) = st
        \/ i # 0 /\ process_cmd_addserver(st, n, a, c) = Told(Set(st, i, [u EXCEPT !.servers = s]), n, c)
    BY <1>1, <1>2, <1>5, <2>1 DEF process_cmd_addserver
  <2>3. ASSUME i # 0 PROVE s \in Seq(ToSet(s) \ {None})
    <3>1. s \in Seq(S \cup {c.arg}) /\ None \notin S \cup {c.arg}
      BY <1>6, <1>7, <1>9, <2>1, <2>3
    <3> QED BY <3>1, OwnElements
  <2> QED BY <1>3, <1>8, <2>2, <2>3
<1>10. Right(process_cmd_delserver(st, n, a, c), R)
  <2>1. PICK s : s = Keep(q, ToSet(q) \ {c.arg})
    OBVIOUS
  <2>2. \/ process_cmd_delserver(st, n, a, c) = st
        \/ i # 0 /\ process_cmd_delserver(st, n, a, c) = Told(Set(st, i, [u EXCEPT !.servers = s]), n, c)
    BY <1>1, <1>2, <1>5, <2>1 DEF process_cmd_delserver
  <2>3. ASSUME i # 0 PROVE s \in Seq(ToSet(s) \ {None})
    <3>1. s \in Seq(S) /\ None \notin S
      BY <1>6, <1>7, <2>1, <2>3, KeepFacts
    <3> QED BY <3>1, OwnElements
  <2> QED BY <1>3, <1>8, <2>2, <2>3
<1> QED BY <1>9, <1>10

(* A new user at the head of the list.                                     *)
LEMMA NewUser ==
    ASSUME NEW U, IsUsers(U), UniqueNames(U), NEW new, IsUser(new), new.id = ocf_users_get_unique_id(U),
           \A i \in DOMAIN U : U[i].name = new.name => U[i].deleted
    PROVE  LET W == <<new>> \o U
           IN /\ IsUsers(W) /\ UniqueNames(W) /\ 1 \in DOMAIN W /\ W[1] = new
              /\ \A i \in DOMAIN U : i + 1 \in DOMAIN W /\ W[i + 1] = U[i]
<1>1. PICK W : W = <<new>> \o U
  OBVIOUS
<1>2. IsList(U) /\ (\A i \in DOMAIN U : IsUser(U[i])) /\ UniqueIds(U)
  BY DEF IsUsers
<1>3. PICK S : U \in Seq(S)
  BY <1>2 DEF IsList
<1>4. U \in Seq(S \cup {new}) /\ <<new>> \in Seq(S \cup {new}) /\ Len(<<new>>) = 1 /\ <<new>>[1] = new
  BY <1>3
<1>5. W \in Seq(S \cup {new}) /\ Len(W) = Len(U) + 1 /\ W[1] = new
  BY <1>1, <1>4
<1>6. DOMAIN W = 1 .. Len(U) + 1 /\ DOMAIN U = 1 .. Len(U) /\ Len(U) \in Nat
  BY <1>3, <1>5
<1>7. ASSUME NEW i \in DOMAIN U PROVE W[i + 1] = U[i]
  BY <1>1, <1>4, <1>6, SecondPart
<1>8. \A j \in DOMAIN W : j = 1 \/ (j - 1 \in DOMAIN U /\ W[j] = U[j - 1])
  <2> SUFFICES ASSUME NEW j \in DOMAIN W, j # 1 PROVE j - 1 \in DOMAIN U /\ W[j] = U[j - 1]
    OBVIOUS
  <2>1. j - 1 \in DOMAIN U /\ (j - 1) + 1 = j
    BY <1>6
  <2> QED BY <1>7, <2>1
<1>9. \A j \in DOMAIN W : IsUser(W[j])
  BY <1>2, <1>5, <1>8
<1>10. \A i \in DOMAIN U : new.id # U[i].id
  BY NewId
<1>11. UniqueIds(W)
  <2> SUFFICES ASSUME NEW j \in DOMAIN W, NEW k \in DOMAIN W, W[j].id = W[k].id PROVE j = k
    BY DEF UniqueIds
  <2>1. CASE j = 1 \/ k = 1
    BY <1>5, <1>8, <1>10, <2>1
  <2>2. CASE j # 1 /\ k # 1
    <3>1. j - 1 = k - 1
      BY <1>2, <1>8, <2>2 DEF UniqueIds
    <3> QED BY <1>6, <3>1
  <2> QED BY <2>1, <2>2
<1>12. UniqueNames(W)
  <2> SUFFICES ASSUME NEW j \in DOMAIN W, NEW k \in DOMAIN W, W[j].name = W[k].name, ~W[j].deleted, ~W[k].deleted
               PROVE  j = k
    BY DEF UniqueNames
  <2>1. CASE j = 1 \/ k = 1
    BY <1>5, <1>8, <2>1
  <2>2. CASE j # 1 /\ k # 1
    <3>1. j - 1 = k - 1
      BY <1>8, <2>2 DEF UniqueNames
    <3> QED BY <1>6, <3>1
  <2> QED BY <2>1, <2>2
<1>13. IsUsers(W)
  BY <1>5, <1>9, <1>11 DEF IsUsers, IsList
<1>14. 1 \in DOMAIN W /\ \A i \in DOMAIN U : i + 1 \in DOMAIN W
  BY <1>6
<1> QED BY <1>1, <1>5, <1>7, <1>12, <1>13, <1>14

(* ADDUSER, which gives the main server when the users have been saved.    *)
LEMMA AddUserRight ==
    ASSUME NEW st, NEW R, Right(st, R), NEW n, NEW a, NEW c
    PROVE  Right(process_cmd_adduser(st, n, a, c), R)
<1>1. PICK id : id = ocf_users_get_unique_id(st.users)
  OBVIOUS
<1>2. PICK new : new = [id |-> id, name |-> c.name, flags |-> {}, pass |-> None,
                        hosts |-> {c.arg}, main |-> None, servers |-> <<>>, umode |-> {}, deleted |-> FALSE]
  OBVIOUS
<1>3. PICK W : W = <<new>> \o st.users
  OBVIOUS
<1>4. PICK base : base = ocf_users_updated(SetUsers(st, W))
  OBVIOUS
<1>5. PICK told : told = send_notice_to_loggedin(base, "u", {n})
  OBVIOUS
<1>6. PICK main : main = UserOf(st, n).main
  OBVIOUS
<1>7. PICK v : v = [new EXCEPT !.main = main]
  OBVIOUS
<1>8. \/ process_cmd_adduser(st, n, a, c) = st
      \/ Target(st, c) = 0 /\ process_cmd_adduser(st, n, a, c) \in {told, Set(told, 1, v)}
  BY <1>1, <1>2, <1>3, <1>4, <1>5, <1>6, <1>7 DEF process_cmd_adduser
<1>9. ASSUME Target(st, c) = 0 PROVE Right(told, R) /\ Right(Set(told, 1, v), R)
  <2>1. IsUsers(st.users) /\ UniqueNames(st.users)
    BY DEF Right, Sound
  <2>2. /\ new.id = id /\ new.name = c.name /\ new.deleted = FALSE /\ new.servers = <<>>
        /\ new = [id |-> new.id, name |-> new.name, flags |-> new.flags, pass |-> new.pass, hosts |-> new.hosts,
                  main |-> new.main, servers |-> new.servers, umode |-> new.umode, deleted |-> new.deleted]
    BY <1>2
  <2>3. id \in Nat
    BY <1>1, <2>1, NewId
  <2>4. new.servers \in Seq(ToSet(new.servers) \ {None})
    BY <2>2
  <2>5. IsUser(new)
    BY <2>2, <2>3, <2>4 DEF IsUser
  <2>6. \A i \in DOMAIN st.users : st.users[i].name = new.name => st.users[i].deleted
    BY <1>9, <2>2, TargetFacts
  <2>7. /\ IsUsers(W) /\ UniqueNames(W) /\ 1 \in DOMAIN W /\ W[1] = new
        /\ \A i \in DOMAIN st.users : i + 1 \in DOMAIN W /\ W[i + 1] = st.users[i]
    BY <1>1, <1>3, <2>1, <2>2, <2>5, <2>6, NewUser
  <2>8. Right(base, R) /\ base.users = W /\ base.file = W
    <3>1. Right(base, R)
      BY <1>4, <2>7, WrittenRight
    <3> QED BY <1>4, <3>1, StateFields DEF ocf_users_updated, SetUsers
  <2>9. Right(told, R) /\ told.users = W /\ told.file = W
    BY <1>5, <2>8, NoticesQuiet DEF Quiet
  <2>10. PICK X : X = [W EXCEPT ![1] = v]
    OBVIOUS
  <2>11. SameUser(new, v)
    BY <1>7, <2>5, FieldChanges
  <2>12. IsList(X) /\ DOMAIN X = DOMAIN W /\ \A i \in DOMAIN W : X[i] = IF i = 1 THEN v ELSE W[i]
    <3>1. IsList(W)
      BY <2>7 DEF IsUsers
    <3> QED BY <2>7, <2>10, <3>1, ListSteps DEF IsList
  <2>13. \A i \in DOMAIN W : SameUser(W[i], X[i])
    BY <2>7, <2>11, <2>12 DEF SameUser, IsUsers
  <2>14. IsUsers(X) /\ UniqueNames(X)
    BY <2>7, <2>12, <2>13, SameList
  <2>15. GivenBack(X, W)
    <3>1. GivenBack(W, W)
      BY <2>7, KeptWritten
    <3>2. WithMain(new) = new /\ WithMain(v) = v
      <4>1. v.servers = <<>> /\ IsUser(v)
        BY <1>7, <2>2, <2>11 DEF SameUser
      <4> QED BY <2>2, <2>5, <4>1, WithMainFacts
    <3>3. ButMain(v) = ButMain(new)
      BY <1>7, <2>5, ButMainFacts
    <3>4. \A i \in DOMAIN W : X[i].deleted = W[i].deleted /\ ButMain(WithMain(X[i])) = ButMain(WithMain(W[i]))
      BY <2>7, <2>12, <2>13, <3>2, <3>3 DEF SameUser
    <3> QED BY <2>12, <3>1, <3>4 DEF GivenBack
  <2>16. PICK out : out = Set(told, 1, v)
    OBVIOUS
  <2>17. out.users = X /\ out.file = W /\ out.sessions = told.sessions /\ out.proved = told.proved
    BY <2>9, <2>10, <2>16, StateFields DEF Set, SetUsers
  <2>18. \A i \in DOMAIN told.users : out.users[i].id = told.users[i].id /\ out.users[i].deleted = told.users[i].deleted
    BY <2>9, <2>13, <2>17 DEF SameUser
  <2>19. Right(out, R)
    BY <2>7, <2>9, <2>12, <2>14, <2>15, <2>17, <2>18, UsersRight
  <2> QED BY <2>9, <2>16, <2>19
<1> QED BY <1>8, <1>9

(* DELUSER: the sessions of the user end with it.                          *)
LEMMA DelUserRight ==
    ASSUME NEW st, NEW R, Right(st, R), NEW n, NEW a, NEW c
    PROVE  Right(process_cmd_deluser(st, n, a, c), R)
<1>1. PICK i : i = Target(st, c)
  OBVIOUS
<1>2. PICK u : u = st.users[i]
  OBVIOUS
<1>3. PICK v : v = [u EXCEPT !.deleted = TRUE]
  OBVIOUS
<1>4. PICK W : W = [st.users EXCEPT ![i] = v]
  OBVIOUS
<1>5. PICK P : P = {p \in st.proved : p[1] # u.id}
  OBVIOUS
<1>6. PICK gone : gone = ocf_users_updated(State(W, st.sessions, st.file, st.saved, P))
  OBVIOUS
<1>7. PICK told : told = send_notice_to_loggedin(gone, "u", {n})
  OBVIOUS
<1>8. Deleted(st, n, c) = st \/ (i # 0 /\ Deleted(st, n, c) = told)
  BY <1>1, <1>2, <1>3, <1>4, <1>5, <1>6, <1>7 DEF Deleted
<1>9. PICK out : out = ocf_check_loggedin_users(told, FALSE)
  OBVIOUS
<1>10. process_cmd_deluser(st, n, a, c) = st \/ (i # 0 /\ process_cmd_deluser(st, n, a, c) = out)
  BY <1>8, <1>9 DEF process_cmd_deluser
<1>11. ASSUME i # 0 PROVE Right(out, R)
  <2>1. i \in DOMAIN st.users /\ IsUser(u) /\ IsUsers(st.users) /\ UniqueNames(st.users) /\ IsList(st.users)
    BY <1>1, <1>2, <1>11, TargetFacts DEF Right, Sound, IsUsers
  <2>2. IsUser(v) /\ v.id = u.id /\ v.name = u.name /\ v.deleted = TRUE
    BY <1>3, <2>1 DEF IsUser
  <2>3. IsList(W) /\ DOMAIN W = DOMAIN st.users /\ \A j \in DOMAIN W : W[j] = IF j = i THEN v ELSE st.users[j]
    BY <1>4, <2>1, ListSteps DEF IsList
  <2>4. UniqueIds(W) /\ UniqueNames(W) /\ \A j \in DOMAIN W : IsUser(W[j]) /\ W[j].id = st.users[j].id
    <3>1. \A j \in DOMAIN W : IsUser(W[j]) /\ W[j].id = st.users[j].id /\ W[j].name = st.users[j].name
      BY <1>2, <2>1, <2>2, <2>3 DEF IsUsers
    <3>2. \A j \in DOMAIN W : ~W[j].deleted => ~st.users[j].deleted
      BY <2>2, <2>3
    <3> QED BY <2>1, <2>3, <3>1, <3>2 DEF IsUsers, UniqueIds, UniqueNames
  <2>5. IsUsers(W) /\ GivenBack(W, W)
    BY <2>3, <2>4, KeptWritten DEF IsUsers
  <2>6. gone.users = W /\ gone.file = W /\ gone.sessions = st.sessions /\ gone.proved = P
    BY <1>6, StateFields DEF ocf_users_updated
  <2>7. ASSUME NEW k \in Nicks, st.sessions[k] # None
        PROVE  \E j \in DOMAIN W : /\ W[j].id = st.sessions[k].id
                                   /\ ~W[j].deleted => <<st.sessions[k].id, k, st.sessions[k].addr>> \in P \cup R
    <3>1. PICK j \in DOMAIN st.users : /\ st.users[j].id = st.sessions[k].id
                                       /\ ~st.users[j].deleted =>
                                            <<st.sessions[k].id, k, st.sessions[k].addr>> \in st.proved \cup R
      BY <2>7 DEF Right, Sound
    <3>2. CASE j = i
      BY <2>2, <2>3, <2>4, <3>1, <3>2
    <3>3. CASE j # i
      <4>1. st.sessions[k].id # u.id
        BY <1>2, <2>1, <3>1, <3>3 DEF IsUsers, UniqueIds
      <4>2. <<st.sessions[k].id, k, st.sessions[k].addr>>[1] = st.sessions[k].id
        OBVIOUS
      <4>3. ~st.users[j].deleted => <<st.sessions[k].id, k, st.sessions[k].addr>> \in P \cup R
        BY <1>5, <3>1, <4>1, <4>2
      <4> QED BY <2>3, <3>1, <3>3, <4>3
    <3> QED BY <3>2, <3>3
  <2>8. Sound(gone, R)
    BY <2>4, <2>5, <2>6, <2>7 DEF Sound, Right
  <2>9. Sound(told, R)
    BY <1>7, <2>8, NoticesQuiet DEF Quiet
  <2>10. Sound(out, R) /\ out.users = told.users
    BY <1>9, <2>9, NoticesQuiet DEF Quiet
  <2>11. ASSUME NEW k \in Nicks, out.sessions[k] # None PROVE ~UserOf(out, k).deleted
    <3>1. PICK N : N = {m \in LoggedIn(told) : verify_loggedin_user(told, m) = 0 /\ (FALSE \/ UserOf(told, m).deleted)}
      OBVIOUS
    <3>2. out = ocf_user_logout(told, N)
      BY <1>9, <3>1 DEF ocf_check_loggedin_users
    <3>3. out.sessions = [m \in Nicks |-> IF m \in N THEN None ELSE told.sessions[m]]
      BY <3>2, StateFields DEF ocf_user_logout
    <3>4. k \notin N /\ out.sessions[k] = told.sessions[k]
      BY <2>11, <3>3
    <3>5. k \in LoggedIn(told)
      BY <2>11, <3>4 DEF LoggedIn
    <3>6. UserOf(out, k) = UserOf(told, k)
      BY <2>10, <3>4 DEF UserOf
    <3>7. UserOf(told, k).deleted => verify_loggedin_user(told, k) = 0
      BY DEF verify_loggedin_user
    <3> QED BY <3>1, <3>4, <3>5, <3>6, <3>7
  <2> QED BY <2>10, <2>11 DEF Right, Alive
<1> QED BY <1>10, <1>11

(* The session s of n is that of an entry of the loggedin file, and its    *)
(* user is not deleted.                                                    *)
From(U, e, n, s) ==
    /\ e[2] = n /\ NamedUser(U, e[1]) \in DOMAIN U /\ ~U[NamedUser(U, e[1])].deleted
    /\ s.id = U[NamedUser(U, e[1])].id /\ s.addr = e[3]

(* ocf_user_load_loggedin() gives sessions and nothing else,               *)
LEMMA LoadedFields ==
    ASSUME NEW st, NEW E
    PROVE  /\ ocf_user_load_loggedin(st, E).users = st.users /\ ocf_user_load_loggedin(st, E).file = st.file
           /\ ocf_user_load_loggedin(st, E).proved = st.proved
           /\ \E S : ocf_user_load_loggedin(st, E).sessions = [n \in Nicks |-> S[n]]
<1> DEFINE Entry(n) == {e \in E : e[2] = n /\ NamedUser(st.users, e[1]) # 0}
           Session(e) == [id |-> st.users[NamedUser(st.users, e[1])].id, addr |-> e[3]]
<1>1. PICK S : S = [n \in Nicks |-> IF Entry(n) = {} THEN None ELSE Session(CHOOSE e \in Entry(n) : TRUE)]
  OBVIOUS
<1>2. ocf_user_load_loggedin(st, E) = State(st.users, S, st.file, st.saved, st.proved)
  BY <1>1, Zenon DEF ocf_user_load_loggedin
<1>3. /\ ocf_user_load_loggedin(st, E).users = st.users /\ ocf_user_load_loggedin(st, E).file = st.file
      /\ ocf_user_load_loggedin(st, E).proved = st.proved /\ ocf_user_load_loggedin(st, E).sessions = S
  BY <1>2, StateFields
<1>4. S = [n \in Nicks |-> S[n]]
  BY <1>1
<1> HIDE DEF Entry, Session
<1> QED BY <1>3, <1>4

(* of users that are not deleted.                                          *)
LEMMA LoadedSessions ==
    ASSUME NEW st, IsList(st.users), NEW E, NEW out, out = ocf_user_load_loggedin(st, E)
    PROVE  \A n \in Nicks : out.sessions[n] # None => \E e \in E : From(st.users, e, n, out.sessions[n])
<1> DEFINE Entry(n) == {e \in E : e[2] = n /\ NamedUser(st.users, e[1]) # 0}
           Session(e) == [id |-> st.users[NamedUser(st.users, e[1])].id, addr |-> e[3]]
<1>1. PICK S : S = [n \in Nicks |-> IF Entry(n) = {} THEN None ELSE Session(CHOOSE e \in Entry(n) : TRUE)]
  OBVIOUS
<1>2. out = State(st.users, S, st.file, st.saved, st.proved)
  BY <1>1, Zenon DEF ocf_user_load_loggedin
<1>3. out.sessions = S
  BY <1>2, StateFields
<1>4. ASSUME NEW n \in Nicks, S[n] # None
      PROVE  \E e \in E : From(st.users, e, n, S[n])
  <2>1. Entry(n) # {}
    BY <1>1, <1>4
  <2>2. PICK e : e = CHOOSE x \in Entry(n) : TRUE
    OBVIOUS
  <2>3. e \in Entry(n) /\ S[n] = Session(e)
    BY <1>1, <2>1, <2>2
  <2>4. e \in E /\ e[2] = n /\ NamedUser(st.users, e[1]) # 0
    BY <2>3
  <2>5. S[n].id = st.users[NamedUser(st.users, e[1])].id /\ S[n].addr = e[3]
    BY <2>3
  <2>6. NamedUser(st.users, e[1]) \in DOMAIN st.users /\ ~st.users[NamedUser(st.users, e[1])].deleted
    BY <2>4, NamedFacts
  <2> QED BY <2>4, <2>5, <2>6 DEF From
<1> HIDE DEF Entry, Session
<1> QED BY <1>3, <1>4

(* What is loaded holds together.                                          *)
LEMMA LoadedRight ==
    ASSUME NEW f, IsUsers(f), NEW out, out.users = ocf_user_load_all(f), out.file = f,
           NEW st, st.users = out.users, NEW E, out.sessions = ocf_user_load_loggedin(st, E).sessions,
           NEW R, \A n \in Nicks : out.sessions[n] # None =>
                     <<out.sessions[n].id, n, out.sessions[n].addr>> \in out.proved \cup R
    PROVE  Right(out, R)
<1>1. PICK U : U = out.users
  OBVIOUS
<1>2. IsUsers(U) /\ UniqueNames(U) /\ GivenBack(U, f) /\ IsList(st.users) /\ UniqueIds(U)
  BY <1>1, LoadAll, LoadedNames, KeptRead DEF IsUsers
<1>3. /\ out.sessions = [n \in Nicks |-> out.sessions[n]]
      /\ \A n \in Nicks : out.sessions[n] # None =>
            \E i \in DOMAIN U : U[i].id = out.sessions[n].id /\ ~U[i].deleted
  <2>1. PICK x : x = ocf_user_load_loggedin(st, E)
    OBVIOUS
  <2>2. x.sessions = [n \in Nicks |-> x.sessions[n]]
    <3>1. PICK S : x.sessions = [n \in Nicks |-> S[n]]
      BY <2>1, LoadedFields
    <3> QED BY <3>1
  <2>3. ASSUME NEW n \in Nicks, x.sessions[n] # None PROVE \E i \in DOMAIN U : U[i].id = x.sessions[n].id /\ ~U[i].deleted
    <3>1. \E e \in E : From(st.users, e, n, x.sessions[n])
      BY <1>2, <2>1, <2>3, LoadedSessions
    <3> QED BY <1>1, <3>1 DEF From
  <2> QED BY <2>1, <2>2, <2>3
<1>4. Sound(out, R)
  BY <1>1, <1>2, <1>3 DEF Sound
<1>5. ASSUME NEW n \in Nicks, out.sessions[n] # None PROVE ~UserOf(out, n).deleted
  <2>1. PICK i \in DOMAIN U : U[i].id = out.sessions[n].id /\ ~U[i].deleted
    BY <1>3, <1>5
  <2> QED BY <1>1, <1>2, <2>1, ByIdFacts DEF UserOf
<1> QED BY <1>4, <1>5 DEF Right, Alive

(* REHASH: the sessions that were saved come back with the same users.     *)
LEMMA RehashRight ==
    ASSUME NEW st, NEW R, Right(st, R), NEW n, NEW a, NEW c
    PROVE  Right(process_cmd_rehash(st, n, a, c), R)
<1>1. PICK told : told = send_notice_to_loggedin(st, "m", {n})
  OBVIOUS
<1>2. PICK kept : kept = ocf_user_save_loggedin(told)
  OBVIOUS
<1>3. PICK mid : mid = SetUsers(kept, ocf_user_load_all(kept.file))
  OBVIOUS
<1>4. PICK out : out = ocf_user_load_loggedin(mid, kept.saved)
  OBVIOUS
<1>5. process_cmd_rehash(st, n, a, c) = out
  BY <1>1, <1>2, <1>3, <1>4 DEF process_cmd_rehash
<1>6. Right(told, R)
  BY <1>1, NoticesQuiet DEF Quiet
<1>7. /\ kept.users = told.users /\ kept.file = told.file /\ kept.proved = told.proved
      /\ kept.saved = {<<UserOf(told, k).name, k, told.sessions[k].addr>> : k \in LoggedIn(told)}
  BY <1>2, StateFields DEF ocf_user_save_loggedin
<1>8. PICK L : L = ocf_user_load_all(told.file)
  OBVIOUS
<1>9. mid.users = L /\ mid.file = told.file /\ mid.proved = told.proved
  BY <1>3, <1>7, <1>8, StateFields DEF SetUsers
<1>10. IsUsers(told.file) /\ IsList(mid.users)
  BY <1>6, <1>8, <1>9, LoadAll DEF Right, Sound, IsUsers
<1>11. out.users = L /\ out.file = told.file /\ out.proved = told.proved
  BY <1>4, <1>9, LoadedFields
<1>12. ASSUME NEW k \in Nicks, out.sessions[k] # None
       PROVE  <<out.sessions[k].id, k, out.sessions[k].addr>> \in out.proved \cup R
  <2>1. PICK e \in kept.saved : From(mid.users, e, k, out.sessions[k])
    BY <1>4, <1>10, <1>12, LoadedSessions
  <2>2. /\ e[2] = k /\ out.sessions[k].id = mid.users[NamedUser(mid.users, e[1])].id
        /\ out.sessions[k].addr = e[3]
    BY <2>1 DEF From
  <2>3. PICK j \in LoggedIn(told) : e = <<UserOf(told, j).name, j, told.sessions[j].addr>>
    BY <1>7, <2>2
  <2>4. j = k /\ e[1] = UserOf(told, k).name /\ e[3] = told.sessions[k].addr /\ told.sessions[k] # None
    BY <2>2, <2>3 DEF LoggedIn
  <2>5. PICK i \in DOMAIN told.users : /\ told.users[i].id = told.sessions[k].id
                                       /\ ~told.users[i].deleted =>
                                            <<told.sessions[k].id, k, told.sessions[k].addr>> \in told.proved \cup R
    BY <1>6, <2>4 DEF Right, Sound
  <2>6. UserOf(told, k) = told.users[i]
    BY <1>6, <2>5, ByIdFacts DEF UserOf, Right, Sound, IsUsers
  <2>7. ~told.users[i].deleted
    BY <1>6, <2>4, <2>6 DEF Right, Alive
  <2>8. L[NamedUser(L, told.users[i].name)].id = told.users[i].id
    BY <1>6, <1>8, <2>7, KeptFound DEF Right, Sound
  <2>9. out.sessions[k].id = told.sessions[k].id /\ out.sessions[k].addr = told.sessions[k].addr
    BY <1>9, <2>2, <2>4, <2>5, <2>6, <2>8
  <2> QED BY <1>11, <2>5, <2>7, <2>9
<1>13. Right(out, R)
  BY <1>4, <1>8, <1>9, <1>10, <1>11, <1>12, LoadedRight
<1> QED BY <1>5, <1>13

(* A command with too few words is not run: ADDSERVER names a server.      *)
LEMMA ArgGiven ==
    ASSUME NEW c, ~wrong_syntax(c), c.cmd = "ADDSERVER"
    PROVE  c.arg # None
<1> SUFFICES ASSUME c.arg = None PROVE FALSE
  OBVIOUS
<1> DEFINE K == {k \in {"name", "arg"} : c[k] # None}
<1>1. K \subseteq {"name"}
  OBVIOUS
<1>2. IsFiniteSet({"name"}) /\ Cardinality({"name"}) = 1
  BY FS_Singleton
<1>3. Cardinality(K) \in Nat /\ Cardinality(K) <= 1
  BY <1>1, <1>2, FS_Subset, FS_CardinalityType
<1>4. cmd_num_params(c.cmd) = 2
  BY DEF cmd_num_params
<1> QED BY <1>3, <1>4 DEF wrong_syntax

(* Every command of a client, from the look at its session to its answer.  *)
LEMMA CommandRight ==
    ASSUME NEW st, NEW R, Right(st, R), NEW n \in Nicks, NEW a, NEW c
    PROVE  Right(process_privmsg(st, n, a, c), R)
<1>1. ASSUME ~wrong_syntax(c) PROVE Right(process_cmd_functions(st, n, a, c), R)
  <2>1. /\ Right(process_cmd_login(st, n, a, c), R) /\ Right(process_cmd_logout(st, n, a, c), R)
        /\ Right(process_cmd_passwd(st, n, a, c), R) /\ Right(process_cmd_umode(st, n, a, c), R)
        /\ Right(process_cmd_addflag(st, n, a, c), R) /\ Right(process_cmd_delflag(st, n, a, c), R)
        /\ Right(process_cmd_addhost(st, n, a, c), R) /\ Right(process_cmd_delhost(st, n, a, c), R)
        /\ Right(process_cmd_chpass(st, n, a, c), R) /\ Right(process_cmd_setmainserver(st, n, a, c), R)
        /\ Right(process_cmd_adduser(st, n, a, c), R) /\ Right(process_cmd_deluser(st, n, a, c), R)
        /\ Right(process_cmd_delserver(st, n, a, c), R) /\ Right(process_cmd_rehash(st, n, a, c), R)
    BY SessionCommands, OwnCommands, FieldCommands, ServerCommands, AddUserRight, DelUserRight, RehashRight
  <2>2. c.cmd = "ADDSERVER" => Right(process_cmd_addserver(st, n, a, c), R)
    BY <1>1, ArgGiven, ServerCommands
  <2> QED BY <2>1, <2>2 DEF process_cmd_functions
<1>2. \/ process_privmsg(st, n, a, c) = st
      \/ ~wrong_syntax(c) /\ process_privmsg(st, n, a, c) = process_cmd_functions(st, n, a, c)
  BY DEF process_privmsg, Refused
<1> QED BY <1>1, <1>2

-----------------------------------------------------------------------------
(* The service: what holds between two steps.                              *)

UsersInv ==
    /\ IsUsers(file)
    /\ IsList(queue) /\ \A i \in DOMAIN queue : queue[i].nick \in Nicks
    /\ usersup => Right(State(users, sessions, file, loggedin, proved), revived)
    /\ ~usersup => users = <<>> /\ sessions = [n \in Nicks |-> None]
    /\ last # None => last.right

(* Right() says nothing of the loggedin file.                              *)
LEMMA SameRight ==
    ASSUME NEW R, NEW st, Right(st, R), NEW U, NEW S, NEW F, NEW L, NEW P,
           U = st.users, S = st.sessions, F = st.file, P = st.proved
    PROVE  Right(State(U, S, F, L, P), R)
<1>1. PICK x : x = State(U, S, F, L, P)
  OBVIOUS
<1>2. x.users = st.users /\ x.sessions = st.sessions /\ x.file = st.file /\ x.proved = st.proved
  BY <1>1, StateFields
<1>3. Right(x, R)
  BY <1>2 DEF Right, Sound, Alive, UserOf
<1> QED BY <1>1, <1>3

(* A line is run as the user its sender logged in as.                      *)
LEMMA RanRight ==
    ASSUME NEW st, NEW R, Right(st, R), NEW n \in Nicks, NEW a, Unhijacked(st, n, a).sessions[n] # None
    PROVE  <<Unhijacked(st, n, a).sessions[n].id, n, a>> \in st.proved \cup R
<1>1. PICK out : out = Unhijacked(st, n, a)
  OBVIOUS
<1>2. CASE st.sessions[n] = None \/ st.sessions[n].addr = a
  <2>1. out = st
    BY <1>1, <1>2 DEF Unhijacked
  <2>2. st.sessions[n] # None /\ st.sessions[n].addr = a
    BY <1>1, <1>2, <2>1
  <2>3. PICK i \in DOMAIN st.users : /\ st.users[i].id = st.sessions[n].id
                                     /\ ~st.users[i].deleted =>
                                          <<st.sessions[n].id, n, st.sessions[n].addr>> \in st.proved \cup R
    BY <2>2 DEF Right, Sound
  <2>4. UserOf(st, n) = st.users[i]
    BY <2>3, ByIdFacts DEF UserOf, Right, Sound, IsUsers
  <2>5. ~st.users[i].deleted
    BY <2>2, <2>4 DEF Right, Alive
  <2> QED BY <1>1, <2>1, <2>2, <2>3, <2>5
<1>3. CASE ~(st.sessions[n] = None \/ st.sessions[n].addr = a)
  <2>1. PICK told : told = send_notice_to_loggedin(st, "m", {n})
    OBVIOUS
  <2>2. out = ocf_user_logout(told, {n})
    BY <1>1, <1>3, <2>1 DEF Unhijacked
  <2>3. out.sessions = [k \in Nicks |-> IF k \in {n} THEN None ELSE told.sessions[k]]
    BY <2>2, StateFields DEF ocf_user_logout
  <2> QED BY <1>1, <2>3
<1> QED BY <1>2, <1>3

(* A line for the service.                                                 *)
LEMMA ReadKeepsUsers ==
    ASSUME UsersInv, ReadLine
    PROVE  UsersInv'
<1>1. PICK md : md = Head(queue)
  OBVIOUS
<1>2. usersup /\ usersup' = usersup /\ queue # <<>> /\ queue' = Tail(queue) /\ revived' = revived
  BY DEF ReadLine
<1>3. /\ md.nick \in Nicks /\ IsList(queue')
      /\ \A i \in DOMAIN queue' : queue'[i].nick \in Nicks
  <2>1. PICK S : queue \in Seq(S)
    BY DEF UsersInv, IsList
  <2>2. 1 \in DOMAIN queue /\ md = queue[1]
    BY <1>1, <1>2, <2>1
  <2>3. queue' \in Seq(S) /\ \A i \in DOMAIN queue' : i + 1 \in DOMAIN queue /\ queue'[i] = queue[i + 1]
    BY <1>2, <2>1
  <2> QED BY <2>2, <2>3 DEF UsersInv, IsList
<1>4. PICK st : st = State(users, sessions, file, loggedin, proved)
  OBVIOUS
<1>5. Right(st, revived)
  BY <1>2, <1>4 DEF UsersInv
<1>6. PICK n \in Nicks : n = md.nick
  BY <1>3
<1>7. PICK a : a = online[n]
  OBVIOUS
<1>8. PICK safe : safe = Unhijacked(st, n, a)
  OBVIOUS
<1>9. \/ Become(st) /\ last' = last
      \/ /\ Become(process_privmsg(safe, n, a, md.line))
         /\ last' = IF safe.sessions[n] = None THEN None
                    ELSE [ran |-> <<safe.sessions[n].id, n, a>>, right |-> <<safe.sessions[n].id, n, a>> \in proved \cup revived]
  BY <1>1, <1>4, <1>6, <1>7, <1>8 DEF ReadLine, Memory
<1>10. Right(safe, revived)
  BY <1>5, <1>8, NoticesQuiet DEF Quiet
<1>11. \E out : Become(out) /\ Right(out, revived)
  BY <1>5, <1>9, <1>10, CommandRight
<1>12. PICK out : Become(out) /\ Right(out, revived)
  BY <1>11
<1>13. Right(State(users', sessions', file', loggedin', proved'), revived')
  BY <1>2, <1>12, SameRight DEF Become
<1>14. IsUsers(file')
  BY <1>12 DEF Become, Right, Sound
<1>15. last' # None => last'.right
  <2>1. CASE last' = last
    BY <2>1 DEF UsersInv
  <2>2. CASE safe.sessions[n] = None /\ last' = None
    BY <2>2
  <2>3. ASSUME safe.sessions[n] # None,
               last' = [ran |-> <<safe.sessions[n].id, n, a>>, right |-> <<safe.sessions[n].id, n, a>> \in proved \cup revived]
        PROVE  last'.right
    <3>1. <<safe.sessions[n].id, n, a>> \in st.proved \cup revived
      BY <1>5, <1>8, <2>3, RanRight
    <3>2. (<<safe.sessions[n].id, n, a>> \in proved \cup revived) = TRUE
      BY <1>4, <3>1, StateFields
    <3>3. last' = [ran |-> <<safe.sessions[n].id, n, a>>, right |-> TRUE]
      BY ONLY <2>3, <3>2, Zenon
    <3> QED BY ONLY <3>3
  <2> QED BY <1>9, <2>1, <2>2, <2>3
<1> QED BY <1>2, <1>3, <1>13, <1>14, <1>15 DEF UsersInv

(* The regular check of the sessions.                                      *)
LEMMA CheckKeepsUsers ==
    ASSUME UsersInv, NEW long, CheckUsers(long)
    PROVE  UsersInv'
<1>1. PICK st : st = State(users, sessions, file, loggedin, proved)
  OBVIOUS
<1>2. usersup /\ usersup' = usersup /\ revived' = revived /\ queue' = queue /\ last' = last
  BY DEF CheckUsers
<1>3. Become(ocf_check_loggedin_users(st, long))
  BY <1>1 DEF CheckUsers, Memory
<1>4. PICK out : out = ocf_check_loggedin_users(st, long)
  OBVIOUS
<1>5. Right(out, revived)
  BY <1>1, <1>2, <1>4, NoticesQuiet DEF UsersInv, Quiet
<1>6. Right(State(users', sessions', file', loggedin', proved'), revived')
  BY <1>2, <1>3, <1>4, <1>5, SameRight DEF Become
<1>7. IsUsers(file')
  BY <1>3, <1>4, <1>5 DEF Become, Right, Sound
<1> QED BY <1>2, <1>6, <1>7 DEF UsersInv

(* A beginning of users.conf, with or without a line that broke off.       *)
LEMMA TornFilesRight ==
    ASSUME IsUsers(users), NEW f \in TornFiles
    PROVE  IsUsers(f)
<1>1. PICK S : users \in Seq(S)
  BY DEF IsUsers, IsList
<1>2. Len(users) \in Nat /\ DOMAIN users = 1 .. Len(users)
  BY <1>1
<1>3. ASSUME NEW k \in 0 .. Len(users)
      PROVE  LET g == SubSeq(users, 1, k)
             IN g \in Seq(S) /\ Len(g) = k /\ DOMAIN g = 1 .. k /\ \A i \in 1 .. k : g[i] = users[i]
  BY <1>1, <1>2
<1>4. ASSUME NEW k \in 0 .. Len(users), f = SubSeq(users, 1, k) PROVE IsUsers(f)
  <2>1. f \in Seq(S) /\ DOMAIN f = 1 .. k /\ \A i \in 1 .. k : f[i] = users[i] /\ i \in DOMAIN users
    BY <1>2, <1>3, <1>4
  <2> QED BY <2>1 DEF IsUsers, IsList, UniqueIds
<1>5. ASSUME NEW k \in DOMAIN users, f = SubSeq(users, 1, k - 1) \o <<HalfUser(users[k])>> PROVE IsUsers(f)
  <2>1. PICK g : g = SubSeq(users, 1, k - 1)
    OBVIOUS
  <2>2. PICK u : u = users[k]
    OBVIOUS
  <2>3. PICK h : h = HalfUser(u)
    OBVIOUS
  <2>4. k \in 1 .. Len(users) /\ k - 1 \in 0 .. Len(users)
    BY <1>2
  <2>5. g \in Seq(S) /\ Len(g) = k - 1 /\ DOMAIN g = 1 .. k - 1 /\ \A i \in 1 .. k - 1 : g[i] = users[i]
    BY <1>3, <2>1, <2>4
  <2>6. f = g \o <<h>> /\ g \in Seq(S \cup {h}) /\ <<h>> \in Seq(S \cup {h}) /\ Len(<<h>>) = 1 /\ <<h>>[1] = h
    BY <1>5, <2>1, <2>2, <2>3, <2>5
  <2>7. /\ f \in Seq(S \cup {h}) /\ DOMAIN f = 1 .. k /\ f[k] = h
        /\ \A i \in 1 .. k - 1 : f[i] = users[i] /\ i \in DOMAIN users
    BY <1>2, <2>4, <2>5, <2>6
  <2>8. IsUser(h) /\ h.id = u.id
    <3>1. h = [id |-> u.id, name |-> u.name, flags |-> u.flags, pass |-> u.pass,
               hosts |-> {}, main |-> None, servers |-> <<>>, umode |-> {}, deleted |-> FALSE]
      BY <2>3 DEF HalfUser
    <3>2. u.id \in Nat
      BY <2>2 DEF IsUsers, IsUser
    <3>3. h.servers \in Seq(ToSet(h.servers) \ {None})
      BY <3>1
    <3> QED BY <3>1, <3>2, <3>3 DEF IsUser
  <2>9. \A i \in DOMAIN f : IsUser(f[i]) /\ f[i].id = users[i].id /\ i \in DOMAIN users
    BY <2>2, <2>4, <2>7, <2>8 DEF IsUsers
  <2> QED BY <2>7, <2>9 DEF IsUsers, IsList, UniqueIds
<1> QED BY <1>4, <1>5 DEF TornFiles

(* The service ends, or is killed.                                         *)
LEMMA StopKeepsUsers ==
    ASSUME UsersInv, users_moddeinit \/ \E saving \in BOOLEAN : UsersCrash(saving)
    PROVE  UsersInv'
<1>1. /\ usersup /\ ~usersup' /\ queue' = <<>> /\ sessions' = [n \in Nicks |-> None] /\ users' = <<>>
      /\ last' = last
  BY DEF users_moddeinit, UsersCrash
<1>2. IsUsers(file) /\ IsUsers(users)
  BY <1>1, StateFields DEF UsersInv, Right, Sound
<1>3. CASE users_moddeinit
  <2>1. file' = users
    <3>1. PICK st : st = ocf_users_updated(Memory)
      OBVIOUS
    <3>2. PICK out : out = ocf_user_save_loggedin(st)
      OBVIOUS
    <3>3. file' = out.file
      BY <1>3, <3>1, <3>2 DEF users_moddeinit
    <3>4. st.file = users
      BY <3>1, StateFields DEF ocf_users_updated, Memory
    <3>5. out.file = st.file
      BY <3>2, StateFields DEF ocf_user_save_loggedin
    <3> QED BY <3>3, <3>4, <3>5
  <2> QED BY <1>1, <1>2, <2>1 DEF UsersInv, IsList
<1>4. CASE \E saving \in BOOLEAN : UsersCrash(saving)
  <2>1. file' = file \/ file' \in TornFiles
    BY <1>4 DEF UsersCrash
  <2>2. IsUsers(file')
    BY <1>2, <2>1, TornFilesRight
  <2> QED BY <1>1, <2>2 DEF UsersInv, IsList
<1> QED BY <1>3, <1>4

(* The service starts.                                                     *)
LEMMA StartKeepsUsers ==
    ASSUME UsersInv, NEW recent \in BOOLEAN, users_modinit(recent)
    PROVE  UsersInv'
<1>1. PICK E : E = IF recent THEN loggedin ELSE {}
  OBVIOUS
<1>2. PICK st : st = SetUsers(Memory, ocf_user_load_all(file))
  OBVIOUS
<1>3. PICK new : new = ocf_user_load_loggedin(st, E)
  OBVIOUS
<1>4. /\ usersup' /\ users' = ocf_user_load_all(file) /\ sessions' = new.sessions /\ proved' = {} /\ file' = file
      /\ revived' = {<<new.sessions[n].id, n, new.sessions[n].addr>> : n \in LoggedIn(new)}
      /\ queue' = queue /\ last' = last
  BY <1>1, <1>2, <1>3 DEF users_modinit
<1>5. PICK out : out = State(users', sessions', file', loggedin', proved')
  OBVIOUS
<1>6. out.users = ocf_user_load_all(file) /\ out.file = file /\ out.sessions = new.sessions /\ out.proved = {}
  BY <1>4, <1>5, StateFields
<1>7. st.users = out.users
  BY <1>2, <1>6, StateFields DEF SetUsers
<1>8. PICK R : R = revived'
  OBVIOUS
<1>9. ASSUME NEW n \in Nicks, out.sessions[n] # None
      PROVE  <<out.sessions[n].id, n, out.sessions[n].addr>> \in out.proved \cup R
  BY <1>4, <1>6, <1>8, <1>9 DEF LoggedIn
<1>10. Right(out, R)
  <2>1. IsUsers(file)
    BY DEF UsersInv
  <2> QED BY <1>3, <1>6, <1>7, <1>9, <2>1, LoadedRight
<1> QED BY <1>4, <1>5, <1>8, <1>10 DEF UsersInv

(* Every step.                                                             *)
LEMMA UsersStep == FirstRight => (UsersSpec => []UsersInv)
<1> SUFFICES ASSUME FirstRight PROVE UsersSpec => []UsersInv
  OBVIOUS
<1>1. UsersInit => UsersInv
  BY DEF UsersInit, UsersInv, FirstRight, IsUsers, IsList
<1>2. UsersInv /\ [UsersNext]_usersvars => UsersInv'
  <2> SUFFICES ASSUME UsersInv, [UsersNext]_usersvars PROVE UsersInv'
    OBVIOUS
  <2>1. CASE ReadLine
    BY <2>1, ReadKeepsUsers
  <2>2. CASE users_moddeinit \/ \E b \in BOOLEAN : UsersCrash(b)
    BY <2>2, StopKeepsUsers
  <2>3. ASSUME NEW b \in BOOLEAN, CheckUsers(b) PROVE UsersInv'
    BY <2>3, CheckKeepsUsers
  <2>4. ASSUME NEW b \in BOOLEAN, users_modinit(b) PROVE UsersInv'
    BY <2>4, StartKeepsUsers
  <2>5. CASE UNCHANGED <<users, sessions, file, loggedin, proved, revived, usersup, queue, last>>
    BY <2>5 DEF UsersInv
  <2>6. ASSUME NEW n \in Nicks, Vanish(n) \/ \E a \in Addrs : Appear(n, a) PROVE UsersInv'
    BY <2>5, <2>6 DEF Vanish, Appear
  <2>7. ASSUME NEW n \in Nicks, NEW c, Send(n, c) PROVE UsersInv'
    <3>1. PICK m : m = [nick |-> n, addr |-> online[n], line |-> c]
      OBVIOUS
    <3>2. queue' = Append(queue, m) /\ UNCHANGED <<users, sessions, file, loggedin, proved, revived, usersup, last>>
      BY <2>7, <3>1 DEF Send
    <3>3. PICK S : queue \in Seq(S)
      BY DEF UsersInv, IsList
    <3>4. m.nick \in Nicks /\ queue' \in Seq(S \cup {m})
      BY <3>1, <3>2, <3>3
    <3>5. \A i \in DOMAIN queue' : queue'[i] = m \/ (i \in DOMAIN queue /\ queue'[i] = queue[i])
      BY <3>2, <3>3
    <3> QED BY <3>2, <3>4, <3>5 DEF UsersInv, IsList
  <2>8. CASE UNCHANGED usersvars
    BY <2>5, <2>8 DEF usersvars
  <2> QED BY <2>1, <2>2, <2>3, <2>4, <2>6, <2>7, <2>8 DEF UsersNext
<1> QED BY <1>1, <1>2, PTL DEF UsersSpec

(* A session is that of a client who gave the password of a user that is   *)
(* not deleted, or came back from the loggedin file, and a command runs as *)
(* the user its sender logged in as, whoever takes a nick, is deleted or   *)
(* added in between (process_privmsg(), ocf_user_logout(),                 *)
(* ocf_check_loggedin_users(), process_cmd_rehash()).                      *)
THEOREM SessionsStayProved ==
    ASSUME FirstRight
    PROVE  UsersSpec => []SessionsProved
<1>1. UsersInv => SessionsProved
  <2> SUFFICES ASSUME UsersInv PROVE SessionsProved
    OBVIOUS
  <2>1. ASSUME NEW n \in Nicks, sessions[n] # None
        PROVE  <<sessions[n].id, n, sessions[n].addr>> \in proved \cup revived /\ ~ById(users, sessions[n].id).deleted
    <3>1. PICK st : st = State(users, sessions, file, loggedin, proved)
      OBVIOUS
    <3>2. st.users = users /\ st.sessions = sessions /\ st.proved = proved
      BY <3>1, StateFields
    <3>3. Right(st, revived)
      BY <2>1, <3>1 DEF UsersInv
    <3>4. PICK i \in DOMAIN users : /\ users[i].id = sessions[n].id
                                    /\ ~users[i].deleted => <<sessions[n].id, n, sessions[n].addr>> \in proved \cup revived
      BY <2>1, <3>2, <3>3 DEF Right, Sound
    <3>5. ~ById(users, sessions[n].id).deleted
      BY <2>1, <3>2, <3>3 DEF Right, Alive, UserOf
    <3>6. ById(users, sessions[n].id) = users[i]
      BY <3>2, <3>3, <3>4, ByIdFacts DEF Right, Sound, IsUsers
    <3> QED BY <3>4, <3>5, <3>6
  <2> QED BY <2>1 DEF SessionsProved, UsersInv
<1> QED BY <1>1, UsersStep, PTL

(* Every change of a user is in users.conf before the next command, but    *)
(* for the main server of one just added, and reading the file gives back  *)
(* what was written: a REHASH or a new start changes no rights             *)
(* (ocf_users_updated(), ocf_user_load_all()).                             *)
THEOREM RightsStayKept ==
    ASSUME FirstRight
    PROVE  UsersSpec => []RightsKept
<1>1. UsersInv => RightsKept
  BY StateFields DEF UsersInv, Right, Sound, RightsKept
<1> QED BY <1>1, UsersStep, PTL
=============================================================================
