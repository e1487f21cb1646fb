---------------------------- MODULE ChannelsProofs ----------------------------
(***************************************************************************)
(* Proofs of NoTakeover, BanCacheFresh and InvitesMatch for any number of  *)
(* servers, users and channels, any scene, and mode lines, JOIN lists and  *)
(* streams of any length.                                                  *)
(***************************************************************************)
EXTENDS Channels, ChannelModesProofs, FiniteSetTheorems

(* One copy of a channel, at server s.  e[u] is the oldest TS under which   *)
(* u was made operator of it, id[u] the identity of u.                      *)
Lawful(k, e) == \A u \in DOMAIN k.members : "o" \in k.members[u] => k.ts >= e[u]
CacheRight(s, k, id, u) ==
    LET fl == k.members[u] \cap BanCache
    IN  fl # {} => /\ Home[u] = s
                   /\ "checked" \in fl
                   /\ "silenced" \in fl <=> is_banned(k, id[u])
Fresh(s, k, id) == \A u \in DOMAIN k.members : CacheRight(s, k, id, u)
Dated(k) == IF Exists(k) THEN k.ts > 0 ELSE k = NoChannel
Good(s, k, e, id) ==
    k \in ChannelRecords /\ Dated(k) /\ Lawful(k, e) /\ Fresh(s, k, id)

(* A channel changes, and stays good.                                       *)
LEMMA GoodNext ==
    ASSUME NEW s, NEW k, NEW n \in ChannelRecords, NEW e, NEW id, Good(s, k, e, id),
           Exists(n), Exists(k), n.ts = k.ts, DOMAIN n.members \subseteq DOMAIN k.members,
           CacheKept(k, n),
           \A u \in DOMAIN n.members : "o" \in n.members[u] => "o" \in k.members[u] \/ k.ts >= e[u]
    PROVE  Good(s, n, e, id)
<1>1. Dated(n) /\ Lawful(n, e)
  BY DEF Good, Dated, Lawful
<1>2. ASSUME NEW u \in DOMAIN n.members
      PROVE  CacheRight(s, n, id, u)
  <2>1. CASE n.members[u] \cap BanCache = {}
    BY <2>1 DEF CacheRight
  <2>2. CASE n.members[u] \cap BanCache # {}
    <3>1. /\ n.members[u] \cap BanCache = k.members[u] \cap BanCache
          /\ n.list["b"] = k.list["b"] /\ n.list["e"] = k.list["e"]
      BY <2>2 DEF CacheKept
    <3>2. is_banned(n, id[u]) <=> is_banned(k, id[u])
      BY <3>1 DEF is_banned
    <3>3. CacheRight(s, k, id, u)
      BY DEF Good, Fresh
    <3> QED BY <3>1, <3>2, <3>3 DEF CacheRight
  <2> QED BY <2>1, <2>2
<1> QED BY <1>1, <1>2 DEF Good, Fresh

(* The same for a change that leaves the members and their flags as they    *)
(* are.                                                                     *)
LEMMA GoodSame ==
    ASSUME NEW s, NEW k, NEW n \in ChannelRecords, NEW e, NEW id, Good(s, k, e, id),
           n.ts = k.ts, n.members = k.members, n.list = k.list, Exists(k)
    PROVE  Good(s, n, e, id) /\ Exists(n)
<1>1. Exists(n) /\ CacheKept(k, n)
  BY DEF Exists, CacheKept
<1> QED BY <1>1, GoodNext

(* A channel that does not exist is good.                                   *)
LEMMA GoodNone ==
    ASSUME NEW s, NEW e, NEW id
    PROVE  Good(s, NoChannel, e, id)
<1>1. DOMAIN NoChannel.members = {} /\ ~ Exists(NoChannel) /\ NoChannel \in ChannelRecords
  BY NoChannelFacts
<1>2. Dated(NoChannel)
  BY <1>1 DEF Dated
<1> QED BY <1>1, <1>2 DEF Good, Lawful, Fresh

(* Somebody earned status earlier than was known: nothing gets worse.       *)
LEMMA GoodMono ==
    ASSUME NEW s, NEW k, NEW e \in [Users -> Nat], NEW d \in [Users -> Nat], NEW id,
           \A u \in Users : d[u] <= e[u], Good(s, k, e, id)
    PROVE  Good(s, k, d, id)
<1>1. k \in ChannelRecords
  BY DEF Good
<1>2. DOMAIN k.members \subseteq Users /\ k.ts \in Nat
  BY <1>1, ChannelFacts
<1>3. Lawful(k, d)
  <2>1. ASSUME NEW u \in DOMAIN k.members, "o" \in k.members[u]
        PROVE  k.ts >= d[u]
    <3>1. k.ts >= e[u] /\ u \in Users
      BY <1>2, <2>1 DEF Good, Lawful
    <3>2. e[u] \in Nat /\ d[u] \in Nat /\ d[u] <= e[u]
      BY <3>1
    <3> QED BY <1>2, <3>1, <3>2
  <2> QED BY <2>1 DEF Lawful
<1> QED BY <1>3 DEF Good

(* remove_user_from_channel().                                              *)
LEMMA GoodRemove ==
    ASSUME NEW s, NEW k, NEW us, NEW e, NEW id, Good(s, k, e, id)
    PROVE  LET n == remove_users(k, us)
           IN  /\ Good(s, n, e, id)
               /\ Exists(n) => n.invites = k.invites /\ Exists(k)
               /\ ~ Exists(n) => n = NoChannel
<1> DEFINE n == remove_users(k, us)
<1>1. /\ n \in ChannelRecords
      /\ DOMAIN n.members = DOMAIN k.members \ us
      /\ \A v \in DOMAIN n.members : n.members[v] = k.members[v]
      /\ Exists(n) => n.ts = k.ts /\ n.list = k.list /\ n.invites = k.invites
      /\ ~ Exists(n) => n = NoChannel
  BY RemoveUsers DEF Good
<1> HIDE DEF n
<1>2. CASE ~ Exists(n)
  <2>1. n = NoChannel
    BY <1>1, <1>2
  <2>2. Good(s, n, e, id)
    BY <2>1, GoodNone
  <2> QED BY <1>2, <2>1, <2>2 DEF n
<1>3. CASE Exists(n)
  <2>1. Exists(k) /\ DOMAIN n.members \subseteq DOMAIN k.members
    BY <1>1, <1>3 DEF Exists
  <2>2. n.ts = k.ts /\ n.list = k.list /\ n.invites = k.invites
    BY <1>1, <1>3
  <2>3. Dated(n) /\ Lawful(n, e)
    BY <1>1, <1>3, <2>1, <2>2 DEF Good, Dated, Lawful
  <2>4. ASSUME NEW u \in DOMAIN n.members
        PROVE  CacheRight(s, n, id, u)
    <3>1. CacheRight(s, k, id, u) /\ n.members[u] = k.members[u]
      BY <1>1, <2>1 DEF Good, Fresh
    <3>2. is_banned(n, id[u]) <=> is_banned(k, id[u])
      BY <2>2 DEF is_banned
    <3> QED BY <3>1, <3>2 DEF CacheRight
  <2>5. Good(s, n, e, id)
    BY <1>1, <2>3, <2>4 DEF Good, Fresh
  <2> QED BY <1>3, <2>1, <2>2, <2>5 DEF n
<1> QED BY <1>2, <1>3

(* A user joins without status.                                             *)
LEMMA GoodAdd ==
    ASSUME NEW s, NEW k, NEW u \in Users, NEW e, NEW id, Good(s, k, e, id), Exists(k)
    PROVE  LET n == add_user_to_channel(k, u, {})
           IN  Good(s, n, e, id) /\ Exists(n) /\ n.invites = k.invites
<1> DEFINE n == add_user_to_channel(k, u, {})
<1>0. {} \in SUBSET MemberFlags
  OBVIOUS
<1>1. /\ n \in ChannelRecords
      /\ DOMAIN n.members = DOMAIN k.members \cup {u}
      /\ \A v \in DOMAIN n.members : n.members[v] = IF v = u THEN {} ELSE k.members[v]
      /\ n.ts = k.ts /\ n.list = k.list /\ n.invites = k.invites
  BY <1>0, AddUser DEF Good
<1> HIDE DEF n
<1>2. Exists(n)
  BY <1>1 DEF Exists
<1>3. Dated(n) /\ Lawful(n, e)
  BY <1>1, <1>2 DEF Good, Dated, Lawful
<1>4. ASSUME NEW v \in DOMAIN n.members
      PROVE  CacheRight(s, n, id, v)
  <2>1. CASE v = u
    BY <1>1, <2>1 DEF CacheRight
  <2>2. CASE v # u
    <3>1. CacheRight(s, k, id, v) /\ n.members[v] = k.members[v]
      BY <1>1, <2>2 DEF Good, Fresh
    <3>2. is_banned(n, id[v]) <=> is_banned(k, id[v])
      BY <1>1 DEF is_banned
    <3> QED BY <3>1, <3>2 DEF CacheRight
  <2> QED BY <2>1, <2>2
<1> QED BY <1>1, <1>2, <1>3, <1>4 DEF Good, Fresh, n

(* The timestamp of a merge.                                                *)
LEMMA MergedTS ==
    ASSUME NEW k \in ChannelRecords, NEW ts \in Nat, ts > 0, Dated(k)
    PROVE  /\ FinalTS(k, ts) \in Nat /\ FinalTS(k, ts) > 0
           /\ Exists(k) /\ KeepOurs(k, ts) => FinalTS(k, ts) = k.ts
           /\ KeepTheirs(k, ts) => FinalTS(k, ts) = ts
           /\ ~ Exists(k) => KeepOurs(k, ts) /\ FinalTS(k, ts) = ts
<1>1. k.ts \in Nat
  BY ChannelFacts
<1>2. CASE ~ Exists(k)
  BY <1>2 DEF FinalTS, KeepOurs
<1>3. CASE Exists(k)
  <2>1. k.ts > 0
    BY <1>3 DEF Dated
  <2>2. FinalTS(k, ts) = IF ts < k.ts THEN ts ELSE k.ts
    BY <1>1, <1>3, <2>1 DEF FinalTS
  <2>3. KeepOurs(k, ts) <=> ~ (ts < k.ts)
    BY <1>1, <1>3, <2>1 DEF KeepOurs
  <2>4. KeepTheirs(k, ts) <=> ~ (ts > k.ts)
    BY <1>1, <1>3, <2>1 DEF KeepTheirs
  <2> QED BY <1>1, <1>3, <2>1, <2>2, <2>3, <2>4
<1> QED BY <1>2, <1>3

(* ms_sjoin(): the merge and the nicks.  Whoever loses the TS loses its     *)
(* operators, and an operator that comes with the message has its status    *)
(* from the side that wins.                                                 *)
LEMMA GoodSjoin ==
    ASSUME NEW s, NEW k, NEW e \in [Users -> Nat], NEW id, Good(s, k, e, id),
           NEW new \in NewModes, new.ts > 0, NEW nicks \in Members,
           \A u \in DOMAIN nicks : nicks[u] \subseteq Status,
           \A u \in DOMAIN nicks : "o" \in nicks[u] => KeepTheirs(k, new.ts) /\ new.ts >= e[u]
    PROVE  LET c == sjoin_merge(k, new)
               n == sjoin_members(c, nicks)
           IN  /\ c \in ChannelRecords /\ c.ts > 0 /\ n.ts = c.ts
               /\ n \in ChannelRecords /\ n.invites = k.invites
               /\ DOMAIN n.members = DOMAIN k.members \cup DOMAIN nicks
               /\ KeepTheirs(k, new.ts) => c.ts = new.ts
               /\ Exists(n) => Good(s, n, e, id)
<1> DEFINE c == sjoin_merge(k, new)
           n == sjoin_members(c, nicks)
<1>0. k \in ChannelRecords /\ Dated(k) /\ new.ts \in Nat
  BY DEF Good, NewModes
<1>1. /\ c \in ChannelRecords
      /\ DOMAIN c.members = DOMAIN k.members
      /\ c.ts = FinalTS(k, new.ts) /\ c.invites = k.invites
      /\ KeepOurs(k, new.ts) => c.members = k.members /\ c.list = k.list
      /\ ~ KeepOurs(k, new.ts) =>
            \A v \in DOMAIN k.members : c.members[v] = (k.members[v] \ Status) \ BanCache
  BY <1>0, SjoinMerge
<1> HIDE DEF c
<1>2. /\ n \in ChannelRecords
      /\ DOMAIN n.members = DOMAIN c.members \cup DOMAIN nicks
      /\ \A v \in DOMAIN n.members :
            n.members[v] = IF v \in DOMAIN c.members THEN c.members[v] ELSE nicks[v]
      /\ n.ts = c.ts /\ n.list = c.list /\ n.invites = c.invites
  BY <1>1, SjoinMembers
<1> HIDE DEF n
<1>3. /\ FinalTS(k, new.ts) \in Nat /\ FinalTS(k, new.ts) > 0
      /\ Exists(k) /\ KeepOurs(k, new.ts) => FinalTS(k, new.ts) = k.ts
      /\ KeepTheirs(k, new.ts) => FinalTS(k, new.ts) = new.ts
      /\ ~ Exists(k) => KeepOurs(k, new.ts) /\ FinalTS(k, new.ts) = new.ts
  BY <1>0, MergedTS
<1>4. "o" \in Status /\ Status \cap BanCache = {}
  BY DEF Status, BanCache
<1>5. Lawful(n, e)
  <2>1. ASSUME NEW u \in DOMAIN n.members, "o" \in n.members[u]
        PROVE  n.ts >= e[u]
    <3>1. CASE u \in DOMAIN k.members
      <4>1. "o" \in c.members[u] /\ Exists(k)
        BY <1>1, <1>2, <2>1, <3>1 DEF Exists
      <4>2. KeepOurs(k, new.ts)
        BY <1>1, <1>4, <3>1, <4>1
      <4>3. "o" \in k.members[u] /\ n.ts = k.ts
        BY <1>1, <1>2, <1>3, <4>1, <4>2
      <4> QED BY <3>1, <4>3 DEF Good, Lawful
    <3>2. CASE u \notin DOMAIN k.members
      <4>1. u \in DOMAIN nicks /\ "o" \in nicks[u]
        BY <1>1, <1>2, <2>1, <3>2
      <4>2. KeepTheirs(k, new.ts) /\ new.ts >= e[u]
        BY <4>1
      <4> QED BY <1>1, <1>2, <1>3, <4>2
    <3> QED BY <3>1, <3>2
  <2> QED BY <2>1 DEF Lawful
<1>6. ASSUME NEW u \in DOMAIN n.members
      PROVE  CacheRight(s, n, id, u)
  <2>1. CASE u \in DOMAIN k.members /\ KeepOurs(k, new.ts)
    <3>1. n.members[u] = k.members[u] /\ n.list = k.list
      BY <1>1, <1>2, <2>1
    <3>2. is_banned(n, id[u]) <=> is_banned(k, id[u])
      BY <3>1 DEF is_banned
    <3>3. CacheRight(s, k, id, u)
      BY <2>1 DEF Good, Fresh
    <3> QED BY <3>1, <3>2, <3>3 DEF CacheRight
  <2>2. CASE u \in DOMAIN k.members /\ ~ KeepOurs(k, new.ts)
    <3>1. n.members[u] \cap BanCache = {}
      BY <1>1, <1>2, <2>2
    <3> QED BY <3>1 DEF CacheRight
  <2>3. CASE u \notin DOMAIN k.members
    <3>1. u \in DOMAIN nicks /\ n.members[u] = nicks[u]
      BY <1>1, <1>2, <2>3
    <3>2. n.members[u] \cap BanCache = {}
      BY <1>4, <3>1
    <3> QED BY <3>2 DEF CacheRight
  <2> QED BY <2>1, <2>2, <2>3
<1>7. Exists(n) => Good(s, n, e, id)
  <2>1. n.ts > 0
    BY <1>1, <1>2, <1>3
  <2> QED BY <1>2, <1>5, <1>6, <2>1 DEF Good, Dated, Fresh
<1> QED BY <1>1, <1>2, <1>3, <1>7 DEF c, n

(* ms_join(): the merge and the user, who gets no status.                   *)
LEMMA GoodJoin ==
    ASSUME NEW s, NEW k, NEW e \in [Users -> Nat], NEW id, Good(s, k, e, id),
           NEW ts \in Nat, ts > 0, NEW u \in Users
    PROVE  LET c == join_merge(k, ts)
               n == IF IsMember(k, u) THEN c ELSE add_user_to_channel(c, u, {})
           IN  Good(s, n, e, id) /\ Exists(n) /\ n.ts > 0 /\ n.invites = k.invites
<1> DEFINE c == join_merge(k, ts)
           n == IF IsMember(k, u) THEN c ELSE add_user_to_channel(c, u, {})
<1>0. k \in ChannelRecords /\ Dated(k) /\ {} \in SUBSET MemberFlags
  BY DEF Good
<1>1. /\ c \in ChannelRecords
      /\ DOMAIN c.members = DOMAIN k.members
      /\ c.ts = FinalTS(k, ts) /\ c.invites = k.invites /\ c.list = k.list
      /\ KeepOurs(k, ts) => c.members = k.members
      /\ ~ KeepOurs(k, ts) =>
            \A v \in DOMAIN k.members : c.members[v] = k.members[v] \ Status
  BY <1>0, JoinMerge
<1> HIDE DEF c
<1>2. /\ n \in ChannelRecords
      /\ DOMAIN n.members = DOMAIN c.members \cup {u}
      /\ \A v \in DOMAIN n.members :
            n.members[v] = IF v \in DOMAIN c.members THEN c.members[v] ELSE {}
      /\ n.ts = c.ts /\ n.list = c.list /\ n.invites = c.invites
  <2>1. CASE u \in DOMAIN k.members
    BY <1>1, <2>1 DEF IsMember
  <2>2. CASE u \notin DOMAIN k.members
    <3> DEFINE a == add_user_to_channel(c, u, {})
    <3>1. /\ a \in ChannelRecords
          /\ DOMAIN a.members = DOMAIN c.members \cup {u}
          /\ \A v \in DOMAIN a.members : a.members[v] = IF v = u THEN {} ELSE c.members[v]
          /\ a.ts = c.ts /\ a.list = c.list /\ a.invites = c.invites
      BY <1>0, <1>1, AddUser
    <3>2. n = a
      BY <2>2 DEF IsMember
    <3> HIDE DEF a, n
    <3>3. \A v \in DOMAIN n.members :
            n.members[v] = IF v \in DOMAIN c.members THEN c.members[v] ELSE {}
      BY <1>1, <2>2, <3>1, <3>2
    <3> QED BY <3>1, <3>2, <3>3
  <2> QED BY <2>1, <2>2
<1> HIDE DEF n
<1>3. /\ FinalTS(k, ts) \in Nat /\ FinalTS(k, ts) > 0
      /\ Exists(k) /\ KeepOurs(k, ts) => FinalTS(k, ts) = k.ts
  BY <1>0, MergedTS
<1>4. "o" \in Status /\ Status \cap BanCache = {}
  BY DEF Status, BanCache
<1>5. Lawful(n, e)
  <2>1. ASSUME NEW v \in DOMAIN n.members, "o" \in n.members[v]
        PROVE  n.ts >= e[v]
    <3>1. v \in DOMAIN k.members /\ "o" \in c.members[v] /\ Exists(k)
      BY <1>1, <1>2, <2>1 DEF Exists
    <3>2. KeepOurs(k, ts)
      BY <1>1, <1>4, <3>1
    <3>3. "o" \in k.members[v] /\ n.ts = k.ts
      BY <1>1, <1>2, <1>3, <3>1, <3>2
    <3> QED BY <3>1, <3>3 DEF Good, Lawful
  <2> QED BY <2>1 DEF Lawful
<1>6. ASSUME NEW v \in DOMAIN n.members
      PROVE  CacheRight(s, n, id, v)
  <2>1. CASE v \in DOMAIN k.members
    <3>1. n.members[v] \cap BanCache = k.members[v] \cap BanCache /\ n.list = k.list
      BY <1>1, <1>2, <1>4, <2>1
    <3>2. is_banned(n, id[v]) <=> is_banned(k, id[v])
      BY <3>1 DEF is_banned
    <3>3. CacheRight(s, k, id, v)
      BY <2>1 DEF Good, Fresh
    <3> QED BY <3>1, <3>2, <3>3 DEF CacheRight
  <2>2. CASE v \notin DOMAIN k.members
    BY <1>1, <1>2, <2>2 DEF CacheRight
  <2> QED BY <2>1, <2>2
<1>7. Exists(n) /\ n.ts > 0
  BY <1>1, <1>2, <1>3 DEF Exists
<1> QED BY <1>1, <1>2, <1>5, <1>6, <1>7 DEF Good, Dated, Fresh, n, c

(* A mode change: everybody whom it made operator, e knows of.              *)
LEMMA GoodModes ==
    ASSUME NEW s, NEW k, NEW n \in ChannelRecords, NEW e, NEW id, Good(s, k, e, id), Exists(k),
           SameRoom(k, n), CacheKept(k, n),
           \A u \in DOMAIN k.members : "o" \in n.members[u] => "o" \in k.members[u] \/ k.ts >= e[u]
    PROVE  Good(s, n, e, id) /\ Exists(n) /\ n.invites = k.invites
<1>1. Exists(n) /\ n.ts = k.ts /\ DOMAIN n.members = DOMAIN k.members /\ n.invites = k.invites
  BY DEF SameRoom, Exists
<1> QED BY <1>1, GoodNext

(* can_send(): what it caches for a client of this server is right.         *)
LEMMA GoodCanSend ==
    ASSUME NEW s, NEW k, NEW e, NEW id, Good(s, k, e, id), Exists(k),
           NEW u, Home[u] = s, NEW w, w.ident = id[u], NEW resv, NEW text
    PROVE  LET n == can_send(k, u, w, resv, text)
           IN  Good(s, n, e, id) /\ Exists(n) /\ n.invites = k.invites
<1> DEFINE n == can_send(k, u, w, resv, text)
<1>1. /\ n \in ChannelRecords
      /\ DOMAIN n.members = DOMAIN k.members
      /\ n.ts = k.ts /\ n.list = k.list /\ n.invites = k.invites
      /\ \A v \in DOMAIN k.members :
            \/ n.members[v] = k.members[v]
            \/ /\ v = u
               /\ k.members[v] \cap BanCache = {}
               /\ n.members[v] = k.members[v] \cup IF is_banned(k, w.ident)
                                                   THEN BanCache ELSE {"checked"}
  BY CanSend DEF Good
<1> HIDE DEF n
<1>2. "o" \notin BanCache /\ "checked" \in BanCache /\ "silenced" \in BanCache /\ "o" # "checked"
      /\ "checked" # "silenced"
  BY DEF BanCache
<1>3. Exists(n)
  BY <1>1 DEF Exists
<1>4. Lawful(n, e) /\ Dated(n)
  <2>1. ASSUME NEW v \in DOMAIN k.members, "o" \in n.members[v]
        PROVE  "o" \in k.members[v]
    BY <1>1, <1>2, <2>1
  <2> QED BY <1>1, <1>3, <2>1 DEF Good, Lawful, Dated
<1>5. ASSUME NEW v \in DOMAIN n.members
      PROVE  CacheRight(s, n, id, v)
  <2>1. is_banned(n, id[v]) <=> is_banned(k, id[v])
    BY <1>1 DEF is_banned
  <2>2. CASE n.members[v] = k.members[v]
    <3>1. CacheRight(s, k, id, v)
      BY <1>1 DEF Good, Fresh
    <3> QED BY <2>1, <2>2, <3>1 DEF CacheRight
  <2>3. CASE n.members[v] # k.members[v]
    <3>1. /\ v = u /\ k.members[v] \cap BanCache = {}
          /\ n.members[v] = k.members[v] \cup IF is_banned(k, w.ident) THEN BanCache ELSE {"checked"}
      BY <1>1, <2>3
    <3> DEFINE fl == n.members[v] \cap BanCache
    <3>2. fl = IF is_banned(k, id[v]) THEN BanCache ELSE {"checked"}
      BY <1>2, <3>1
    <3> HIDE DEF fl
    <3>3. "checked" \in fl /\ ("silenced" \in fl <=> is_banned(n, id[v])) /\ Home[v] = s
      BY <1>2, <2>1, <3>1, <3>2
    <3> QED BY <3>3 DEF CacheRight, fl
  <2> QED BY <2>2, <2>3
<1> QED BY <1>1, <1>3, <1>4, <1>5 DEF Good, Fresh, n

(* A user of server t becomes another one for ban masks: t drops what it    *)
(* cached of this user, the others cached nothing.                          *)
LEMMA GoodIdent ==
    ASSUME NEW s, NEW k, NEW e, NEW id, NEW new, Good(s, k, e, id), NEW u,
           \A v \in Users \ {u} : new[v] = id[v]
    PROVE  /\ LET n == clear_ban_cache_client(k, u)
              IN  /\ Good(s, n, e, new) /\ n.invites = k.invites
                  /\ Exists(n) <=> Exists(k)
           /\ Home[u] # s => Good(s, k, e, new)
<1> DEFINE n == clear_ban_cache_client(k, u)
<1>1. /\ n \in ChannelRecords
      /\ DOMAIN n.members = DOMAIN k.members
      /\ \A v \in DOMAIN k.members :
            n.members[v] = IF v = u THEN k.members[v] \ BanCache ELSE k.members[v]
      /\ n.ts = k.ts /\ n.list = k.list /\ n.invites = k.invites
  BY ClearClient DEF Good
<1>2. ~ Exists(k) => n = k
  BY DEF clear_ban_cache_client, IsMember, Exists
<1>3. DOMAIN k.members \subseteq Users
  BY ChannelFacts DEF Good
<1> HIDE DEF n
<1>4. Exists(n) <=> Exists(k)
  BY <1>1 DEF Exists
<1>5. Lawful(n, e) /\ Dated(n)
  <2>1. ASSUME NEW v \in DOMAIN k.members, "o" \in n.members[v]
        PROVE  "o" \in k.members[v]
    BY <1>1, <2>1
  <2> QED BY <1>1, <1>2, <1>4, <2>1 DEF Good, Lawful, Dated
<1>6. ASSUME NEW v \in DOMAIN n.members
      PROVE  CacheRight(s, n, new, v)
  <2>1. CASE v = u
    <3>1. n.members[v] \cap BanCache = {}
      BY <1>1, <2>1
    <3> QED BY <3>1 DEF CacheRight
  <2>2. CASE v # u
    <3>1. CacheRight(s, k, id, v) /\ n.members[v] = k.members[v] /\ new[v] = id[v]
      BY <1>1, <1>3, <2>2 DEF Good, Fresh
    <3>2. is_banned(n, new[v]) <=> is_banned(k, id[v])
      BY <1>1, <3>1 DEF is_banned
    <3> QED BY <3>1, <3>2 DEF CacheRight
  <2> QED BY <2>1, <2>2
<1>7. ASSUME Home[u] # s, NEW v \in DOMAIN k.members
      PROVE  CacheRight(s, k, new, v)
  <2>1. CacheRight(s, k, id, v)
    BY DEF Good, Fresh
  <2>2. CASE v = u
    BY <1>7, <2>1, <2>2 DEF CacheRight
  <2>3. CASE v # u
    <3>1. new[v] = id[v]
      BY <1>3, <2>3
    <3> QED BY <2>1, <3>1 DEF CacheRight
  <2> QED BY <2>2, <2>3
<1>8. Good(s, n, e, new) /\ n.invites = k.invites
  BY <1>1, <1>5, <1>6 DEF Good, Fresh
<1>9. Home[u] # s => Good(s, k, e, new)
  BY <1>7 DEF Good, Fresh
<1> QED BY <1>4, <1>8, <1>9 DEF n
-----------------------------------------------------------------------------
(* What a handler of server s may leave: S.chan are its channels, S.invited *)
(* the invitation lists of all users, kn the users it knows.                *)
Rooms == [chan : [Chans -> ChannelRecords], invited : [Users -> Seq(Chans)]]
Bounded(q) == IsInjective(q) /\ Len(q) <= MaxChannels
Matched(s, S) ==
    \A c \in Chans, u \in Users :
        Home[u] = s => (u \in S.chan[c].invites <=> c \in ToSet(S.invited[u]))
Guests(s, S, kn) ==
    \A c \in Chans : \A u \in S.chan[c].invites : Exists(S.chan[c]) /\ Home[u] = s /\ u \in kn
Sound(s, S, e, id, kn) ==
    /\ S \in Rooms
    /\ \A c \in Chans : Good(s, S.chan[c], e[c], id)
    /\ \A u \in Users : Bounded(S.invited[u])
    /\ Matched(s, S) /\ Guests(s, S, kn)
Others(s, S, T) == \A u \in Users : Home[u] # s => T.invited[u] = S.invited[u]

(* The fields.                                                              *)
LEMMA RoomFacts ==
    ASSUME NEW S \in Rooms
    PROVE  /\ S.chan \in [Chans -> ChannelRecords] /\ S.invited \in [Users -> Seq(Chans)]
           /\ S = [chan |-> S.chan, invited |-> S.invited]
BY DEF Rooms

(* A record with these fields.                                              *)
LEMMA MakeRooms ==
    ASSUME NEW ch \in [Chans -> ChannelRecords], NEW inv \in [Users -> Seq(Chans)]
    PROVE  LET S == [chan |-> ch, invited |-> inv]
           IN  S \in Rooms /\ S.chan = ch /\ S.invited = inv
BY DEF Rooms

(* One channel of S is replaced by k.                                       *)
LEMMA ReplaceChan ==
    ASSUME NEW S \in Rooms, NEW c, NEW k
    PROVE  [S EXCEPT !.chan[c] = k] = [chan |-> [S.chan EXCEPT ![c] = k], invited |-> S.invited]
BY DEF Rooms

(* One channel is replaced.                                                 *)
LEMMA SoundChan ==
    ASSUME NEW s, NEW S, NEW e, NEW id, NEW kn, Sound(s, S, e, id, kn), NEW c \in Chans, NEW k,
           Good(s, k, e[c], id), k.invites = S.chan[c].invites, Exists(k) \/ k.invites = {}
    PROVE  LET T == [S EXCEPT !.chan[c] = k]
           IN  /\ Sound(s, T, e, id, kn) /\ T.invited = S.invited
               /\ T.chan = [S.chan EXCEPT ![c] = k] /\ T.chan[c] = k
<1> DEFINE ch == [S.chan EXCEPT ![c] = k]
           T == [chan |-> ch, invited |-> S.invited]
<1>1. S \in Rooms /\ k \in ChannelRecords
  BY DEF Sound, Good
<1>2. S.chan \in [Chans -> ChannelRecords] /\ S.invited \in [Users -> Seq(Chans)]
      /\ S = [chan |-> S.chan, invited |-> S.invited]
  BY <1>1, RoomFacts
<1>3. [S EXCEPT !.chan[c] = k] = T
  BY <1>1, ReplaceChan
<1>4. /\ ch \in [Chans -> ChannelRecords] /\ ch[c] = k
      /\ \A d \in Chans : ch[d] = IF d = c THEN k ELSE S.chan[d]
  BY <1>1, <1>2
<1>6. ch = [S.chan EXCEPT ![c] = k]
  OBVIOUS
<1> HIDE DEF ch
<1>5. T \in Rooms /\ T.chan = ch /\ T.invited = S.invited
  BY <1>2, <1>4, MakeRooms
<1> HIDE DEF T
<1>7. \A d \in Chans : Good(s, T.chan[d], e[d], id)
  BY <1>4, <1>5 DEF Sound
<1>8. \A u \in Users : Bounded(T.invited[u])
  BY <1>5 DEF Sound
<1>9. Matched(s, T)
  BY <1>4, <1>5 DEF Sound, Matched
<1>10. Guests(s, T, kn)
  BY <1>4, <1>5 DEF Sound, Guests
<1> QED BY <1>3, <1>4, <1>5, <1>6, <1>7, <1>8, <1>9, <1>10 DEF Sound

(* Somebody earned status earlier than was known, or more users are known.  *)
LEMMA SoundMono ==
    ASSUME NEW s, NEW S, NEW e \in [Chans -> [Users -> Nat]], NEW d \in [Chans -> [Users -> Nat]],
           NEW id, NEW kn, \A c \in Chans, u \in Users : d[c][u] <= e[c][u],
           Sound(s, S, e, id, kn)
    PROVE  Sound(s, S, d, id, kn)
<1>1. ASSUME NEW c \in Chans
      PROVE  Good(s, S.chan[c], d[c], id)
  <2>1. e[c] \in [Users -> Nat] /\ d[c] \in [Users -> Nat] /\ \A u \in Users : d[c][u] <= e[c][u]
    OBVIOUS
  <2>2. Good(s, S.chan[c], e[c], id)
    BY DEF Sound
  <2> QED BY <2>1, <2>2, GoodMono
<1> QED BY <1>1 DEF Sound

(* A list without a channel.                                                *)
LEMMA WithoutFacts ==
    ASSUME NEW q \in Seq(Chans), NEW c \in Chans, Bounded(q)
    PROVE  /\ Without(q, c) \in Seq(Chans) /\ Bounded(Without(q, c))
           /\ ToSet(Without(q, c)) = ToSet(q) \ {c}
           /\ c \in ToSet(q) => Len(Without(q, c)) < Len(q)
           /\ Len(Without(q, c)) \in Nat /\ Len(Without(q, c)) <= Len(q)
<1> DEFINE T == Chans \ {c}
           r == Keep(q, T)
<1>1. Without(q, c) = r
  BY DEF Without
<1>2. r \in Seq(Chans) /\ ToSet(r) = ToSet(q) \cap T /\ (IsInjective(q) => IsInjective(r))
  BY KeepFacts
<1>3. /\ Len(r) \in Nat /\ Len(r) <= Len(q)
      /\ \A j \in DOMAIN q : q[j] \notin T => Len(r) < Len(q)
  BY KeepShortens
<1>4. ToSet(q) \subseteq Chans
  BY DEF ToSet
<1>5. ToSet(r) = ToSet(q) \ {c}
  BY <1>2, <1>4
<1>6. c \in ToSet(q) => Len(r) < Len(q)
  BY <1>3 DEF ToSet
<1> HIDE DEF r
<1>7. Len(q) \in Nat /\ MaxChannels \in Nat
  BY ChannelAssumption
<1>8. Bounded(r)
  BY <1>2, <1>3, <1>7 DEF Bounded
<1> QED BY <1>1, <1>2, <1>3, <1>5, <1>6, <1>8

(* del_invite(): the invitation goes from both lists.                       *)
LEMMA DelInvite ==
    ASSUME NEW s, NEW S, NEW e, NEW id, NEW kn, Sound(s, S, e, id, kn), NEW c \in Chans,
           NEW u \in Users, Home[u] = s
    PROVE  LET T == del_invite(S, c, u)
           IN  /\ Sound(s, T, e, id, kn) /\ Others(s, S, T)
               /\ \A d \in Chans : Exists(T.chan[d]) <=> Exists(S.chan[d])
               /\ T.invited[u] = Without(S.invited[u], c)
<1> DEFINE k == [S.chan[c] EXCEPT !.invites = S.chan[c].invites \ {u}]
           q == Without(S.invited[u], c)
           ch == [S.chan EXCEPT ![c] = k]
           inv == [S.invited EXCEPT ![u] = q]
           T == [chan |-> ch, invited |-> inv]
<1>1. S \in Rooms /\ Good(s, S.chan[c], e[c], id)
  BY DEF Sound
<1>2. S.chan \in [Chans -> ChannelRecords] /\ S.invited \in [Users -> Seq(Chans)]
      /\ S = [chan |-> S.chan, invited |-> S.invited]
  BY <1>1, RoomFacts
<1>3. del_invite(S, c, u) = T
  BY DEF del_invite
<1>4. S.chan[c] \in ChannelRecords /\ S.chan[c].invites \in SUBSET Users
  BY <1>2, ChannelFacts
<1>5. /\ k \in ChannelRecords /\ k.members = S.chan[c].members /\ k.ts = S.chan[c].ts
      /\ k.list = S.chan[c].list /\ k.invites = S.chan[c].invites \ {u}
  <2>1. S.chan[c].invites \ {u} \in SUBSET Users
    BY <1>4
  <2> DEFINE us == S.chan[c].invites \ {u}
  <2> HIDE DEF us
  <2>2. us \in SUBSET Users
    BY <2>1 DEF us
  <2>3. LET n == [S.chan[c] EXCEPT !.invites = us]
        IN  /\ n \in ChannelRecords /\ n.members = S.chan[c].members /\ n.ts = S.chan[c].ts
            /\ n.list = S.chan[c].list /\ n.invites = us
    BY <1>4, <2>2, WithInvites
  <2> QED BY <2>3 DEF us
<1>6. Good(s, k, e[c], id) /\ (Exists(k) <=> Exists(S.chan[c]))
  <2>1. CASE Exists(S.chan[c])
    <3>1. Good(s, k, e[c], id) /\ Exists(k)
      <4> HIDE DEF k
      <4> QED BY <1>1, <1>5, <2>1, GoodSame
    <3> QED BY <2>1, <3>1
  <2>2. CASE ~ Exists(S.chan[c])
    <3>1. S.chan[c] = NoChannel
      BY <1>1, <2>2 DEF Good, Dated
    <3>2. NoChannel.invites = {}
      BY NoChannelFacts
    <3>3. k = NoChannel
      <4>1. S.chan[c].invites \ {u} = S.chan[c].invites
        BY <3>1, <3>2
      <4> QED BY <1>4, <3>1, <4>1, SameInvites
    <3> QED BY <1>1, <3>1, <3>3
  <2> QED BY <2>1, <2>2
<1> HIDE DEF k
<1>7. /\ ch \in [Chans -> ChannelRecords]
      /\ \A d \in Chans : ch[d] = IF d = c THEN k ELSE S.chan[d]
  BY <1>2, <1>5
<1>8. /\ q \in Seq(Chans) /\ Bounded(q) /\ ToSet(q) = ToSet(S.invited[u]) \ {c}
  <2>1. S.invited[u] \in Seq(Chans) /\ Bounded(S.invited[u])
    BY <1>2 DEF Sound
  <2> QED BY <2>1, WithoutFacts
<1> HIDE DEF q, ch
<1>9. /\ inv \in [Users -> Seq(Chans)]
      /\ \A v \in Users : inv[v] = IF v = u THEN q ELSE S.invited[v]
  BY <1>2, <1>8
<1> HIDE DEF inv
<1>10. T \in Rooms /\ T.chan = ch /\ T.invited = inv
  BY <1>7, <1>9, MakeRooms
<1> HIDE DEF T
<1>11. \A d \in Chans : Good(s, T.chan[d], e[d], id)
  BY <1>6, <1>7, <1>10 DEF Sound
<1>12. \A v \in Users : Bounded(T.invited[v])
  BY <1>8, <1>9, <1>10 DEF Sound
<1>13. Matched(s, T)
  <2>1. ASSUME NEW d \in Chans, NEW v \in Users, Home[v] = s
        PROVE  v \in T.chan[d].invites <=> d \in ToSet(T.invited[v])
    <3>1. v \in S.chan[d].invites <=> d \in ToSet(S.invited[v])
      BY <2>1 DEF Sound, Matched
    <3>2. T.chan[d].invites = IF d = c THEN S.chan[c].invites \ {u} ELSE S.chan[d].invites
      BY <1>5, <1>7, <1>10
    <3>3. ToSet(T.invited[v]) = IF v = u THEN ToSet(S.invited[u]) \ {c} ELSE ToSet(S.invited[v])
      BY <1>8, <1>9, <1>10
    <3>4. CASE d # c /\ v # u
      BY <3>1, <3>2, <3>3, <3>4
    <3>5. CASE d = c /\ v # u
      BY <3>1, <3>2, <3>3, <3>5
    <3>6. CASE d # c /\ v = u
      BY <3>1, <3>2, <3>3, <3>6
    <3>7. CASE d = c /\ v = u
      BY <3>1, <3>2, <3>3, <3>7
    <3> QED BY <3>4, <3>5, <3>6, <3>7
  <2> QED BY <2>1 DEF Matched
<1>14. Guests(s, T, kn)
  <2>1. ASSUME NEW d \in Chans, NEW v \in T.chan[d].invites
        PROVE  Exists(T.chan[d]) /\ Home[v] = s /\ v \in kn
    <3>1. v \in S.chan[d].invites /\ (Exists(T.chan[d]) <=> Exists(S.chan[d]))
      BY <1>5, <1>6, <1>7, <1>10
    <3> QED BY <3>1 DEF Sound, Guests
  <2> QED BY <2>1 DEF Guests
<1>15. Sound(s, T, e, id, kn)
  BY <1>10, <1>11, <1>12, <1>13, <1>14 DEF Sound
<1>16. Others(s, S, T) /\ T.invited[u] = q
  BY <1>9, <1>10 DEF Others
<1>17. \A d \in Chans : Exists(T.chan[d]) <=> Exists(S.chan[d])
  BY <1>6, <1>7, <1>10
<1> QED BY <1>3, <1>15, <1>16, <1>17 DEF q

(* A good channel with fewer invitations.                                   *)
LEMMA GoodFewer ==
    ASSUME NEW s, NEW k, NEW e, NEW id, Good(s, k, e, id), NEW us \in SUBSET k.invites
    PROVE  LET n == [k EXCEPT !.invites = us]
           IN  n \in ChannelRecords /\ Good(s, n, e, id) /\ n.invites = us /\ (Exists(n) <=> Exists(k))
<1> DEFINE n == [k EXCEPT !.invites = us]
<1>1. k \in ChannelRecords /\ k.invites \in SUBSET Users
  BY ChannelFacts DEF Good
<1>2. us \in SUBSET Users
  BY <1>1
<1>3. /\ n \in ChannelRecords
      /\ n.members = k.members /\ n.ts = k.ts /\ n.list = k.list /\ n.invites = us
  BY <1>1, <1>2, WithInvites
<1>4. CASE Exists(k)
  <2> HIDE DEF n
  <2>1. Good(s, n, e, id) /\ Exists(n)
    BY <1>3, <1>4, GoodSame
  <2> QED BY <1>3, <1>4, <2>1 DEF n
<1>5. CASE ~ Exists(k)
  <2>1. k = NoChannel
    BY <1>5 DEF Good, Dated
  <2>2. k.invites = {}
    BY <2>1, NoChannelFacts
  <2>3. n = k
    BY <1>1, <2>2, SameInvites
  <2> QED BY <1>3, <2>3
<1> QED BY <1>4, <1>5

(* clear_invites(): no invitation to c is left, in no list.                 *)
LEMMA ClearInvites ==
    ASSUME NEW s, NEW S, NEW e, NEW id, NEW kn, Sound(s, S, e, id, kn), NEW c \in Chans
    PROVE  LET T == clear_invites(S, c)
           IN  /\ Sound(s, T, e, id, kn) /\ Others(s, S, T)
               /\ T.chan[c] = [S.chan[c] EXCEPT !.invites = {}] /\ T.chan[c].invites = {}
<1> DEFINE k == [S.chan[c] EXCEPT !.invites = {}]
           ch == [S.chan EXCEPT ![c] = k]
           inv == [u \in Users |-> IF u \in S.chan[c].invites
                                   THEN Without(S.invited[u], c) ELSE S.invited[u]]
           T == [chan |-> ch, invited |-> inv]
<1>1. S \in Rooms /\ Good(s, S.chan[c], e[c], id)
  BY DEF Sound
<1>2. S.chan \in [Chans -> ChannelRecords] /\ S.invited \in [Users -> Seq(Chans)]
  BY <1>1, RoomFacts
<1>3. clear_invites(S, c) = T
  BY DEF clear_invites
<1>4. k \in ChannelRecords /\ Good(s, k, e[c], id) /\ k.invites = {} /\ (Exists(k) <=> Exists(S.chan[c]))
  <2>1. {} \in SUBSET S.chan[c].invites
    OBVIOUS
  <2> QED BY <1>1, <2>1, GoodFewer
<1>5. k = [S.chan[c] EXCEPT !.invites = {}]
  OBVIOUS
<1> HIDE DEF k
<1>7. /\ ch \in [Chans -> ChannelRecords]
      /\ \A d \in Chans : ch[d] = IF d = c THEN k ELSE S.chan[d]
  BY <1>2, <1>4
<1> HIDE DEF ch
<1>8. ASSUME NEW u \in Users
      PROVE  /\ inv[u] \in Seq(Chans) /\ Bounded(inv[u])
             /\ ToSet(inv[u]) = IF u \in S.chan[c].invites THEN ToSet(S.invited[u]) \ {c}
                                ELSE ToSet(S.invited[u])
  <2>1. S.invited[u] \in Seq(Chans) /\ Bounded(S.invited[u])
    BY <1>2 DEF Sound
  <2> DEFINE q == Without(S.invited[u], c)
  <2>2. q \in Seq(Chans) /\ Bounded(q) /\ ToSet(q) = ToSet(S.invited[u]) \ {c}
    BY <2>1, WithoutFacts
  <2>3. inv[u] = IF u \in S.chan[c].invites THEN q ELSE S.invited[u]
    OBVIOUS
  <2> HIDE DEF q, inv
  <2> QED BY <2>1, <2>2, <2>3
<1>9. inv \in [Users -> Seq(Chans)] /\ \A u \in Users : u \notin S.chan[c].invites => inv[u] = S.invited[u]
  <2>1. \A u \in Users : inv[u] \in Seq(Chans)
    BY <1>8
  <2>2. inv = [u \in Users |-> inv[u]]
    OBVIOUS
  <2>3. \A u \in Users : u \notin S.chan[c].invites => inv[u] = S.invited[u]
    OBVIOUS
  <2> HIDE DEF inv
  <2>4. inv \in [Users -> Seq(Chans)]
    BY <2>1, <2>2
  <2> QED BY <2>3, <2>4
<1> HIDE DEF inv
<1>10. T \in Rooms /\ T.chan = ch /\ T.invited = inv
  BY <1>7, <1>9, MakeRooms
<1> HIDE DEF T
<1>11. \A d \in Chans : Good(s, T.chan[d], e[d], id)
  BY <1>4, <1>7, <1>10 DEF Sound
<1>12. \A v \in Users : Bounded(T.invited[v])
  BY <1>8, <1>10
<1>13. Matched(s, T)
  <2>1. ASSUME NEW d \in Chans, NEW v \in Users, Home[v] = s
        PROVE  v \in T.chan[d].invites <=> d \in ToSet(T.invited[v])
    <3>1. /\ v \in S.chan[d].invites <=> d \in ToSet(S.invited[v])
          /\ v \in S.chan[c].invites <=> c \in ToSet(S.invited[v])
      BY <2>1 DEF Sound, Matched
    <3>2. T.chan[d].invites = IF d = c THEN {} ELSE S.chan[d].invites
      BY <1>4, <1>7, <1>10
    <3>3. ToSet(T.invited[v]) = IF v \in S.chan[c].invites THEN ToSet(S.invited[v]) \ {c}
                                ELSE ToSet(S.invited[v])
      BY <1>8, <1>10
    <3>4. CASE d = c
      BY <3>1, <3>2, <3>3, <3>4
    <3>5. CASE d # c
      BY <3>1, <3>2, <3>3, <3>5
    <3> QED BY <3>4, <3>5
  <2> QED BY <2>1 DEF Matched
<1>14. Guests(s, T, kn)
  <2>1. ASSUME NEW d \in Chans, NEW v \in T.chan[d].invites
        PROVE  Exists(T.chan[d]) /\ Home[v] = s /\ v \in kn
    <3>1. v \in S.chan[d].invites /\ T.chan[d] = S.chan[d]
      BY <1>4, <1>7, <1>10
    <3> QED BY <3>1 DEF Sound, Guests
  <2> QED BY <2>1 DEF Guests
<1>15. Sound(s, T, e, id, kn)
  BY <1>10, <1>11, <1>12, <1>13, <1>14 DEF Sound
<1>16. Others(s, S, T)
  <2>1. ASSUME NEW u \in Users, Home[u] # s
        PROVE  T.invited[u] = S.invited[u]
    <3>1. u \notin S.chan[c].invites
      BY <2>1 DEF Sound, Guests
    <3> QED BY <1>9, <1>10, <3>1
  <2> QED BY <2>1 DEF Others
<1>17. T.chan[c] = k
  BY <1>7, <1>10
<1> QED BY <1>3, <1>4, <1>5, <1>15, <1>16, <1>17

(* remove_user_from_channel(), with the end of a channel nobody is on.      *)
LEMMA LeaveChannel ==
    ASSUME NEW s, NEW S, NEW e, NEW id, NEW kn, Sound(s, S, e, id, kn), NEW c \in Chans, NEW us
    PROVE  LET T == leave_channel(S, c, us)
           IN  Sound(s, T, e, id, kn) /\ Others(s, S, T)
<1> DEFINE k == remove_users(S.chan[c], us)
           V == clear_invites(S, c)
           n == IF Exists(k) THEN k ELSE NoChannel
           T == IF Exists(k) \/ ~ Exists(S.chan[c]) THEN S ELSE V
<1>1. Good(s, S.chan[c], e[c], id)
  BY DEF Sound
<1>2. /\ Good(s, k, e[c], id)
      /\ Exists(k) => k.invites = S.chan[c].invites /\ Exists(S.chan[c])
      /\ ~ Exists(k) => k = NoChannel
  BY <1>1, GoodRemove
<1>3. leave_channel(S, c, us) = [T EXCEPT !.chan[c] = n]
  BY DEF leave_channel
<1>4. Sound(s, V, e, id, kn) /\ Others(s, S, V) /\ V.chan[c].invites = {}
  BY ClearInvites
<1> HIDE DEF V, k
<1>5. Good(s, n, e[c], id) /\ NoChannel.invites = {}
  BY <1>2, NoChannelFacts
<1>6. ~ Exists(S.chan[c]) => S.chan[c] = NoChannel
  BY <1>1 DEF Good, Dated
<1>7. n.invites = T.chan[c].invites /\ (Exists(n) \/ n.invites = {})
  BY <1>2, <1>4, <1>5, <1>6
<1>8. Sound(s, T, e, id, kn) /\ Others(s, S, T)
  BY <1>4 DEF Others
<1> HIDE DEF T, n
<1>9. LET W == [T EXCEPT !.chan[c] = n]
      IN  Sound(s, W, e, id, kn) /\ W.invited = T.invited
  BY <1>5, <1>7, <1>8, SoundChan
<1>10. LET W == [T EXCEPT !.chan[c] = n] IN Others(s, S, W)
  BY <1>8, <1>9 DEF Others
<1> QED BY <1>3, <1>9, <1>10

(* An invitation is added to a list with room for it.                       *)
LEMMA NewInvite ==
    ASSUME NEW s, NEW S, NEW e, NEW id, NEW kn, Sound(s, S, e, id, kn), NEW c \in Chans,
           NEW u \in Users, Home[u] = s, u \in kn, Exists(S.chan[c]),
           c \notin ToSet(S.invited[u]), Len(S.invited[u]) < MaxChannels
    PROVE  LET T == [chan |-> [S.chan EXCEPT ![c].invites = @ \cup {u}],
                     invited |-> [S.invited EXCEPT ![u] = <<c>> \o @]]
           IN  Sound(s, T, e, id, kn) /\ Others(s, S, T)
<1> DEFINE us == S.chan[c].invites \cup {u}
           k == [S.chan[c] EXCEPT !.invites = us]
           q == <<c>> \o S.invited[u]
           ch == [S.chan EXCEPT ![c] = k]
           inv == [S.invited EXCEPT ![u] = q]
           T == [chan |-> ch, invited |-> inv]
<1>1. S \in Rooms /\ Good(s, S.chan[c], e[c], id)
  BY DEF Sound
<1>2. S.chan \in [Chans -> ChannelRecords] /\ S.invited \in [Users -> Seq(Chans)]
  BY <1>1, RoomFacts
<1>3. [chan |-> [S.chan EXCEPT ![c].invites = @ \cup {u}],
       invited |-> [S.invited EXCEPT ![u] = <<c>> \o @]] = T
  OBVIOUS
<1>4. S.chan[c] \in ChannelRecords /\ us \in SUBSET Users
  BY <1>2, ChannelFacts
<1>5. us = S.chan[c].invites \cup {u}
  OBVIOUS
<1> HIDE DEF us
<1>6. /\ k \in ChannelRecords /\ k.members = S.chan[c].members /\ k.ts = S.chan[c].ts
      /\ k.list = S.chan[c].list /\ k.invites = us
  BY <1>4, WithInvites
<1> HIDE DEF k
<1>7. Good(s, k, e[c], id) /\ Exists(k)
  BY <1>1, <1>6, GoodSame
<1>8. /\ ch \in [Chans -> ChannelRecords]
      /\ \A d \in Chans : ch[d] = IF d = c THEN k ELSE S.chan[d]
  BY <1>2, <1>6
<1> HIDE DEF ch
<1>9. q \in Seq(Chans) /\ ToSet(q) = ToSet(S.invited[u]) \cup {c} /\ Bounded(q)
  <2>1. S.invited[u] \in Seq(Chans) /\ IsInjective(S.invited[u])
    BY <1>2 DEF Sound, Bounded
  <2>2. q \in Seq(Chans) /\ ToSet(q) = ToSet(S.invited[u]) \cup {c} /\ IsInjective(q)
    BY <2>1, PushFacts
  <2>3. Len(q) = Len(S.invited[u]) + 1 /\ Len(S.invited[u]) \in Nat
    BY <2>1
  <2>4. MaxChannels \in Nat
    BY ChannelAssumption
  <2> HIDE DEF q
  <2>5. Len(q) <= MaxChannels
    BY <2>3, <2>4
  <2> QED BY <2>2, <2>5 DEF Bounded
<1> HIDE DEF q
<1>10. /\ inv \in [Users -> Seq(Chans)]
       /\ \A v \in Users : inv[v] = IF v = u THEN q ELSE S.invited[v]
  BY <1>2, <1>9
<1> HIDE DEF inv
<1>11. T \in Rooms /\ T.chan = ch /\ T.invited = inv
  BY <1>8, <1>10, MakeRooms
<1> HIDE DEF T
<1>12. \A d \in Chans : Good(s, T.chan[d], e[d], id)
  BY <1>7, <1>8, <1>11 DEF Sound
<1>13. \A v \in Users : Bounded(T.invited[v])
  BY <1>9, <1>10, <1>11 DEF Sound
<1>14. Matched(s, T)
  <2>1. ASSUME NEW d \in Chans, NEW v \in Users, Home[v] = s
        PROVE  v \in T.chan[d].invites <=> d \in ToSet(T.invited[v])
    <3>1. v \in S.chan[d].invites <=> d \in ToSet(S.invited[v])
      BY <2>1 DEF Sound, Matched
    <3>2. T.chan[d].invites = IF d = c THEN S.chan[c].invites \cup {u} ELSE S.chan[d].invites
      BY <1>5, <1>6, <1>8, <1>11
    <3>3. ToSet(T.invited[v]) = IF v = u THEN ToSet(S.invited[u]) \cup {c} ELSE ToSet(S.invited[v])
      BY <1>9, <1>10, <1>11
    <3>4. CASE d # c /\ v # u
      BY <3>1, <3>2, <3>3, <3>4
    <3>5. CASE d = c /\ v # u
      BY <3>1, <3>2, <3>3, <3>5
    <3>6. CASE d # c /\ v = u
      BY <3>1, <3>2, <3>3, <3>6
    <3>7. CASE d = c /\ v = u
      BY <3>1, <3>2, <3>3, <3>7
    <3> QED BY <3>4, <3>5, <3>6, <3>7
  <2> QED BY <2>1 DEF Matched
<1>15. Guests(s, T, kn)
  <2>1. ASSUME NEW d \in Chans, NEW v \in T.chan[d].invites
        PROVE  Exists(T.chan[d]) /\ Home[v] = s /\ v \in kn
    <3>1. CASE d = c /\ v = u
      BY <1>7, <1>8, <1>11, <3>1
    <3>2. CASE ~ (d = c /\ v = u)
      <4>1. v \in S.chan[d].invites /\ (Exists(S.chan[d]) => Exists(T.chan[d]))
        BY <1>5, <1>6, <1>7, <1>8, <1>11, <3>2
      <4> QED BY <4>1 DEF Sound, Guests
    <3> QED BY <3>1, <3>2
  <2> QED BY <2>1 DEF Guests
<1>16. Sound(s, T, e, id, kn)
  BY <1>11, <1>12, <1>13, <1>14, <1>15 DEF Sound
<1>17. Others(s, S, T)
  BY <1>10, <1>11 DEF Others
<1> QED BY <1>3, <1>16, <1>17

(* add_invite(): the oldest invitation makes room for the new one.          *)
LEMMA AddInvite ==
    ASSUME NEW s, NEW S, NEW e, NEW id, NEW kn, Sound(s, S, e, id, kn), NEW c \in Chans,
           NEW u \in Users, Home[u] = s, u \in kn, Exists(S.chan[c])
    PROVE  LET T == add_invite(S, c, u)
           IN  Sound(s, T, e, id, kn) /\ Others(s, S, T)
<1> DEFINE T == del_invite(S, c, u)
           d == Last(T.invited[u])
           V == IF Len(T.invited[u]) >= MaxChannels THEN del_invite(T, d, u) ELSE T
           W == [chan |-> [V.chan EXCEPT ![c].invites = @ \cup {u}],
                 invited |-> [V.invited EXCEPT ![u] = <<c>> \o @]]
<1>1. add_invite(S, c, u) = W
  BY DEF add_invite
<1>2. S.invited[u] \in Seq(Chans) /\ Bounded(S.invited[u])
  BY RoomFacts DEF Sound
<1>3. /\ Sound(s, T, e, id, kn) /\ Others(s, S, T)
      /\ \A x \in Chans : Exists(T.chan[x]) <=> Exists(S.chan[x])
      /\ T.invited[u] = Without(S.invited[u], c)
  BY DelInvite
<1> HIDE DEF T
<1>4. T.invited[u] \in Seq(Chans) /\ Bounded(T.invited[u]) /\ c \notin ToSet(T.invited[u])
  BY <1>2, <1>3, WithoutFacts
<1>5. MaxChannels \in Nat \ {0} /\ Len(T.invited[u]) \in Nat /\ Len(T.invited[u]) <= MaxChannels
  BY <1>4, ChannelAssumption DEF Bounded
<1>6. /\ Sound(s, V, e, id, kn) /\ Others(s, S, V) /\ Exists(V.chan[c])
      /\ c \notin ToSet(V.invited[u]) /\ Len(V.invited[u]) < MaxChannels
  <2>1. CASE Len(T.invited[u]) >= MaxChannels
    <3>1. d \in Chans /\ d \in ToSet(T.invited[u])
      <4>1. d = T.invited[u][Len(T.invited[u])]
        BY DEF Last
      <4>2. Len(T.invited[u]) \in DOMAIN T.invited[u]
        BY <1>4, <1>5, <2>1
      <4> QED BY <1>4, <4>1, <4>2 DEF ToSet
    <3> HIDE DEF d
    <3> DEFINE X == del_invite(T, d, u)
    <3>2. /\ Sound(s, X, e, id, kn) /\ Others(s, T, X)
          /\ \A x \in Chans : Exists(X.chan[x]) <=> Exists(T.chan[x])
          /\ X.invited[u] = Without(T.invited[u], d)
      BY <1>3, <3>1, DelInvite
    <3> HIDE DEF X
    <3>3. /\ ToSet(X.invited[u]) = ToSet(T.invited[u]) \ {d}
          /\ Len(X.invited[u]) \in Nat /\ Len(X.invited[u]) < Len(T.invited[u])
      BY <1>4, <3>1, <3>2, WithoutFacts
    <3>4. V = X
      BY <2>1 DEF X
    <3>5. Len(X.invited[u]) < MaxChannels
      BY <1>5, <3>3
    <3>6. Others(s, S, X)
      BY <1>3, <3>2 DEF Others
    <3>7. Exists(X.chan[c]) /\ c \notin ToSet(X.invited[u])
      BY <1>3, <1>4, <3>2, <3>3
    <3> QED BY <3>2, <3>4, <3>5, <3>6, <3>7
  <2>2. CASE ~ (Len(T.invited[u]) >= MaxChannels)
    <3>1. V = T /\ Len(T.invited[u]) < MaxChannels
      BY <1>5, <2>2
    <3>2. Exists(T.chan[c])
      BY <1>3
    <3> HIDE DEF V
    <3> QED BY <1>3, <1>4, <3>1, <3>2
  <2> QED BY <2>1, <2>2
<1> HIDE DEF V
<1>7. Sound(s, W, e, id, kn) /\ Others(s, V, W)
  BY <1>6, NewInvite
<1> HIDE DEF W
<1>8. Others(s, S, W)
  BY <1>6, <1>7 DEF Others
<1> QED BY <1>1, <1>7, <1>8

(* A list without some channels.                                            *)
LEMMA KeepBounded ==
    ASSUME NEW q \in Seq(Chans), Bounded(q), NEW T
    PROVE  /\ Keep(q, Chans \ T) \in Seq(Chans) /\ Bounded(Keep(q, Chans \ T))
           /\ ToSet(Keep(q, Chans \ T)) = ToSet(q) \ T
<1> DEFINE r == Keep(q, Chans \ T)
<1>1. r \in Seq(Chans) /\ ToSet(r) = ToSet(q) \cap (Chans \ T) /\ (IsInjective(q) => IsInjective(r))
  BY KeepFacts
<1>2. Len(r) \in Nat /\ Len(r) <= Len(q)
  BY KeepShortens
<1>3. ToSet(q) \subseteq Chans
  BY DEF ToSet
<1> HIDE DEF r
<1>4. Len(q) \in Nat /\ MaxChannels \in Nat
  BY ChannelAssumption
<1>5. Bounded(r)
  BY <1>1, <1>2, <1>4 DEF Bounded
<1> QED BY <1>1, <1>3, <1>5 DEF r

(* Users leave every channel.                                               *)
LEMMA LeaveChannels ==
    ASSUME NEW s, NEW S, NEW e, NEW id, NEW kn, Sound(s, S, e, id, kn), NEW us
    PROVE  LET T == leave_channels(S, us)
           IN  Sound(s, T, e, id, kn) /\ Others(s, S, T)
<1> DEFINE left == [c \in Chans |-> remove_users(S.chan[c], us)]
           lost(u) == {c \in Chans : ~ Exists(left[c]) /\ u \in S.chan[c].invites}
           inv == [u \in Users |-> Keep(S.invited[u], Chans \ lost(u))]
           T == [chan |-> left, invited |-> inv]
<1>1. leave_channels(S, us) = T
  BY DEF leave_channels
<1>2. S \in Rooms /\ \A c \in Chans : Good(s, S.chan[c], e[c], id)
  BY DEF Sound
<1>3. S.chan \in [Chans -> ChannelRecords] /\ S.invited \in [Users -> Seq(Chans)]
  BY <1>2, RoomFacts
<1>4. ASSUME NEW c \in Chans
      PROVE  /\ Good(s, left[c], e[c], id) /\ left[c] \in ChannelRecords
             /\ left[c].invites = IF Exists(left[c]) THEN S.chan[c].invites ELSE {}
  <2> DEFINE n == remove_users(S.chan[c], us)
  <2>1. left[c] = n
    OBVIOUS
  <2>2. /\ Good(s, n, e[c], id)
        /\ Exists(n) => n.invites = S.chan[c].invites /\ Exists(S.chan[c])
        /\ ~ Exists(n) => n = NoChannel
    BY <1>2, GoodRemove
  <2> HIDE DEF n, left
  <2>3. n \in ChannelRecords /\ NoChannel.invites = {}
    BY <2>2, NoChannelFacts DEF Good
  <2> QED BY <2>1, <2>2, <2>3
<1>5. left \in [Chans -> ChannelRecords]
  <2>1. left = [c \in Chans |-> left[c]]
    OBVIOUS
  <2> HIDE DEF left
  <2> QED BY <1>4, <2>1
<1> HIDE DEF left
<1>6. ASSUME NEW u \in Users
      PROVE  inv[u] \in Seq(Chans) /\ Bounded(inv[u]) /\ ToSet(inv[u]) = ToSet(S.invited[u]) \ lost(u)
  <2>1. S.invited[u] \in Seq(Chans) /\ Bounded(S.invited[u])
    BY <1>3 DEF Sound
  <2>2. inv[u] = Keep(S.invited[u], Chans \ lost(u))
    OBVIOUS
  <2> DEFINE gone == lost(u)
             r == Keep(S.invited[u], Chans \ gone)
  <2> HIDE DEF gone, inv, lost
  <2>3. r \in Seq(Chans) /\ Bounded(r) /\ ToSet(r) = ToSet(S.invited[u]) \ gone
    BY <2>1, KeepBounded
  <2>4. inv[u] = r
    BY <2>2 DEF gone
  <2> HIDE DEF r
  <2> QED BY <2>3, <2>4 DEF gone
<1>7. ASSUME NEW u \in Users, Home[u] # s
      PROVE  inv[u] = S.invited[u]
  <2>1. lost(u) = {}
    BY <1>7 DEF Sound, Guests
  <2>2. inv[u] = Keep(S.invited[u], Chans \ lost(u))
    OBVIOUS
  <2>3. Chans \subseteq Chans \ lost(u)
    BY <2>1
  <2>4. S.invited[u] \in Seq(Chans)
    BY <1>3
  <2> HIDE DEF inv, lost
  <2> QED BY <2>2, <2>3, <2>4, KeepAll
<1>8. inv \in [Users -> Seq(Chans)]
  <2>1. inv = [u \in Users |-> inv[u]]
    OBVIOUS
  <2> HIDE DEF inv
  <2> QED BY <1>6, <2>1
<1> HIDE DEF inv
<1>9. T \in Rooms /\ T.chan = left /\ T.invited = inv
  BY <1>5, <1>8, MakeRooms
<1> HIDE DEF T
<1>10. Matched(s, T)
  <2>1. ASSUME NEW c \in Chans, NEW u \in Users, Home[u] = s
        PROVE  u \in T.chan[c].invites <=> c \in ToSet(T.invited[u])
    <3>1. u \in S.chan[c].invites <=> c \in ToSet(S.invited[u])
      BY <2>1 DEF Sound, Matched
    <3>2. c \in lost(u) <=> ~ Exists(left[c]) /\ u \in S.chan[c].invites
      OBVIOUS
    <3>3. u \in left[c].invites <=> Exists(left[c]) /\ u \in S.chan[c].invites
      BY <1>4
    <3>4. c \in ToSet(inv[u]) <=> c \in ToSet(S.invited[u]) /\ c \notin lost(u)
      <4> HIDE DEF lost
      <4> QED BY <1>6
    <3> HIDE DEF lost
    <3> QED BY <1>9, <3>1, <3>2, <3>3, <3>4
  <2> QED BY <2>1 DEF Matched
<1>11. Guests(s, T, kn)
  <2>1. ASSUME NEW c \in Chans, NEW u \in T.chan[c].invites
        PROVE  Exists(T.chan[c]) /\ Home[u] = s /\ u \in kn
    <3>1. Exists(left[c]) /\ u \in S.chan[c].invites
      BY <1>4, <1>9, <2>1
    <3> QED BY <1>9, <3>1 DEF Sound, Guests
  <2> QED BY <2>1 DEF Guests
<1>12. (\A c \in Chans : Good(s, T.chan[c], e[c], id)) /\ \A u \in Users : Bounded(T.invited[u])
  BY <1>4, <1>6, <1>9
<1>13. Others(s, S, T)
  BY <1>7, <1>9 DEF Others
<1>14. Sound(s, T, e, id, kn)
  BY <1>9, <1>10, <1>11, <1>12 DEF Sound
<1> QED BY <1>1, <1>13, <1>14

(* exit_one_client() of the users us.                                       *)
LEMMA ForgetUsers ==
    ASSUME NEW s, NEW S, NEW e, NEW id, NEW kn, Sound(s, S, e, id, kn), NEW us
    PROVE  LET T == forget_users(s, S, us)
           IN  Sound(s, T, e, id, kn \ us) /\ Others(s, S, T)
<1> DEFINE T == leave_channels(S, us)
           mine == {u \in us : MyConnect(s, u)}
           invites(c) == T.chan[c].invites \ {u \in mine : c \in ToSet(T.invited[u])}
           ch == [c \in Chans |-> [T.chan[c] EXCEPT !.invites = invites(c)]]
           inv == [u \in Users |-> IF u \in mine THEN <<>> ELSE T.invited[u]]
           V == [chan |-> ch, invited |-> inv]
<1>1. forget_users(s, S, us) = V
  BY DEF forget_users
<1>2. Sound(s, T, e, id, kn) /\ Others(s, S, T)
  BY LeaveChannels
<1> HIDE DEF T
<1>3. T.chan \in [Chans -> ChannelRecords] /\ T.invited \in [Users -> Seq(Chans)]
  BY <1>2, RoomFacts DEF Sound
<1>4. \A u : u \in mine <=> u \in us /\ Home[u] = s
  BY DEF MyConnect
<1>5. ASSUME NEW c \in Chans
      PROVE  /\ invites(c) \in SUBSET T.chan[c].invites
             /\ \A u \in Users : u \in invites(c) <=> u \in T.chan[c].invites /\ u \notin us
  <2>1. T.chan[c].invites \in SUBSET Users
    BY <1>3, ChannelFacts
  <2>2. \A u \in T.chan[c].invites : Home[u] = s
    BY <1>2 DEF Sound, Guests
  <2>3. \A u \in Users : Home[u] = s => (u \in T.chan[c].invites <=> c \in ToSet(T.invited[u]))
    BY <1>2 DEF Sound, Matched
  <2>4. \A u : u \in invites(c) <=> u \in T.chan[c].invites /\ ~ (u \in mine /\ c \in ToSet(T.invited[u]))
    OBVIOUS
  <2> HIDE DEF invites, mine
  <2> QED BY <1>4, <2>1, <2>2, <2>3, <2>4
<1>6. ASSUME NEW c \in Chans
      PROVE  /\ ch[c] \in ChannelRecords /\ Good(s, ch[c], e[c], id) /\ ch[c].invites = invites(c)
             /\ Exists(ch[c]) <=> Exists(T.chan[c])
  <2>1. ch[c] = [T.chan[c] EXCEPT !.invites = invites(c)]
    OBVIOUS
  <2>2. Good(s, T.chan[c], e[c], id)
    BY <1>2 DEF Sound
  <2>3. invites(c) \in SUBSET T.chan[c].invites
    BY <1>5
  <2> HIDE DEF ch, invites
  <2> QED BY <2>1, <2>2, <2>3, GoodFewer
<1>7. ch \in [Chans -> ChannelRecords]
  <2>1. ch = [c \in Chans |-> ch[c]]
    OBVIOUS
  <2> HIDE DEF ch
  <2> QED BY <1>6, <2>1
<1> HIDE DEF ch
<1>8. ASSUME NEW u \in Users
      PROVE  /\ inv[u] \in Seq(Chans) /\ Bounded(inv[u])
             /\ ToSet(inv[u]) = IF u \in mine THEN {} ELSE ToSet(T.invited[u])
  <2>1. T.invited[u] \in Seq(Chans) /\ Bounded(T.invited[u])
    BY <1>2, <1>3 DEF Sound
  <2>2. inv[u] = IF u \in mine THEN <<>> ELSE T.invited[u]
    OBVIOUS
  <2>3. <<>> \in Seq(Chans) /\ ToSet(<<>>) = {} /\ IsInjective(<<>>) /\ Len(<<>>) = 0
    BY DEF ToSet, IsInjective
  <2>4. 0 <= MaxChannels
    BY ChannelAssumption
  <2>5. Bounded(<<>>)
    BY <2>3, <2>4 DEF Bounded
  <2> HIDE DEF inv, mine
  <2> QED BY <2>1, <2>2, <2>3, <2>5
<1>9. inv \in [Users -> Seq(Chans)] /\ \A u \in Users : u \notin mine => inv[u] = T.invited[u]
  <2>1. inv = [u \in Users |-> inv[u]] /\ \A u \in Users : u \notin mine => inv[u] = T.invited[u]
    OBVIOUS
  <2> HIDE DEF inv, mine
  <2> QED BY <1>8, <2>1
<1> HIDE DEF inv
<1>10. V \in Rooms /\ V.chan = ch /\ V.invited = inv
  BY <1>7, <1>9, MakeRooms
<1> HIDE DEF V, invites, mine
<1>11. Matched(s, V)
  <2>1. ASSUME NEW c \in Chans, NEW u \in Users, Home[u] = s
        PROVE  u \in V.chan[c].invites <=> c \in ToSet(V.invited[u])
    <3>1. u \in T.chan[c].invites <=> c \in ToSet(T.invited[u])
      BY <1>2, <2>1 DEF Sound, Matched
    <3>2. u \in V.chan[c].invites <=> u \in T.chan[c].invites /\ u \notin us
      BY <1>5, <1>6, <1>10
    <3>3. c \in ToSet(V.invited[u]) <=> c \in ToSet(T.invited[u]) /\ u \notin us
      BY <1>4, <1>8, <1>10, <2>1
    <3> QED BY <3>1, <3>2, <3>3
  <2> QED BY <2>1 DEF Matched
<1>12. Guests(s, V, kn \ us)
  <2>1. ASSUME NEW c \in Chans, NEW u \in V.chan[c].invites
        PROVE  Exists(V.chan[c]) /\ Home[u] = s /\ u \in kn \ us
    <3>1. u \in invites(c) /\ invites(c) \in SUBSET T.chan[c].invites
      BY <1>5, <1>6, <1>10, <2>1
    <3>2. u \in T.chan[c].invites /\ u \in Users
      BY <1>3, <3>1, ChannelFacts
    <3>3. u \notin us
      BY <1>5, <3>1, <3>2
    <3> QED BY <1>2, <1>6, <1>10, <3>2, <3>3 DEF Sound, Guests
  <2> QED BY <2>1 DEF Guests
<1>13. (\A c \in Chans : Good(s, V.chan[c], e[c], id)) /\ \A u \in Users : Bounded(V.invited[u])
  BY <1>6, <1>8, <1>10
<1>14. Others(s, S, V)
  <2>1. ASSUME NEW u \in Users, Home[u] # s
        PROVE  V.invited[u] = S.invited[u]
    BY <1>2, <1>4, <1>9, <1>10, <2>1 DEF Others
  <2> QED BY <2>1 DEF Others
<1>15. Sound(s, V, e, id, kn \ us)
  BY <1>10, <1>11, <1>12, <1>13 DEF Sound
<1> QED BY <1>1, <1>14, <1>15
-----------------------------------------------------------------------------
(* What may be on its way, when e[c][u] is the oldest TS under which u was  *)
(* made operator of c.  A message that makes somebody operator has a TS at  *)
(* which that was earned.                                                   *)
Burst == [zero : BOOLEAN, mode : SUBSET ChanModes, limit : Int, key : Args]
ServerMsgs == [kind : {"SERVER"}, servers : SUBSET Servers, users : SUBSET Users]
SquitMsgs == [kind : {"SQUIT"}, servers : SUBSET Servers]
QuitMsgs == [kind : {"QUIT"}, user : Users]
Backed(ts, nicks, e) ==
    \A u \in DOMAIN nicks : nicks[u] \subseteq Status /\ ("o" \in nicks[u] => ts >= e[u])
SjoinMsgs(e) ==
    {m \in [kind : {"SJOIN"}, chan : Chans, ts : Nat, modes : Burst, nicks : Members] :
        m.ts > 0 /\ Backed(m.ts, m.nicks, e[m.chan])}
JoinMsgs == [kind : {"JOIN"}, user : Users, chan : Chans, ts : Nat \ {0}]
LeaveMsgs == [kind : {"PART", "KICK"}, user : Users, chan : Chans]
Earns(ts, line, e) == \A u \in Opped(line) \cap Users : ts >= e[u]
TmodeMsgs(e) ==
    {m \in [kind : {"TMODE"}, chan : Chans, ts : Nat, line : Seq(Changes)] :
        Earns(m.ts, m.line, e[m.chan])}
BmaskMsgs == [kind : {"BMASK"}, chan : Chans, ts : Nat, list : Lists, masks : SUBSET Args]
TopicMsgs == [kind : {"TOPIC"}, chan : Chans, topic : Topics]
TburstMsgs == [kind : {"TBURST"}, chan : Chans, ts : Nat, when : Nat, topic : Topics]
InviteMsgs == [kind : {"INVITE"}, user : Users, chan : Chans, ts : Nat]
Post(e) ==
    UNION {ServerMsgs, SquitMsgs, QuitMsgs, SjoinMsgs(e), JoinMsgs, LeaveMsgs, TmodeMsgs(e),
           BmaskMsgs, TopicMsgs, TburstMsgs, InviteMsgs}

(* A server sends itself nothing, at most an INVITE it finds no way for.    *)
Mail(s, t, e) == {m \in Post(e) : s = t => m \in InviteMsgs}
QueueOK(q, e) ==
    /\ q = [s \in Servers |-> [t \in Servers |-> q[s][t]]]
    /\ \A s, t \in Servers : q[s][t] \in Seq(Mail(s, t, e))

(* Timestamps that only went down.                                          *)
Earlier(d, e) ==
    /\ d \in [Chans -> [Users -> Nat]] /\ e \in [Chans -> [Users -> Nat]]
    /\ \A c \in Chans, u \in Users : d[c][u] <= e[c][u]

(* The messages by their kinds.                                             *)
LEMMA Kinds ==
    ASSUME NEW e, NEW m \in Post(e)
    PROVE  /\ m.kind = "SERVER" => m \in ServerMsgs
           /\ m.kind = "SQUIT" => m \in SquitMsgs
           /\ m.kind = "QUIT" => m \in QuitMsgs
           /\ m.kind = "SJOIN" => m \in SjoinMsgs(e)
           /\ m.kind = "JOIN" => m \in JoinMsgs
           /\ m.kind \in {"PART", "KICK"} => m \in LeaveMsgs
           /\ m.kind = "TMODE" => m \in TmodeMsgs(e)
           /\ m.kind = "BMASK" => m \in BmaskMsgs
           /\ m.kind = "TOPIC" => m \in TopicMsgs
           /\ m.kind = "TBURST" => m \in TburstMsgs
           /\ m.kind = "INVITE" => m \in InviteMsgs
<1>1. m \in ServerMsgs => m.kind = "SERVER"
  BY DEF ServerMsgs
<1>2. m \in SquitMsgs => m.kind = "SQUIT"
  BY DEF SquitMsgs
<1>3. m \in QuitMsgs => m.kind = "QUIT"
  BY DEF QuitMsgs
<1>4. m \in SjoinMsgs(e) => m.kind = "SJOIN"
  BY DEF SjoinMsgs
<1>5. m \in JoinMsgs => m.kind = "JOIN"
  BY DEF JoinMsgs
<1>6. m \in LeaveMsgs => m.kind \in {"PART", "KICK"}
  BY DEF LeaveMsgs
<1>7. m \in TmodeMsgs(e) => m.kind = "TMODE"
  BY DEF TmodeMsgs
<1>8. m \in BmaskMsgs => m.kind = "BMASK"
  BY DEF BmaskMsgs
<1>9. m \in TopicMsgs => m.kind = "TOPIC"
  BY DEF TopicMsgs
<1>10. m \in TburstMsgs => m.kind = "TBURST"
  BY DEF TburstMsgs
<1>11. m \in InviteMsgs => m.kind = "INVITE"
  BY DEF InviteMsgs
<1>12. \/ m \in ServerMsgs \/ m \in SquitMsgs \/ m \in QuitMsgs \/ m \in SjoinMsgs(e)
       \/ m \in JoinMsgs \/ m \in LeaveMsgs \/ m \in TmodeMsgs(e) \/ m \in BmaskMsgs
       \/ m \in TopicMsgs \/ m \in TburstMsgs \/ m \in InviteMsgs
  BY DEF Post
<1> QED BY <1>1, <1>2, <1>3, <1>4, <1>5, <1>6, <1>7, <1>8, <1>9, <1>10, <1>11, <1>12

(* What the constructors make.                                              *)
LEMMA Made ==
    ASSUME NEW e
    PROVE  /\ \A S \in SUBSET Servers, us \in SUBSET Users : Server(S, us) \in Post(e)
           /\ \A S \in SUBSET Servers : Squit(S) \in Post(e)
           /\ \A u \in Users : Quit(u) \in Post(e)
           /\ \A u \in Users, c \in Chans, ts \in Nat \ {0} : Join(u, c, ts) \in Post(e)
           /\ \A u \in Users, c \in Chans : Part(u, c) \in Post(e) /\ Kick(u, c) \in Post(e)
           /\ \A c \in Chans, ts \in Nat, l \in Lists, masks \in SUBSET Args :
                Bmask(c, ts, l, masks) \in Post(e)
           /\ \A c \in Chans, topic \in Topics : Topic(c, topic) \in Post(e)
           /\ \A c \in Chans, ts \in Nat, when \in Nat, topic \in Topics :
                Tburst(c, ts, when, topic) \in Post(e)
           /\ \A u \in Users, c \in Chans, ts \in Nat : Invite(u, c, ts) \in InviteMsgs
<1>1. ASSUME NEW m, m \in ServerMsgs \cup SquitMsgs \cup QuitMsgs \cup JoinMsgs \cup LeaveMsgs
                        \cup BmaskMsgs \cup TopicMsgs \cup TburstMsgs
      PROVE  m \in Post(e)
  BY <1>1 DEF Post
<1>2. ASSUME NEW S \in SUBSET Servers, NEW us \in SUBSET Users PROVE Server(S, us) \in ServerMsgs
  BY DEF Server, ServerMsgs
<1>3. ASSUME NEW S \in SUBSET Servers PROVE Squit(S) \in SquitMsgs
  BY DEF Squit, SquitMsgs
<1>4. ASSUME NEW u \in Users PROVE Quit(u) \in QuitMsgs
  BY DEF Quit, QuitMsgs
<1>5. ASSUME NEW u \in Users, NEW c \in Chans, NEW ts \in Nat \ {0} PROVE Join(u, c, ts) \in JoinMsgs
  BY DEF Join, JoinMsgs
<1>6. ASSUME NEW u \in Users, NEW c \in Chans PROVE Part(u, c) \in LeaveMsgs /\ Kick(u, c) \in LeaveMsgs
  BY DEF Part, Kick, LeaveMsgs
<1>7. ASSUME NEW c \in Chans, NEW ts \in Nat, NEW l \in Lists, NEW masks \in SUBSET Args
      PROVE  Bmask(c, ts, l, masks) \in BmaskMsgs
  BY DEF Bmask, BmaskMsgs
<1>8. ASSUME NEW c \in Chans, NEW topic \in Topics PROVE Topic(c, topic) \in TopicMsgs
  BY DEF Topic, TopicMsgs
<1>9. ASSUME NEW c \in Chans, NEW ts \in Nat, NEW when \in Nat, NEW topic \in Topics
      PROVE  Tburst(c, ts, when, topic) \in TburstMsgs
  BY DEF Tburst, TburstMsgs
<1>10. ASSUME NEW u \in Users, NEW c \in Chans, NEW ts \in Nat PROVE Invite(u, c, ts) \in InviteMsgs
  BY DEF Invite, InviteMsgs
<1> QED BY <1>1, <1>2, <1>3, <1>4, <1>5, <1>6, <1>7, <1>8, <1>9, <1>10

(* A SJOIN whose operators have earned it.                                  *)
LEMMA MadeSjoin ==
    ASSUME NEW e, NEW c \in Chans, NEW ts \in Nat, ts > 0, NEW modes \in Burst,
           NEW nicks \in Members, Backed(ts, nicks, e[c])
    PROVE  Sjoin(c, ts, modes, nicks) \in Post(e)
<1> DEFINE m == Sjoin(c, ts, modes, nicks)
<1>1. /\ m \in [kind : {"SJOIN"}, chan : Chans, ts : Nat, modes : Burst, nicks : Members]
      /\ m.ts = ts /\ m.nicks = nicks /\ m.chan = c
  BY DEF Sjoin
<1> HIDE DEF m
<1>2. m \in SjoinMsgs(e)
  BY <1>1 DEF SjoinMsgs
<1> QED BY <1>2 DEF Post, m

(* As above, for a TMODE.                                                   *)
LEMMA MadeTmode ==
    ASSUME NEW e, NEW c \in Chans, NEW ts \in Nat, NEW line \in Seq(Changes), Earns(ts, line, e[c])
    PROVE  Tmode(c, ts, line) \in Post(e)
<1> DEFINE m == Tmode(c, ts, line)
<1>1. /\ m \in [kind : {"TMODE"}, chan : Chans, ts : Nat, line : Seq(Changes)]
      /\ m.ts = ts /\ m.line = line /\ m.chan = c
  BY DEF Tmode
<1> HIDE DEF m
<1>2. m \in TmodeMsgs(e)
  BY <1>1 DEF TmodeMsgs
<1> QED BY <1>2 DEF Post, m

(* Messages stay right when somebody earned status earlier.                 *)
LEMMA PostMono ==
    ASSUME NEW d, NEW e, Earlier(d, e)
    PROVE  Post(e) \subseteq Post(d)
<1>1. ASSUME NEW m \in SjoinMsgs(e) PROVE m \in SjoinMsgs(d)
  <2>1. /\ m \in [kind : {"SJOIN"}, chan : Chans, ts : Nat, modes : Burst, nicks : Members]
        /\ m.ts > 0 /\ Backed(m.ts, m.nicks, e[m.chan])
    BY DEF SjoinMsgs
  <2>2. m.chan \in Chans /\ m.ts \in Nat /\ m.nicks \in Members
    BY <2>1
  <2>3. DOMAIN m.nicks \subseteq Users
    BY <2>2, MembersFacts
  <2>4. ASSUME NEW u \in DOMAIN m.nicks
        PROVE  m.nicks[u] \subseteq Status /\ ("o" \in m.nicks[u] => m.ts >= d[m.chan][u])
    <3>1. u \in Users /\ m.nicks[u] \subseteq Status /\ ("o" \in m.nicks[u] => m.ts >= e[m.chan][u])
      BY <2>1, <2>3 DEF Backed
    <3>2. d[m.chan][u] \in Nat /\ e[m.chan][u] \in Nat /\ d[m.chan][u] <= e[m.chan][u]
      BY <2>2, <3>1 DEF Earlier
    <3> QED BY <2>2, <3>1, <3>2
  <2>5. Backed(m.ts, m.nicks, d[m.chan])
    BY <2>4 DEF Backed
  <2> QED BY <2>1, <2>5 DEF SjoinMsgs
<1>2. ASSUME NEW m \in TmodeMsgs(e) PROVE m \in TmodeMsgs(d)
  <2>1. /\ m \in [kind : {"TMODE"}, chan : Chans, ts : Nat, line : Seq(Changes)]
        /\ Earns(m.ts, m.line, e[m.chan])
    BY DEF TmodeMsgs
  <2>2. m.chan \in Chans /\ m.ts \in Nat
    BY <2>1
  <2>3. ASSUME NEW u \in Opped(m.line) \cap Users
        PROVE  m.ts >= d[m.chan][u]
    <3>1. u \in Users /\ m.ts >= e[m.chan][u]
      BY <2>1 DEF Earns
    <3>2. d[m.chan][u] \in Nat /\ e[m.chan][u] \in Nat /\ d[m.chan][u] <= e[m.chan][u]
      BY <2>2, <3>1 DEF Earlier
    <3> QED BY <2>2, <3>1, <3>2
  <2>4. Earns(m.ts, m.line, d[m.chan])
    BY <2>3 DEF Earns
  <2> QED BY <2>1, <2>4 DEF TmodeMsgs
<1> QED BY <1>1, <1>2 DEF Post

(* A list of some of the things is a list of things.                        *)
LEMMA SeqMono ==
    ASSUME NEW A, NEW B, A \subseteq B, NEW q \in Seq(A)
    PROVE  q \in Seq(B)
OBVIOUS

(* Between two servers everything may be on its way.                        *)
LEMMA MailFacts ==
    ASSUME NEW s, NEW t, NEW e
    PROVE  /\ s # t => Mail(s, t, e) = Post(e)
           /\ InviteMsgs \subseteq Mail(s, t, e)
           /\ Mail(s, t, e) \subseteq Post(e)
BY DEF Mail, Post

(* The streams stay right when somebody earned status earlier.              *)
LEMMA QueueMono ==
    ASSUME NEW d, NEW e, Earlier(d, e), NEW q, QueueOK(q, e)
    PROVE  QueueOK(q, d)
<1>1. ASSUME NEW s \in Servers, NEW t \in Servers
      PROVE  q[s][t] \in Seq(Mail(s, t, d))
  <2>1. q[s][t] \in Seq(Mail(s, t, e))
    BY DEF QueueOK
  <2>2. Mail(s, t, e) \subseteq Mail(s, t, d)
    BY PostMono DEF Mail
  <2> QED BY <2>1, <2>2, SeqMono
<1> QED BY <1>1 DEF QueueOK

(* The streams of one server are replaced.                                  *)
LEMMA QueueRow ==
    ASSUME NEW e, NEW q, QueueOK(q, e), NEW s \in Servers, NEW r,
           \A t \in Servers : r[t] \in Seq(Mail(s, t, e))
    PROVE  QueueOK([q EXCEPT ![s] = [t \in Servers |-> r[t]]], e)
<1> DEFINE row == [t \in Servers |-> r[t]]
           n == [q EXCEPT ![s] = row]
<1>1. q = [x \in Servers |-> [t \in Servers |-> q[x][t]]]
  BY DEF QueueOK
<1>2. DOMAIN q = Servers
  BY <1>1
<1>3. \A x \in Servers : q[x] = [t \in Servers |-> q[x][t]]
  BY <1>1
<1>4. n = [x \in Servers |-> IF x = s THEN row ELSE q[x]]
  BY <1>2
<1>5. \A x \in Servers : n[x] = IF x = s THEN row ELSE q[x]
  BY <1>4
<1>6. row = [t \in Servers |-> row[t]] /\ \A t \in Servers : row[t] = r[t]
  OBVIOUS
<1> HIDE DEF row
<1>7. \A x \in Servers : n[x] = [t \in Servers |-> n[x][t]]
  <2> HIDE DEF n
  <2>1. ASSUME NEW x \in Servers PROVE n[x] = [t \in Servers |-> n[x][t]]
    <3>1. CASE x = s
      <4>1. n[x] = row
        BY <1>5, <3>1
      <4> QED BY <1>6, <4>1
    <3>2. CASE x # s
      <4>1. n[x] = q[x]
        BY <1>5, <3>2
      <4> QED BY <1>3, <4>1
    <3> QED BY <3>1, <3>2
  <2> QED BY <2>1
<1>8. n = [x \in Servers |-> n[x]]
  BY <1>4, <1>5
<1> HIDE DEF n
<1>9. n = [x \in Servers |-> [t \in Servers |-> n[x][t]]]
  BY <1>7, <1>8
<1>10. \A x, t \in Servers : n[x][t] \in Seq(Mail(x, t, e))
  BY <1>5, <1>6 DEF QueueOK
<1>11. QueueOK(n, e)
  BY <1>9, <1>10 DEF QueueOK
<1> QED BY <1>11 DEF n, row

(* One stream is replaced.                                                  *)
LEMMA QueueOne ==
    ASSUME NEW e, NEW q, QueueOK(q, e), NEW s \in Servers, NEW t,
           NEW x, t \in Servers => x \in Seq(Mail(s, t, e))
    PROVE  QueueOK([q EXCEPT ![s][t] = x], e)
<1>1. q = [a \in Servers |-> [b \in Servers |-> q[a][b]]]
  BY DEF QueueOK
<1>2. DOMAIN q = Servers /\ q[s] = [b \in Servers |-> q[s][b]]
  BY <1>1
<1> DEFINE r == [q[s] EXCEPT ![t] = x]
<1>3. r = [b \in Servers |-> r[b]]
  BY <1>2
<1>4. \A b \in Servers : r[b] = IF b = t THEN x ELSE q[s][b]
  BY <1>2
<1>5. [q EXCEPT ![s][t] = x] = [q EXCEPT ![s] = r]
  BY <1>2
<1> HIDE DEF r
<1>6. \A b \in Servers : r[b] \in Seq(Mail(s, b, e))
  BY <1>4 DEF QueueOK
<1>7. QueueOK([q EXCEPT ![s] = [b \in Servers |-> r[b]]], e)
  BY <1>6, QueueRow
<1> QED BY <1>3, <1>5, <1>7

(* sendto_server().                                                         *)
LEMMA QueueSend ==
    ASSUME NEW e, NEW q, QueueOK(q, e), NEW s \in Servers, s \notin linked[s], NEW from,
           NEW msgs \in Seq(Post(e))
    PROVE  QueueOK(sendto_server(q, s, from, msgs), e)
<1> DEFINE r == [t \in Servers |-> IF t \in linked[s] \ {from} THEN q[s][t] \o msgs ELSE q[s][t]]
<1>1. sendto_server(q, s, from, msgs) = [q EXCEPT ![s] = r]
  BY DEF sendto_server, QueueOK
<1>2. ASSUME NEW t \in Servers
      PROVE  r[t] \in Seq(Mail(s, t, e))
  <2>1. q[s][t] \in Seq(Mail(s, t, e))
    BY DEF QueueOK
  <2>2. CASE t \in linked[s] \ {from}
    <3>1. Mail(s, t, e) = Post(e)
      BY <2>2, MailFacts
    <3>2. q[s][t] \o msgs \in Seq(Post(e))
      BY <2>1, <3>1
    <3> QED BY <2>2, <3>1, <3>2
  <2>3. CASE ~ (t \in linked[s] \ {from})
    BY <2>1, <2>3
  <2> QED BY <2>2, <2>3
<1>3. r = [t \in Servers |-> r[t]]
  OBVIOUS
<1> HIDE DEF r
<1>4. QueueOK([q EXCEPT ![s] = [t \in Servers |-> r[t]]], e)
  BY <1>2, QueueRow
<1> QED BY <1>1, <1>3, <1>4

(* sendto_one() to a user: only an INVITE is sent so.                       *)
LEMMA QueueUser ==
    ASSUME NEW e, NEW q, QueueOK(q, e), NEW s \in Servers, NEW u, NEW m \in InviteMsgs
    PROVE  QueueOK(sendto_user(q, s, u, m), e)
<1> DEFINE t == From(s, u)
           x == Append(q[s][t], m)
<1>1. sendto_user(q, s, u, m) = [q EXCEPT ![s][t] = x]
  <2>1. s \in DOMAIN q
    BY DEF QueueOK
  <2> HIDE DEF t
  <2>2. [q EXCEPT ![s][t] = Append(@, m)] = [q EXCEPT ![s][t] = Append(q[s][t], m)]
    BY <2>1
  <2> QED BY <2>2 DEF sendto_user, t
<1> HIDE DEF t
<1>2. ASSUME t \in Servers PROVE x \in Seq(Mail(s, t, e))
  <2>1. q[s][t] \in Seq(Mail(s, t, e))
    BY <1>2 DEF QueueOK
  <2>2. m \in Mail(s, t, e)
    BY MailFacts
  <2> QED BY <2>1, <2>2
<1> HIDE DEF x
<1>3. t \in Servers => x \in Seq(Mail(s, t, e))
  BY <1>2
<1>4. QueueOK([q EXCEPT ![s][t] = x], e)
  BY ONLY <1>3, QueueOK(q, e), s \in Servers, QueueOne
<1> QED BY ONLY <1>1, <1>4

(* The first message of a stream is taken.                                  *)
LEMMA QueueTaken ==
    ASSUME NEW e, QueueOK(queue, e), NEW from \in Servers, NEW s \in Servers,
           queue[from][s] # <<>>
    PROVE  /\ Msg(from, s) \in Post(e)
           /\ from = s => Msg(from, s) \in InviteMsgs
           /\ QueueOK(Taken(from, s), e)
<1> DEFINE q == queue[from][s]
<1>1. q \in Seq(Mail(from, s, e)) /\ q # <<>>
  BY DEF QueueOK
<1>2. Head(q) \in Mail(from, s, e) /\ Tail(q) \in Seq(Mail(from, s, e))
  BY <1>1
<1>3. Msg(from, s) = Head(q)
  BY DEF Msg
<1>4. Taken(from, s) = [queue EXCEPT ![from][s] = Tail(q)]
  <2>1. from \in DOMAIN queue
    BY DEF QueueOK
  <2> QED BY <2>1 DEF Taken
<1> HIDE DEF q
<1> DEFINE x == Tail(q)
<1> HIDE DEF x
<1>5. x \in Seq(Mail(from, s, e))
  BY <1>2 DEF x
<1>6. QueueOK([queue EXCEPT ![from][s] = x], e)
  BY <1>5, QueueOne
<1>7. Head(q) \in Post(e) /\ (from = s => Head(q) \in InviteMsgs)
  BY <1>2 DEF Mail
<1> QED BY <1>3, <1>4, <1>6, <1>7 DEF x

(* A message is taken, and others are passed on.                            *)
LEMMA QueueRelay ==
    ASSUME NEW e, QueueOK(queue, e), NEW from \in Servers, NEW s \in Servers,
           queue[from][s] # <<>>, s \notin linked[s], NEW msgs \in Seq(Post(e))
    PROVE  QueueOK(Relay(from, s, msgs), e)
<1> DEFINE q == Taken(from, s)
<1>1. QueueOK(q, e)
  BY QueueTaken
<1>2. Relay(from, s, msgs) = sendto_server(q, s, from, msgs)
  BY DEF Relay
<1> HIDE DEF q
<1> QED BY <1>1, <1>2, QueueSend

(* One message is a list.                                                   *)
LEMMA Single ==
    ASSUME NEW S, NEW m \in S
    PROVE  <<m>> \in Seq(S)
OBVIOUS

(* A function on 1 .. n is a list.                                          *)
LEMMA Listed ==
    ASSUME NEW T, NEW n \in Nat, NEW f \in [1 .. n -> T]
    PROVE  f \in Seq(T) /\ Len(f) = n
OBVIOUS

(* A finite set as a list.                                                  *)
LEMMA SetList ==
    ASSUME NEW S, IsFiniteSet(S)
    PROVE  SetToSeq(S) \in Seq(S)
<1> DEFINE n == Cardinality(S)
<1>1. n \in Nat /\ ExistsBijection(1 .. n, S)
  BY FS_CardinalityType
<1>2. \E f \in [1 .. n -> S] : IsInjective(f)
  BY <1>1 DEF ExistsBijection, Bijection, Injection, IsInjective
<1>3. SetToSeq(S) \in [1 .. n -> S]
  BY <1>2 DEF SetToSeq
<1> HIDE DEF n
<1> QED BY <1>1, <1>3, Listed

(* send_mode_changes_server(): the lines name nobody as operator whom the   *)
(* changes did not name.                                                    *)
LEMMA MadeTmodes ==
    ASSUME NEW e, NEW c \in Chans, NEW ts \in Nat, NEW changes \in Seq(Changes),
           Earns(ts, changes, e[c])
    PROVE  Tmodes(c, ts, changes) \in Seq(Post(e))
<1> DEFINE lines == send_mode_changes_server(changes)
           f == [i \in DOMAIN lines |-> Tmode(c, ts, lines[i])]
<1>1. Tmodes(c, ts, changes) = f
  BY DEF Tmodes
<1>2. /\ lines \in Seq(Seq(Changes))
      /\ \A i \in DOMAIN lines : Opped(lines[i]) \subseteq Opped(changes)
  BY LinesOf
<1> HIDE DEF lines
<1>3. Len(lines) \in Nat /\ DOMAIN lines = 1 .. Len(lines)
  BY <1>2
<1>4. ASSUME NEW i \in DOMAIN lines
      PROVE  f[i] \in Post(e)
  <2>1. lines[i] \in Seq(Changes)
    BY <1>2
  <2>2. Earns(ts, lines[i], e[c])
    BY <1>2 DEF Earns
  <2> DEFINE line == lines[i]
  <2>3. f[i] = Tmode(c, ts, line)
    OBVIOUS
  <2> HIDE DEF f, line
  <2>4. line \in Seq(Changes) /\ Earns(ts, line, e[c])
    BY <2>1, <2>2 DEF line
  <2> QED BY <2>3, <2>4, MadeTmode
<1>5. f \in [1 .. Len(lines) -> Post(e)]
  <2>1. f = [i \in DOMAIN lines |-> f[i]]
    OBVIOUS
  <2> HIDE DEF f
  <2> QED BY <1>3, <1>4, <2>1
<1> HIDE DEF f
<1> QED BY <1>1, <1>3, <1>5, Listed

(* send_channel_modes() of a good channel.                                  *)
LEMMA BurstChannel ==
    ASSUME NEW s, NEW k, NEW e, NEW id, NEW c \in Chans, Good(s, k, e[c], id), Exists(k)
    PROVE  burst_channel(c, k) \in Seq(Post(e))
<1> DEFINE nicks == [u \in DOMAIN k.members |-> k.members[u] \cap Status]
           lists == Keep(<<"b", "e", "I">>, {l \in Lists : k.list[l] # {}})
           a == <<Sjoin(c, k.ts, ModesOf(k), nicks)>>
           b == [i \in DOMAIN lists |-> Bmask(c, k.ts, lists[i], k.list[lists[i]])]
           d == IF k.topic_time = 0 THEN <<>> ELSE <<Tburst(c, k.ts, k.topic_time, k.topic)>>
<1>1. burst_channel(c, k) = a \o b \o d
  BY DEF burst_channel
<1>2. k \in ChannelRecords /\ k.ts > 0
  BY DEF Good, Dated
<1>3. /\ k.ts \in Nat /\ k.list \in [Lists -> SUBSET Args]
      /\ k.mode \in SUBSET ChanModes /\ k.limit \in Int /\ k.key \in Args
      /\ k.topic \in Topics /\ k.topic_time \in Nat
      /\ DOMAIN k.members \in SUBSET Users
      /\ k.members \in [DOMAIN k.members -> SUBSET MemberFlags]
  BY <1>2, ChannelFacts
<1>4. a \in Seq(Post(e))
  <2>1. nicks \in Members
    <3>1. DOMAIN nicks \in SUBSET Users /\ nicks \in [DOMAIN nicks -> SUBSET MemberFlags]
      BY <1>3 DEF MemberFlags
    <3> QED BY <3>1, MembersFacts
  <2>2. Backed(k.ts, nicks, e[c])
    BY DEF Backed, Good, Lawful
  <2>3. ModesOf(k) \in Burst
    <3>1. FALSE \in BOOLEAN
      OBVIOUS
    <3> QED BY <1>3, <3>1 DEF ModesOf, Burst
  <2> DEFINE m == Sjoin(c, k.ts, ModesOf(k), nicks)
  <2> HIDE DEF nicks
  <2>4. m \in Post(e)
    BY <1>2, <1>3, <2>1, <2>2, <2>3, MadeSjoin
  <2>5. a = <<m>>
    OBVIOUS
  <2> HIDE DEF m, a
  <2> QED BY <2>4, <2>5, Single
<1>5. b \in Seq(Post(e))
  <2>1. <<"b", "e", "I">> \in Seq(Lists)
    BY DEF Lists
  <2>2. lists \in Seq(Lists)
    BY <2>1, KeepFacts
  <2> HIDE DEF lists
  <2>3. Len(lists) \in Nat /\ DOMAIN lists = 1 .. Len(lists)
    BY <2>2
  <2>4. ASSUME NEW i \in DOMAIN lists
        PROVE  b[i] \in Post(e)
    <3>1. lists[i] \in Lists /\ k.list[lists[i]] \in SUBSET Args
      BY <1>3, <2>2
    <3>2. Bmask(c, k.ts, lists[i], k.list[lists[i]]) \in Post(e)
      BY <1>3, <3>1, Made
    <3> QED BY <3>2
  <2>5. b = [i \in DOMAIN lists |-> b[i]]
    OBVIOUS
  <2> HIDE DEF b
  <2>6. b \in [1 .. Len(lists) -> Post(e)]
    BY <2>3, <2>4, <2>5
  <2> QED BY <2>3, <2>6, Listed
<1>6. d \in Seq(Post(e))
  <2>1. Tburst(c, k.ts, k.topic_time, k.topic) \in Post(e)
    BY <1>3, Made
  <2> DEFINE m == Tburst(c, k.ts, k.topic_time, k.topic)
  <2>2. d = IF k.topic_time = 0 THEN <<>> ELSE <<m>>
    OBVIOUS
  <2>3. m \in Post(e)
    BY <2>1
  <2> HIDE DEF m, d
  <2>4. <<m>> \in Seq(Post(e)) /\ <<>> \in Seq(Post(e))
    BY <2>3, Single
  <2> QED BY <2>2, <2>4
<1> HIDE DEF a, b, d
<1> QED BY <1>1, <1>4, <1>5, <1>6

(* server_burst().                                                          *)
LEMMA BurstAll ==
    ASSUME NEW s, NEW e, NEW id, \A c \in Chans : Good(s, chans[s][c], e[c], id),
           net[s] \in SUBSET Servers, known[s] \in SUBSET Users
    PROVE  burst_all(s) \in Seq(Post(e))
<1> DEFINE C == {c \in Chans : Exists(chans[s][c])}
           order == SetToSeq(C)
           n == Len(order)
           X == Seq(Post(e))
           x0 == <<Server(net[s], known[s])>>
           F == [i \in 1 .. n |-> [q \in X |-> q \o burst_channel(order[i], chans[s][order[i]])]]
           Def(k) == k = [i \in 0 .. n |->
                            IF i = 0 THEN <<Server(net[s], known[s])>>
                            ELSE k[i - 1] \o burst_channel(order[i], chans[s][order[i]])]
           sent == CHOOSE k : Def(k)
<1>1. order \in Seq(C)
  <2>1. IsFiniteSet(C)
    BY ChannelAssumption, FS_Subset
  <2> HIDE DEF C
  <2> QED BY <2>1, SetList
<1>2. burst_all(s) = sent[n]
  BY DEF burst_all
<1> HIDE DEF order
<1>3. n \in Nat /\ \A i \in 1 .. n : order[i] \in C
  BY <1>1
<1> HIDE DEF n
<1>4. \A i \in 1 .. n : burst_channel(order[i], chans[s][order[i]]) \in X
  <2>1. ASSUME NEW i \in 1 .. n PROVE burst_channel(order[i], chans[s][order[i]]) \in X
    <3>1. order[i] \in Chans /\ Exists(chans[s][order[i]])
      BY <1>3
    <3>2. Good(s, chans[s][order[i]], e[order[i]], id)
      BY <3>1
    <3> QED BY <3>1, <3>2, BurstChannel
  <2> QED BY <2>1
<1>5. x0 \in X
  <2> DEFINE m == Server(net[s], known[s])
  <2>1. m \in Post(e)
    BY Made
  <2> HIDE DEF m
  <2>2. <<m>> \in X
    BY <2>1, Single
  <2> QED BY <2>2 DEF m
<1>6. F \in [1 .. n -> [X -> X]]
  <2>1. ASSUME NEW i \in 1 .. n, NEW q \in X
        PROVE  q \o burst_channel(order[i], chans[s][order[i]]) \in X
    <3> DEFINE b == burst_channel(order[i], chans[s][order[i]])
    <3>1. b \in X
      BY <1>4
    <3> HIDE DEF b
    <3>2. q \o b \in X
      BY <3>1
    <3> QED BY <3>2 DEF b
  <2> HIDE DEF X
  <2> QED BY <2>1
<1>7. \A i \in 1 .. n : \A q \in X : F[i][q] = q \o burst_channel(order[i], chans[s][order[i]])
  OBVIOUS
<1>8. x0 = <<Server(net[s], known[s])>>
  OBVIOUS
<1> HIDE DEF X, F, x0
<1>9. PICK k \in [0 .. n -> X] : Runs(k, n, x0, F)
  BY <1>3, <1>5, <1>6, LoopRuns
<1>10. Def(k)
  <2>1. k[0] = x0 /\ \A i \in 1 .. n : k[i] = F[i][k[i - 1]]
    BY <1>9 DEF Runs
  <2>2. ASSUME NEW i \in 0 .. n
        PROVE  k[i] = IF i = 0 THEN <<Server(net[s], known[s])>>
                      ELSE k[i - 1] \o burst_channel(order[i], chans[s][order[i]])
    <3>1. CASE i = 0
      BY <1>8, <2>1, <3>1
    <3>2. CASE i # 0
      <4>1. i \in 1 .. n /\ i - 1 \in 0 .. n
        BY <1>3, <3>2
      <4>2. k[i - 1] \in X
        BY <4>1
      <4> QED BY <1>7, <2>1, <3>2, <4>1, <4>2
    <3> QED BY <3>1, <3>2
  <2>3. k = [i \in 0 .. n |-> k[i]]
    OBVIOUS
  <2> QED BY <2>2, <2>3
<1>11. Def(sent)
  BY <1>10
<1> HIDE DEF sent
<1>12. \A i \in 0 .. n : sent[i] = IF i = 0 THEN <<Server(net[s], known[s])>>
                                   ELSE sent[i - 1] \o burst_channel(order[i], chans[s][order[i]])
  BY ONLY <1>11
<1> DEFINE A == {i \in 0 .. n : sent[i] \in X}
<1>13. 0 \in A
  BY <1>3, <1>5, <1>8, <1>12
<1>14. ASSUME NEW i \in 1 .. n, i - 1 \in A PROVE i \in A
  <2>1. i \in 0 .. n /\ i # 0 /\ sent[i - 1] \in X
    BY <1>3, <1>14
  <2>2. sent[i] = sent[i - 1] \o burst_channel(order[i], chans[s][order[i]])
    BY <1>12, <2>1
  <2> DEFINE b == burst_channel(order[i], chans[s][order[i]])
             q == sent[i - 1]
  <2>3. b \in X /\ q \in X /\ sent[i] = q \o b
    BY <1>4, <2>1, <2>2
  <2> HIDE DEF b, q
  <2>4. sent[i] \in X
    BY <2>3 DEF X
  <2> QED BY <2>1, <2>4
<1> HIDE DEF A
<1>15. 0 .. n \subseteq A
  BY <1>3, <1>13, <1>14, UpTo
<1>16. n \in A
  BY <1>3, <1>15
<1> QED BY <1>2, <1>16 DEF A, X
-----------------------------------------------------------------------------
(* The inductive invariant.  Every server's channels and invitation lists   *)
(* are sound, and so is what is on its way to it.                           *)
World(ch, inv, kn, e, id) ==
    \A s \in Servers : Sound(s, [chan |-> ch[s], invited |-> inv], e, id, kn[s])
Inv ==
    /\ scene \in Scenes
    /\ chans \in [Servers -> [Chans -> ChannelRecords]]
    /\ known \in [Servers -> SUBSET Users]
    /\ net \in [Servers -> SUBSET Servers]
    /\ linked \in [Servers -> SUBSET Servers] /\ \A s \in Servers : s \notin linked[s]
    /\ ident \in [Users -> Idents \cup NewIdents]
    /\ now \in Nat /\ now > 0
    /\ earned \in [Chans -> [Users -> Nat]]
    /\ QueueOK(queue, earned)
    /\ World(chans, invited, known, earned, ident)

(* One server's part changes, and the lists of its users.                   *)
LEMMA WorldStep ==
    ASSUME NEW ch \in [Servers -> [Chans -> ChannelRecords]], NEW inv,
           NEW kn \in [Servers -> SUBSET Users], NEW e, NEW d, NEW id,
           World(ch, inv, kn, e, id), Earlier(d, e), NEW s \in Servers, NEW S, NEW k,
           Sound(s, S, d, id, k), Others(s, [chan |-> ch[s], invited |-> inv], S)
    PROVE  /\ World([ch EXCEPT ![s] = S.chan], S.invited, [kn EXCEPT ![s] = k], d, id)
           /\ [ch EXCEPT ![s] = S.chan] \in [Servers -> [Chans -> ChannelRecords]]
<1>1. S \in Rooms
  BY DEF Sound
<1>2. /\ S.chan \in [Chans -> ChannelRecords] /\ S.invited \in [Users -> Seq(Chans)]
      /\ S = [chan |-> S.chan, invited |-> S.invited]
  BY <1>1, RoomFacts
<1> DEFINE nch == [ch EXCEPT ![s] = S.chan]
           nkn == [kn EXCEPT ![s] = k]
<1>3. /\ nch \in [Servers -> [Chans -> ChannelRecords]]
      /\ \A t \in Servers : nch[t] = IF t = s THEN S.chan ELSE ch[t]
      /\ \A t \in Servers : nkn[t] = IF t = s THEN k ELSE kn[t]
  BY <1>2
<1> HIDE DEF nch, nkn
<1>4. ASSUME NEW t \in Servers
      PROVE  Sound(t, [chan |-> nch[t], invited |-> S.invited], d, id, nkn[t])
  <2>1. CASE t = s
    <3>1. [chan |-> nch[t], invited |-> S.invited] = S /\ nkn[t] = k
      BY <1>2, <1>3, <2>1
    <3> QED BY <2>1, <3>1
  <2>2. CASE t # s
    <3> DEFINE T == [chan |-> ch[t], invited |-> inv]
               V == [chan |-> ch[t], invited |-> S.invited]
    <3>1. Sound(t, T, e, id, kn[t])
      BY DEF World
    <3>2. Sound(t, T, d, id, kn[t])
      BY <3>1, SoundMono DEF Earlier
    <3>3. ch[t] \in [Chans -> ChannelRecords] /\ T.chan = ch[t] /\ T.invited = inv
      OBVIOUS
    <3>4. V \in Rooms /\ V.chan = ch[t] /\ V.invited = S.invited
      BY <1>2, <3>3, MakeRooms
    <3>5. \A u \in Users : Home[u] = t => V.invited[u] = T.invited[u]
      BY <2>2, <3>3, <3>4 DEF Others
    <3>6. \A u \in Users : Bounded(V.invited[u])
      BY <3>4 DEF Sound
    <3> HIDE DEF T, V
    <3>7. Matched(t, V)
      BY <3>2, <3>3, <3>4, <3>5 DEF Sound, Matched
    <3>8. Guests(t, V, kn[t])
      BY <3>2, <3>3, <3>4 DEF Sound, Guests
    <3>9. \A c \in Chans : Good(t, V.chan[c], d[c], id)
      BY <3>2, <3>3, <3>4 DEF Sound
    <3>10. Sound(t, V, d, id, kn[t])
      BY <3>4, <3>6, <3>7, <3>8, <3>9 DEF Sound
    <3>11. nch[t] = ch[t] /\ nkn[t] = kn[t]
      BY <1>3, <2>2
    <3> QED BY <3>10, <3>11 DEF V
  <2> QED BY <2>1, <2>2
<1>5. World(nch, S.invited, nkn, d, id)
  BY <1>4 DEF World
<1> QED BY <1>3, <1>5 DEF nch, nkn

(* What a handler finds.                                                    *)
LEMMA HereSound ==
    ASSUME Inv, NEW s \in Servers
    PROVE  /\ Sound(s, Here(s), earned, ident, known[s])
           /\ Here(s) \in Rooms /\ Here(s).chan = chans[s] /\ Here(s).invited = invited
           /\ \A c \in Chans : Good(s, chans[s][c], earned[c], ident) /\ chans[s][c] \in ChannelRecords
           /\ \A u \in Users : invited[u] \in Seq(Chans)
           /\ Earlier(earned, earned) /\ Others(s, Here(s), Here(s))
<1>1. Sound(s, Here(s), earned, ident, known[s])
  BY DEF Inv, World, Here
<1>2. Here(s).chan = chans[s] /\ Here(s).invited = invited
  BY DEF Here
<1>3. \A c \in Chans : Good(s, chans[s][c], earned[c], ident)
  BY <1>1, <1>2 DEF Sound
<1>4. Earlier(earned, earned)
  BY DEF Earlier, Inv
<1>5. Others(s, Here(s), Here(s))
  BY DEF Others
<1>6. Here(s) \in Rooms
  BY <1>1 DEF Sound
<1>7. \A u \in Users : invited[u] \in Seq(Chans)
  BY <1>2, <1>6, RoomFacts
<1> QED BY <1>1, <1>2, <1>3, <1>4, <1>5, <1>6, <1>7 DEF Good

(* A handler is done.                                                       *)
LEMMA Handled ==
    ASSUME Inv, NEW s \in Servers, NEW S, NEW q, NEW kn \in SUBSET Users, NEW e,
           Earlier(e, earned), Sound(s, S, e, ident, kn), Others(s, Here(s), S), QueueOK(q, e),
           Done(s, S, q), known' = [known EXCEPT ![s] = kn], earned' = e,
           net' \in [Servers -> SUBSET Servers], UNCHANGED <<linked, ident, now, scene>>
    PROVE  Inv'
<1>1. chans' = [chans EXCEPT ![s] = S.chan] /\ invited' = S.invited /\ queue' = q
  BY DEF Done
<1>2. /\ World([chans EXCEPT ![s] = S.chan], S.invited, [known EXCEPT ![s] = kn], e, ident)
      /\ [chans EXCEPT ![s] = S.chan] \in [Servers -> [Chans -> ChannelRecords]]
  <2>1. /\ chans \in [Servers -> [Chans -> ChannelRecords]]
        /\ known \in [Servers -> SUBSET Users]
        /\ World(chans, invited, known, earned, ident)
    BY DEF Inv
  <2>2. Others(s, [chan |-> chans[s], invited |-> invited], S)
    BY DEF Here
  <2> QED BY <2>1, <2>2, WorldStep
<1>3. World(chans', invited', known', earned', ident')
  BY <1>1, <1>2
<1>4. known' \in [Servers -> SUBSET Users] /\ earned' \in [Chans -> [Users -> Nat]]
  BY DEF Inv, Earlier
<1>5. QueueOK(queue', earned')
  BY <1>1
<1>6. chans' \in [Servers -> [Chans -> ChannelRecords]]
  BY <1>1, <1>2
<1> QED BY <1>3, <1>4, <1>5, <1>6 DEF Inv

(* A handler is done, and nobody was added, forgotten or made operator.     *)
LEMMA Answered ==
    ASSUME Inv, NEW s \in Servers, NEW S, NEW q, Sound(s, S, earned, ident, known[s]),
           Others(s, Here(s), S), QueueOK(q, earned), Done(s, S, q),
           UNCHANGED <<known, net, linked, ident, now, earned, scene>>
    PROVE  Inv'
<1>1. known[s] \in SUBSET Users /\ known' = [known EXCEPT ![s] = known[s]]
  BY DEF Inv
<1>2. Earlier(earned, earned) /\ earned' = earned
  BY HereSound
<1>3. net' \in [Servers -> SUBSET Servers]
  BY DEF Inv
<1>4. UNCHANGED <<linked, ident, now, scene>>
  OBVIOUS
<1> QED BY <1>1, <1>2, <1>3, <1>4, Handled

(* A handler that changed one channel.                                      *)
LEMMA OneChannel ==
    ASSUME Inv, NEW s \in Servers, NEW c \in Chans, NEW k, NEW q,
           Good(s, k, earned[c], ident), k.invites = chans[s][c].invites,
           Exists(k) \/ k.invites = {}, QueueOK(q, earned),
           Done(s, [Here(s) EXCEPT !.chan[c] = k], q),
           UNCHANGED <<known, net, linked, ident, now, earned, scene>>
    PROVE  Inv'
<1> DEFINE S == [Here(s) EXCEPT !.chan[c] = k]
<1>1. Sound(s, Here(s), earned, ident, known[s]) /\ Here(s).chan = chans[s]
  BY HereSound
<1>2. Sound(s, S, earned, ident, known[s]) /\ S.invited = Here(s).invited
  BY <1>1, SoundChan
<1>3. Others(s, Here(s), S)
  BY <1>2 DEF Others
<1> HIDE DEF S
<1>4. Done(s, S, q)
  BY DEF S
<1> QED BY <1>2, <1>3, <1>4, Answered
-----------------------------------------------------------------------------
(* Commands.                                                                *)

(* PART.                                                                    *)
LEMMA PartInv ==
    ASSUME Inv, NEW s \in Servers, NEW u \in Users, m_part(s, u)
    PROVE  Inv'
<1>1. PICK c \in Channels(Here(s), u) :
        Done(s, leave_channel(Here(s), c, {u}), sendto_server(queue, s, s, <<Part(u, c)>>))
  BY DEF m_part
<1>2. c \in Chans
  BY DEF Channels
<1>3. Sound(s, Here(s), earned, ident, known[s])
  BY HereSound
<1> DEFINE S == leave_channel(Here(s), c, {u})
           q == sendto_server(queue, s, s, <<Part(u, c)>>)
<1>4. Sound(s, S, earned, ident, known[s]) /\ Others(s, Here(s), S)
  BY <1>2, <1>3, LeaveChannel
<1>5. QueueOK(q, earned)
  <2>1. <<Part(u, c)>> \in Seq(Post(earned))
    BY <1>2, Made, Single
  <2> QED BY <2>1, QueueSend DEF Inv
<1>6. UNCHANGED <<known, net, linked, ident, now, earned, scene>>
  BY DEF m_part, Quiet
<1> HIDE DEF S, q
<1>7. Done(s, S, q)
  BY <1>1 DEF S, q
<1> QED BY <1>4, <1>5, <1>6, <1>7, Answered

(* KICK.                                                                    *)
LEMMA KickInv ==
    ASSUME Inv, NEW s \in Servers, NEW u \in Users, m_kick(s, u)
    PROVE  Inv'
<1>1. PICK c \in Channels(Here(s), u), v \in known[s] :
        Done(s, leave_channel(Here(s), c, {v}), sendto_server(queue, s, s, <<Kick(v, c)>>))
  BY DEF m_kick
<1>2. c \in Chans /\ v \in Users
  BY DEF Channels, Inv
<1>3. Sound(s, Here(s), earned, ident, known[s])
  BY HereSound
<1> DEFINE S == leave_channel(Here(s), c, {v})
           q == sendto_server(queue, s, s, <<Kick(v, c)>>)
<1>4. Sound(s, S, earned, ident, known[s]) /\ Others(s, Here(s), S)
  BY <1>2, <1>3, LeaveChannel
<1>5. QueueOK(q, earned)
  <2>1. <<Kick(v, c)>> \in Seq(Post(earned))
    BY <1>2, Made, Single
  <2> QED BY <2>1, QueueSend DEF Inv
<1>6. UNCHANGED <<known, net, linked, ident, now, earned, scene>>
  BY DEF m_kick, Quiet
<1> HIDE DEF S, q
<1>7. Done(s, S, q)
  BY <1>1 DEF S, q
<1> QED BY <1>4, <1>5, <1>6, <1>7, Answered

(* TOPIC.                                                                   *)
LEMMA TopicInv ==
    ASSUME Inv, NEW s \in Servers, NEW u \in Users, m_topic(s, u)
    PROVE  Inv'
<1>1. PICK c \in Channels(Here(s), u), topic \in scene.topics :
        Done(s, [Here(s) EXCEPT !.chan[c] = channel_set_topic(@, topic, now)],
             sendto_server(queue, s, s, <<Topic(c, topic)>>))
  BY DEF m_topic
<1>2. c \in Chans /\ IsMember(chans[s][c], u) /\ topic \in Topics /\ now \in Nat
  BY SceneAssumption DEF Channels, Inv, Here
<1> DEFINE k == chans[s][c]
           n == channel_set_topic(k, topic, now)
           q == sendto_server(queue, s, s, <<Topic(c, topic)>>)
<1>3. Good(s, k, earned[c], ident) /\ k \in ChannelRecords /\ Exists(k)
  BY <1>2, HereSound DEF IsMember, Exists
<1>4. [Here(s) EXCEPT !.chan[c] = channel_set_topic(@, topic, now)] = [Here(s) EXCEPT !.chan[c] = n]
  <2>1. Here(s) \in Rooms /\ Here(s).chan = chans[s]
    BY HereSound
  <2> QED BY <1>2, <2>1 DEF Rooms
<1>5. /\ n \in ChannelRecords
      /\ n.members = k.members /\ n.ts = k.ts /\ n.list = k.list /\ n.invites = k.invites
  BY <1>2, <1>3, SetTopic
<1>6. QueueOK(q, earned)
  <2>1. <<Topic(c, topic)>> \in Seq(Post(earned))
    BY <1>2, Made, Single
  <2> QED BY <2>1, QueueSend DEF Inv
<1>7. UNCHANGED <<known, net, linked, ident, now, earned, scene>>
  BY DEF m_topic, Quiet
<1>8. Done(s, [Here(s) EXCEPT !.chan[c] = n], q)
  BY <1>1, <1>4
<1> HIDE DEF n, q
<1>9. Good(s, n, earned[c], ident) /\ Exists(n)
  BY <1>3, <1>5, GoodSame
<1> QED BY <1>2, <1>5, <1>6, <1>7, <1>8, <1>9, OneChannel

(* An invitation is kept for a user of this server.                         *)
LEMMA InvitedSound ==
    ASSUME Inv, NEW s \in Servers, NEW c \in Chans, NEW v \in known[s], MyConnect(s, v),
           Exists(chans[s][c])
    PROVE  Sound(s, Invited(s, c, v), earned, ident, known[s]) /\ Others(s, Here(s), Invited(s, c, v))
<1>1. /\ Sound(s, Here(s), earned, ident, known[s]) /\ Here(s).chan = chans[s]
      /\ Others(s, Here(s), Here(s))
  BY HereSound
<1>2. v \in Users /\ Home[v] = s
  BY DEF Inv, MyConnect
<1> DEFINE S == add_invite(Here(s), c, v)
<1>3. Sound(s, S, earned, ident, known[s]) /\ Others(s, Here(s), S)
  BY <1>1, <1>2, AddInvite
<1>4. Invited(s, c, v) = IF "i" \in chans[s][c].mode THEN S ELSE Here(s)
  BY DEF Invited
<1> HIDE DEF S
<1> QED BY <1>1, <1>3, <1>4

(* INVITE.                                                                  *)
LEMMA InviteInv ==
    ASSUME Inv, NEW s \in Servers, NEW u \in Users, m_invite(s, u)
    PROVE  Inv'
<1>1. PICK c \in Channels(Here(s), u), v \in known[s] :
        IF MyConnect(s, v) THEN Done(s, Invited(s, c, v), queue)
        ELSE Done(s, Here(s), sendto_user(queue, s, v, Invite(v, c, chans[s][c].ts)))
  BY DEF m_invite
<1>2. c \in Chans /\ IsMember(chans[s][c], u) /\ v \in Users
  BY DEF Channels, Inv, Here
<1>3. Exists(chans[s][c]) /\ chans[s][c].ts \in Nat
  BY <1>2, HereSound, ChannelFacts DEF IsMember, Exists
<1>4. UNCHANGED <<known, net, linked, ident, now, earned, scene>>
  BY DEF m_invite, Quiet
<1>5. QueueOK(queue, earned)
  BY DEF Inv
<1>6. CASE MyConnect(s, v)
  <2> DEFINE S == Invited(s, c, v)
  <2>1. Sound(s, S, earned, ident, known[s]) /\ Others(s, Here(s), S)
    BY <1>2, <1>3, <1>6, InvitedSound
  <2>2. Done(s, S, queue)
    BY <1>1, <1>6
  <2> HIDE DEF S
  <2> QED BY <1>4, <1>5, <2>1, <2>2, Answered
<1>7. CASE ~ MyConnect(s, v)
  <2> DEFINE m == Invite(v, c, chans[s][c].ts)
             q == sendto_user(queue, s, v, m)
  <2>1. m \in InviteMsgs
    BY <1>2, <1>3, Made
  <2> HIDE DEF m
  <2>2. QueueOK(q, earned)
    BY <1>5, <2>1, QueueUser
  <2>3. Done(s, Here(s), q)
    BY <1>1, <1>7 DEF m
  <2>4. Sound(s, Here(s), earned, ident, known[s]) /\ Others(s, Here(s), Here(s))
    BY HereSound
  <2> HIDE DEF q
  <2> QED BY <1>4, <2>2, <2>3, <2>4, Answered
<1> QED BY <1>6, <1>7

(* PRIVMSG.                                                                 *)
LEMMA MsgInv ==
    ASSUME Inv, NEW s \in Servers, NEW u \in Users, msg_channel(s, u)
    PROVE  Inv'
<1>1. PICK c \in Chans, text \in Texts :
        /\ Exists(chans[s][c])
        /\ Done(s, [Here(s) EXCEPT !.chan[c] =
                    can_send(@, u, Who(Here(s), c, u), c \in Reserved /\ ~ Oper(u), text)], queue)
  BY DEF msg_channel
<1> DEFINE k == chans[s][c]
           w == Who(Here(s), c, u)
           resv == c \in Reserved /\ ~ Oper(u)
           n == can_send(k, u, w, resv, text)
<1>2. Good(s, k, earned[c], ident) /\ Exists(k)
  BY <1>1, HereSound
<1>3. [Here(s) EXCEPT !.chan[c] = can_send(@, u, Who(Here(s), c, u), c \in Reserved /\ ~ Oper(u), text)]
        = [Here(s) EXCEPT !.chan[c] = n]
  <2>1. Here(s) \in Rooms /\ Here(s).chan = chans[s]
    BY HereSound
  <2> QED BY <2>1 DEF Rooms
<1>4. w.ident = ident[u] /\ Home[u] = s
  BY DEF Who, msg_channel, Command, Locals, MyConnect
<1> HIDE DEF w, resv
<1>5. Good(s, n, earned[c], ident) /\ Exists(n) /\ n.invites = k.invites
  BY <1>2, <1>4, GoodCanSend
<1>6. UNCHANGED <<known, net, linked, ident, now, earned, scene>>
  BY DEF msg_channel, Quiet
<1>7. QueueOK(queue, earned)
  BY DEF Inv
<1>8. Done(s, [Here(s) EXCEPT !.chan[c] = n], queue)
  BY <1>1, <1>3 DEF w, resv
<1> HIDE DEF n
<1> QED BY <1>5, <1>6, <1>7, <1>8, OneChannel

(* QUIT.                                                                    *)
LEMMA QuitInv ==
    ASSUME Inv, NEW s \in Servers, NEW u \in Users, m_quit(s, u)
    PROVE  Inv'
<1> DEFINE S == forget_users(s, Here(s), {u})
           q == sendto_server(queue, s, s, <<Quit(u)>>)
           kn == known[s] \ {u}
<1>1. Sound(s, Here(s), earned, ident, known[s]) /\ Earlier(earned, earned)
  BY HereSound
<1>2. Sound(s, S, earned, ident, kn) /\ Others(s, Here(s), S)
  BY <1>1, ForgetUsers
<1>3. QueueOK(q, earned)
  <2>1. <<Quit(u)>> \in Seq(Post(earned))
    BY Made, Single
  <2> QED BY <2>1, QueueSend DEF Inv
<1>4. Done(s, S, q) /\ UNCHANGED <<linked, ident, now, scene>> /\ earned' = earned
  BY DEF m_quit
<1>5. kn \in SUBSET Users /\ known' = [known EXCEPT ![s] = kn] /\ net' \in [Servers -> SUBSET Servers]
  BY DEF m_quit, Inv
<1> HIDE DEF S, q, kn
<1> QED BY <1>1, <1>2, <1>3, <1>4, <1>5, Handled

(* What earned becomes when us are made operators of cs under ts.           *)
EarnedBy(cs, us, ts) ==
    [c \in Chans |-> [u \in Users |->
        IF c \in cs /\ u \in us THEN Min2(earned[c][u], ts) ELSE earned[c][u]]]

(* It only goes down, and those who are made operators have it.             *)
LEMMA EarnFacts ==
    ASSUME Inv, NEW cs, NEW us, NEW ts \in Nat
    PROVE  LET e == EarnedBy(cs, us, ts)
           IN  /\ Earlier(e, earned)
               /\ \A c \in Chans, u \in Users : c \in cs /\ u \in us => ts >= e[c][u]
               /\ Earn(cs, us, ts) => earned' = e
<1> DEFINE e == EarnedBy(cs, us, ts)
<1>1. earned \in [Chans -> [Users -> Nat]]
  BY DEF Inv
<1>2. ASSUME NEW c \in Chans, NEW u \in Users
      PROVE  /\ e[c][u] \in Nat /\ e[c][u] <= earned[c][u]
             /\ c \in cs /\ u \in us => ts >= e[c][u]
  <2>1. earned[c][u] \in Nat
    BY <1>1
  <2>2. e[c][u] = IF c \in cs /\ u \in us THEN Min2(earned[c][u], ts) ELSE earned[c][u]
    BY DEF EarnedBy
  <2>3. Min2(earned[c][u], ts) = IF earned[c][u] < ts THEN earned[c][u] ELSE ts
    BY DEF Min2
  <2> HIDE DEF e
  <2> QED BY <2>1, <2>2, <2>3
<1>3. e = [c \in Chans |-> [u \in Users |-> e[c][u]]]
  BY DEF EarnedBy
<1>4. Earn(cs, us, ts) => earned' = e
  BY DEF Earn, EarnedBy
<1> HIDE DEF e
<1>5. e \in [Chans -> [Users -> Nat]]
  BY <1>2, <1>3
<1> QED BY <1>1, <1>2, <1>4, <1>5 DEF Earlier, e

(* A handler that made operators.                                           *)
LEMMA Granted ==
    ASSUME Inv, NEW s \in Servers, NEW c \in Chans, NEW us, NEW ts \in Nat, NEW n, NEW msgs,
           NEW e, e = EarnedBy({c}, us, ts), Good(s, n, e[c], ident), Exists(n),
           n.invites = chans[s][c].invites, msgs \in Seq(Post(e)),
           Done(s, [Here(s) EXCEPT !.chan[c] = n], sendto_server(queue, s, s, msgs)),
           Earn({c}, us, ts), UNCHANGED <<known, net, linked, ident, now, scene>>
    PROVE  Inv'
<1>1. Earlier(e, earned) /\ earned' = e
  BY EarnFacts
<1>2. /\ Sound(s, Here(s), earned, ident, known[s]) /\ Here(s).chan = chans[s]
      /\ Here(s).invited = invited
  BY HereSound
<1>3. Sound(s, Here(s), e, ident, known[s])
  BY <1>1, <1>2, SoundMono DEF Earlier
<1> DEFINE S == [Here(s) EXCEPT !.chan[c] = n]
           q == sendto_server(queue, s, s, msgs)
<1>4. Sound(s, S, e, ident, known[s]) /\ S.invited = Here(s).invited
  <2> DEFINE H == Here(s)
             T == [H EXCEPT !.chan[c] = n]
  <2>1. /\ Sound(s, H, e, ident, known[s]) /\ n.invites = H.chan[c].invites
        /\ Good(s, n, e[c], ident) /\ (Exists(n) \/ n.invites = {})
    BY <1>2, <1>3
  <2>2. T = S
    OBVIOUS
  <2> HIDE DEF H, S
  <2> DEFINE kn == known[s]
  <2> HIDE DEF kn
  <2>3. Sound(s, T, e, ident, kn) /\ T.invited = H.invited
    BY ONLY <2>1, SoundChan, c \in Chans DEF kn
  <2> QED BY <2>2, <2>3 DEF H, kn
<1>5. Others(s, Here(s), S)
  BY <1>4 DEF Others
<1>6. QueueOK(q, e)
  <2>1. QueueOK(queue, e)
    BY <1>1, QueueMono DEF Inv
  <2> QED BY <2>1, QueueSend DEF Inv
<1>7. Done(s, S, q)
  OBVIOUS
<1>8. /\ known[s] \in SUBSET Users /\ known' = [known EXCEPT ![s] = known[s]]
      /\ net' \in [Servers -> SUBSET Servers] /\ UNCHANGED <<linked, ident, now, scene>>
  BY DEF Inv
<1> HIDE DEF S, q
<1> QED BY <1>1, <1>4, <1>5, <1>6, <1>7, <1>8, Handled

(* MODE: whoever becomes operator is named in the line that tells of it.    *)
LEMMA ModeInv ==
    ASSUME Inv, NEW s \in Servers, NEW u \in Users, m_mode(s, u)
    PROVE  Inv'
<1>1. PICK c \in Chans, line \in scene.lines :
         LET k == chans[s][c]
             x == set_channel_mode(k, Source(k, u, TRUE), line.letters, line.args, known[s])
         IN  /\ Exists(k)
             /\ Done(s, [Here(s) EXCEPT !.chan[c] = x.chan],
                     sendto_server(queue, s, s, Tmodes(c, k.ts, x.changes)))
             /\ Earn({c}, Opped(x.changes), k.ts)
  BY DEF m_mode
<1> DEFINE k == chans[s][c]
           w == Source(k, u, TRUE)
           L == [dir : {"+", "-", "="}, letter : STRING]
           x == set_channel_mode(k, w, line.letters, line.args, known[s])
           n == x.chan
           us == Opped(x.changes)
           e == EarnedBy({c}, us, k.ts)
           msgs == Tmodes(c, k.ts, x.changes)
<1>2. line.letters \in Seq(L) /\ line.args \in Seq(Args)
  <2>1. scene \in Scenes
    BY DEF Inv
  <2> QED BY <2>1, SceneAssumption, Zenon
<1>3. \A m \in L : m.dir \in Directions
  BY DEF Directions
<1>4. Good(s, k, earned[c], ident) /\ k \in ChannelRecords /\ Exists(k)
  BY <1>1, HereSound
<1>5. k.ts \in Nat /\ DOMAIN k.members \subseteq Users
  BY <1>4, ChannelFacts
<1>6. /\ Done(s, [Here(s) EXCEPT !.chan[c] = n], sendto_server(queue, s, s, msgs))
      /\ Earn({c}, us, k.ts)
  BY <1>1
<1>7. UNCHANGED <<known, net, linked, ident, now, scene>>
  BY DEF m_mode, Quiet
<1> HIDE DEF w, L
<1>8. /\ x \in WalkRecords
      /\ SameRoom(k, x.chan) /\ CacheKept(k, x.chan)
      /\ \A v \in DOMAIN k.members :
            "o" \in x.chan.members[v] => "o" \in k.members[v] \/ v \in Opped(x.changes)
  <2> DEFINE letters == line.letters
             args == line.args
             y == set_channel_mode(k, w, letters, args, known[s])
  <2>1. letters \in Seq(L) /\ args \in Seq(Args)
    BY <1>2, Zenon
  <2> HIDE DEF letters, args
  <2>2. /\ y \in WalkRecords
        /\ SameRoom(k, y.chan) /\ CacheKept(k, y.chan)
        /\ \A v \in DOMAIN k.members :
              "o" \in y.chan.members[v] => "o" \in k.members[v] \/ v \in Opped(y.changes)
    BY <1>3, <1>4, <2>1, ModeWalk
  <2> QED BY <2>2 DEF letters, args
<1> HIDE DEF x
<1>9. x.changes \in Seq(Changes) /\ n \in ChannelRecords
  BY <1>8, WalkFacts
<1>10. /\ Earlier(e, earned)
       /\ \A d \in Chans, v \in Users : d \in {c} /\ v \in us => k.ts >= e[d][v]
  BY <1>5, EarnFacts
<1>11. e = EarnedBy({c}, us, k.ts)
  OBVIOUS
<1> HIDE DEF e
<1>12. Good(s, k, e[c], ident)
  <2>1. e[c] \in [Users -> Nat] /\ earned[c] \in [Users -> Nat] /\ \A v \in Users : e[c][v] <= earned[c][v]
    BY <1>10 DEF Earlier
  <2> QED BY <1>4, <2>1, GoodMono
<1>13. \A v \in DOMAIN k.members : "o" \in n.members[v] => "o" \in k.members[v] \/ k.ts >= e[c][v]
  BY <1>5, <1>8, <1>10
<1>14. Good(s, n, e[c], ident) /\ Exists(n) /\ n.invites = k.invites
  <2> HIDE DEF n
  <2>1. SameRoom(k, n) /\ CacheKept(k, n)
    BY <1>8 DEF n
  <2> QED BY <1>4, <1>9, <1>12, <1>13, <2>1, GoodModes
<1>15. msgs \in Seq(Post(e))
  <2>1. Earns(k.ts, x.changes, e[c])
    BY <1>10 DEF Earns
  <2> QED BY <1>5, <1>9, <2>1, MadeTmodes
<1> HIDE DEF n, us, msgs
<1> QED BY <1>5, <1>6, <1>7, <1>11, <1>14, <1>15, Granted

(* A change of one mode.                                                    *)
LEMMA MakeChange ==
    ASSUME NEW dir \in {"+", "-"}, NEW letter \in ModeLetters, NEW arg \in Args,
           arg # "" <=> Takes(letter, dir)
    PROVE  Change(dir, letter, arg) \in Changes /\ Change(dir, letter, arg).arg = arg
BY DEF Change, Changes

(* OPME.                                                                    *)
LEMMA OpmeInv ==
    ASSUME Inv, NEW s \in Servers, NEW u \in Users, mo_opme(s, u)
    PROVE  Inv'
<1>1. PICK c \in Channels(Here(s), u) :
         LET k == chans[s][c]
         IN  /\ Done(s, [Here(s) EXCEPT !.chan[c].members[u] = @ \cup {"o"}],
                     sendto_server(queue, s, s, <<Tmode(c, k.ts, <<Change("+", "o", u)>>)>>))
             /\ Earn({c}, {u}, k.ts)
  BY DEF mo_opme
<1> DEFINE k == chans[s][c]
           fl == k.members[u] \cup {"o"}
           n == [k EXCEPT !.members[u] = fl]
           us == {u}
           e == EarnedBy({c}, us, k.ts)
           line == <<Change("+", "o", u)>>
           msgs == <<Tmode(c, k.ts, line)>>
<1>2. c \in Chans /\ u \in DOMAIN k.members
  BY DEF Channels, Here, IsMember
<1>3. Good(s, k, earned[c], ident) /\ k \in ChannelRecords /\ Exists(k)
  BY <1>2, HereSound DEF Exists
<1>4. k.ts \in Nat /\ DOMAIN k.members \subseteq Users
  BY <1>3, ChannelFacts
<1>5. [Here(s) EXCEPT !.chan[c].members[u] = @ \cup {"o"}] = [Here(s) EXCEPT !.chan[c] = n]
  <2>1. Here(s) \in Rooms /\ Here(s).chan = chans[s]
    BY HereSound
  <2>2. [Here(s) EXCEPT !.chan[c].members[u] = @ \cup {"o"}]
          = [Here(s) EXCEPT !.chan[c].members[u] = fl]
    BY <1>2, <2>1 DEF Rooms
  <2> HIDE DEF fl
  <2>3. [Here(s) EXCEPT !.chan[c].members[u] = fl] = [Here(s) EXCEPT !.chan[c] = n]
    BY <1>2, <2>1 DEF Rooms
  <2> QED BY <2>2, <2>3
<1>6. /\ Done(s, [Here(s) EXCEPT !.chan[c] = n], sendto_server(queue, s, s, msgs))
      /\ Earn({c}, us, k.ts)
  BY <1>1, <1>5
<1>7. UNCHANGED <<known, net, linked, ident, now, scene>>
  BY DEF mo_opme, Quiet
<1>8. /\ n \in ChannelRecords /\ SameRoom(k, n) /\ CacheKept(k, n)
      /\ \A v \in DOMAIN k.members : "o" \in n.members[v] => "o" \in k.members[v] \/ v = u
  <2>1. "o" \in Status
    BY DEF Status
  <2>2. fl = k.members[u] \cup {"o"}
    OBVIOUS
  <2> DEFINE letter == "o"
  <2>3. letter \in Status /\ (fl = k.members[u] \cup {letter} \/ fl = k.members[u] \ {letter})
    BY <2>1, <2>2
  <2> HIDE DEF fl, letter
  <2>4. /\ n \in ChannelRecords /\ SameRoom(k, n) /\ CacheKept(k, n)
        /\ \A v \in DOMAIN k.members :
                    "o" \in n.members[v] => \/ "o" \in k.members[v]
                                            \/ v = u /\ letter = "o" /\ fl = k.members[u] \cup {letter}
    BY <1>2, <1>3, <2>3, StatusChange
  <2> QED BY <2>4
<1> HIDE DEF n
<1>10. /\ Earlier(e, earned)
       /\ \A d \in Chans, v \in Users : d \in {c} /\ v \in us => k.ts >= e[d][v]
  BY <1>4, EarnFacts
<1>11. e = EarnedBy({c}, us, k.ts)
  OBVIOUS
<1> HIDE DEF e
<1>12. Good(s, k, e[c], ident)
  <2>1. e[c] \in [Users -> Nat] /\ earned[c] \in [Users -> Nat] /\ \A v \in Users : e[c][v] <= earned[c][v]
    BY <1>2, <1>10 DEF Earlier
  <2> QED BY <1>3, <2>1, GoodMono
<1>13. \A v \in DOMAIN k.members : "o" \in n.members[v] => "o" \in k.members[v] \/ k.ts >= e[c][v]
  BY <1>2, <1>4, <1>8, <1>10
<1>14. Good(s, n, e[c], ident) /\ Exists(n) /\ n.invites = k.invites
  BY <1>3, <1>8, <1>12, <1>13, GoodModes
<1>15. msgs \in Seq(Post(e))
  <2> DEFINE ch == Change("+", "o", u)
  <2>1. ch \in Changes /\ ch.arg = u
    <3>1. u \in Args /\ u # ""
      BY ModesAssumption
    <3>2. "o" \in ModeLetters /\ Takes("o", "+") /\ "+" \in {"+", "-"}
      BY DEF ModeLetters, Takes, Status
    <3> QED BY <3>1, <3>2, MakeChange
  <2> HIDE DEF ch
  <2>2. line = <<ch>>
    BY DEF ch
  <2>3. line \in Seq(Changes)
    BY <2>1, <2>2, Single
  <2>4. Opped(line) \subseteq {u}
    BY <2>1, <2>2 DEF Opped
  <2> HIDE DEF line
  <2>5. Earns(k.ts, line, e[c])
    BY <1>2, <1>10, <2>4 DEF Earns
  <2> DEFINE m == Tmode(c, k.ts, line)
  <2>6. m \in Post(e)
    BY <1>2, <1>4, <2>3, <2>5, MadeTmode
  <2> HIDE DEF m
  <2>7. <<m>> \in Seq(Post(e))
    BY <2>6, Single
  <2> QED BY <2>7 DEF m
<1> HIDE DEF us, msgs
<1> QED BY <1>2, <1>4, <1>6, <1>7, <1>11, <1>14, <1>15, Granted

(* A user gets another name: the server of the user forgets what it cached. *)
LEMMA IdentInv ==
    ASSUME Inv, NEW s \in Servers, NEW u \in Users, change_ident(s, u)
    PROVE  Inv'
<1>1. PICK i \in NewIdents : ident' = [ident EXCEPT ![u] = i]
  BY DEF change_ident
<1>2. ident \in [Users -> Idents \cup NewIdents] /\ Home[u] = s
  BY DEF Inv, change_ident, Command, Locals, MyConnect
<1>3. ident' \in [Users -> Idents \cup NewIdents] /\ \A v \in Users \ {u} : ident'[v] = ident[v]
  BY <1>1, <1>2
<1> DEFINE ch == [c \in Chans |-> clear_ban_cache_client(chans[s][c], u)]
<1>4. chans \in [Servers -> [Chans -> ChannelRecords]]
  BY DEF Inv
<1>5. chans' = [chans EXCEPT ![s] = ch]
  BY <1>4 DEF change_ident
<1>6. UNCHANGED <<invited, queue, known, net, linked, now, earned, scene>>
  BY DEF change_ident
<1>7. ASSUME NEW c \in Chans
      PROVE  /\ Good(s, ch[c], earned[c], ident') /\ ch[c] \in ChannelRecords
             /\ ch[c].invites = chans[s][c].invites /\ (Exists(ch[c]) <=> Exists(chans[s][c]))
  <2>1. Good(s, chans[s][c], earned[c], ident)
    BY HereSound
  <2> DEFINE k == chans[s][c]
             new == ident'
             n == clear_ban_cache_client(k, u)
  <2>2. ch[c] = n
    OBVIOUS
  <2>3. Good(s, k, earned[c], ident) /\ \A v \in Users \ {u} : new[v] = ident[v]
    BY <1>3, <2>1
  <2> HIDE DEF ch, k, new
  <2>4. Good(s, n, earned[c], new) /\ n.invites = k.invites /\ (Exists(n) <=> Exists(k))
    <3> DEFINE e == earned[c]
    <3>1. Good(s, k, e, ident)
      BY <2>3
    <3> HIDE DEF e
    <3>2. \A v \in Users \ {u} : new[v] = ident[v]
      BY <2>3
    <3>3. Good(s, n, e, new)
      BY ONLY <3>1, <3>2, GoodIdent
    <3>4. n.invites = k.invites
      BY ONLY <3>1, <3>2, GoodIdent
    <3>5. Exists(n) <=> Exists(k)
      BY ONLY <3>1, <3>2, GoodIdent
    <3> QED BY <3>3, <3>4, <3>5 DEF e
  <2> QED BY <2>2, <2>4 DEF Good, k, new
<1>8. ch \in [Chans -> ChannelRecords]
  <2>1. ch = [c \in Chans |-> ch[c]]
    OBVIOUS
  <2> HIDE DEF ch
  <2> QED BY <1>7, <2>1
<1> HIDE DEF ch
<1>9. /\ chans' \in [Servers -> [Chans -> ChannelRecords]]
      /\ \A t \in Servers : chans'[t] = IF t = s THEN ch ELSE chans[t]
  BY <1>4, <1>5, <1>8
<1>10. ASSUME NEW t \in Servers
       PROVE  Sound(t, [chan |-> chans'[t], invited |-> invited], earned, ident', known[t])
  <2> DEFINE S == Here(t)
             V == [chan |-> chans'[t], invited |-> invited]
  <2>1. /\ Sound(t, S, earned, ident, known[t]) /\ S.chan = chans[t] /\ S.invited = invited
        /\ \A c \in Chans : Good(t, chans[t][c], earned[c], ident)
    BY HereSound
  <2>2. S.invited \in [Users -> Seq(Chans)]
    BY <2>1, RoomFacts DEF Sound
  <2>3. chans'[t] \in [Chans -> ChannelRecords] /\ invited \in [Users -> Seq(Chans)]
    BY <1>9, <2>1, <2>2
  <2>4. V \in Rooms /\ V.chan = chans'[t] /\ V.invited = invited
    BY <2>3, MakeRooms
  <2>5. ASSUME NEW c \in Chans
        PROVE  /\ Good(t, chans'[t][c], earned[c], ident')
               /\ chans'[t][c].invites = chans[t][c].invites
               /\ Exists(chans'[t][c]) <=> Exists(chans[t][c])
    <3>1. CASE t = s
      BY <1>7, <1>9, <3>1
    <3>2. CASE t # s
      <4>1. chans'[t] = chans[t] /\ Home[u] # t
        BY <1>2, <1>9, <3>2
      <4>2. Good(t, chans[t][c], earned[c], ident')
        BY <1>3, <2>1, <4>1, GoodIdent
      <4> QED BY <4>1, <4>2
    <3> QED BY <3>1, <3>2
  <2> HIDE DEF S, V
  <2>6. Matched(t, V)
    BY <2>1, <2>4, <2>5 DEF Sound, Matched
  <2>7. Guests(t, V, known[t])
    BY <2>1, <2>4, <2>5 DEF Sound, Guests
  <2>8. (\A c \in Chans : Good(t, V.chan[c], earned[c], ident')) /\ \A v \in Users : Bounded(V.invited[v])
    BY <2>1, <2>4, <2>5 DEF Sound
  <2>9. Sound(t, V, earned, ident', known[t])
    BY <2>4, <2>6, <2>7, <2>8 DEF Sound
  <2> QED BY <2>9 DEF V
<1>11. World(chans', invited', known', earned', ident')
  BY <1>6, <1>10 DEF World
<1>12. QueueOK(queue', earned')
  BY <1>6 DEF Inv
<1> QED BY <1>3, <1>6, <1>9, <1>11, <1>12 DEF Inv

(* Those who were made operators of more channels have earned it earlier.   *)
LEMMA EarnMono ==
    ASSUME Inv, NEW a, NEW b, a \subseteq b, NEW us, NEW ts \in Nat
    PROVE  Earlier(EarnedBy(b, us, ts), EarnedBy(a, us, ts))
<1> DEFINE d == EarnedBy(b, us, ts)
           e == EarnedBy(a, us, ts)
<1>1. Earlier(d, earned) /\ Earlier(e, earned)
  BY EarnFacts
<1>2. ASSUME NEW c \in Chans, NEW u \in Users PROVE d[c][u] <= e[c][u]
  <2>1. earned[c][u] \in Nat
    BY DEF Inv
  <2>2. d[c][u] = IF c \in b /\ u \in us THEN Min2(earned[c][u], ts) ELSE earned[c][u]
    BY DEF EarnedBy
  <2>3. e[c][u] = IF c \in a /\ u \in us THEN Min2(earned[c][u], ts) ELSE earned[c][u]
    BY DEF EarnedBy
  <2>4. Min2(earned[c][u], ts) = IF earned[c][u] < ts THEN earned[c][u] ELSE ts
    BY DEF Min2
  <2> HIDE DEF d, e
  <2> QED BY <2>1, <2>2, <2>3, <2>4
<1> HIDE DEF d, e
<1>3. Earlier(d, e)
  BY <1>1, <1>2 DEF Earlier
<1> QED BY <1>3 DEF d, e

(* What channel_do_join() has done for user u so far.                       *)
Told(u) == UNION {Post(EarnedBy(cs, {u}, now)) : cs \in SUBSET Chans}
JoinRecords(u) == [S : Rooms, out : Seq(Told(u)), made : SUBSET Chans, stop : BOOLEAN]
Joined(s, u, x) ==
    /\ Sound(s, x.S, EarnedBy(x.made, {u}, now), ident, known[s])
    /\ Others(s, Here(s), x.S)
    /\ x.out \in Seq(Post(EarnedBy(x.made, {u}, now)))
Joins(s, u) == {x \in JoinRecords(u) : Joined(s, u, x)}

(* A record with these fields.                                              *)
LEMMA MakeJoin ==
    ASSUME NEW s, NEW u \in Users, NEW S, NEW out, NEW made \in SUBSET Chans, NEW stop \in BOOLEAN,
           Sound(s, S, EarnedBy(made, {u}, now), ident, known[s]), Others(s, Here(s), S),
           out \in Seq(Post(EarnedBy(made, {u}, now)))
    PROVE  [S |-> S, out |-> out, made |-> made, stop |-> stop] \in Joins(s, u)
<1> DEFINE x == [S |-> S, out |-> out, made |-> made, stop |-> stop]
           B == Seq(Told(u))
<1>1. S \in Rooms
  BY DEF Sound
<1>2. out \in B
  <2>1. Post(EarnedBy(made, {u}, now)) \subseteq Told(u)
    BY DEF Told
  <2> QED BY <2>1, SeqMono
<1> HIDE DEF B
<1>3. x \in [S : Rooms, out : B, made : SUBSET Chans, stop : BOOLEAN]
  BY <1>1, <1>2
<1>4. x \in JoinRecords(u)
  BY <1>3 DEF JoinRecords, B
<1>5. x.S = S /\ x.out = out /\ x.made = made
  OBVIOUS
<1> HIDE DEF x
<1>6. Joined(s, u, x)
  BY <1>5 DEF Joined
<1>7. x \in Joins(s, u)
  BY <1>4, <1>6 DEF Joins
<1> QED BY <1>7 DEF x

(* The fields.                                                              *)
LEMMA JoinFields ==
    ASSUME NEW s, NEW u, NEW x \in Joins(s, u)
    PROVE  /\ x.made \in SUBSET Chans /\ x.stop \in BOOLEAN
           /\ Sound(s, x.S, EarnedBy(x.made, {u}, now), ident, known[s])
           /\ Others(s, Here(s), x.S)
           /\ x.out \in Seq(Post(EarnedBy(x.made, {u}, now)))
<1>1. x \in JoinRecords(u) /\ Joined(s, u, x)
  BY DEF Joins
<1> DEFINE B == Seq(Told(u))
           D == BOOLEAN
<1>2. x \in [S : Rooms, out : B, made : SUBSET Chans, stop : D]
  BY <1>1 DEF JoinRecords
<1> HIDE DEF B, D
<1>3. x.made \in SUBSET Chans /\ x.stop \in D
  BY <1>2
<1>4. /\ Sound(s, x.S, EarnedBy(x.made, {u}, now), ident, known[s])
      /\ Others(s, Here(s), x.S)
      /\ x.out \in Seq(Post(EarnedBy(x.made, {u}, now)))
  BY <1>1 DEF Joined
<1> QED BY ONLY <1>3, <1>4 DEF D

(* ERR_TOOMANYCHANNELS.                                                     *)
LEMMA JoinStops ==
    ASSUME NEW s, NEW u \in Users, NEW x \in Joins(s, u)
    PROVE  [x EXCEPT !.stop = TRUE] \in Joins(s, u)
<1>1. x \in JoinRecords(u) /\ Joined(s, u, x)
  BY DEF Joins
<1> DEFINE B == Seq(Told(u))
           D == BOOLEAN
           yes == TRUE
           y == [x EXCEPT !.stop = yes]
<1>2. x \in [S : Rooms, out : B, made : SUBSET Chans, stop : D]
  BY <1>1 DEF JoinRecords
<1>3. yes \in D
  OBVIOUS
<1> HIDE DEF B, D, yes
<1>4. /\ y \in [S : Rooms, out : B, made : SUBSET Chans, stop : D]
      /\ y.S = x.S /\ y.out = x.out /\ y.made = x.made
  BY <1>2, <1>3
<1> HIDE DEF y
<1>5. y \in JoinRecords(u)
  BY ONLY <1>4 DEF JoinRecords, B, D
<1>6. Joined(s, u, y)
  BY <1>1, <1>4 DEF Joined
<1>7. y \in Joins(s, u)
  BY <1>5, <1>6 DEF Joins
<1> QED BY <1>7 DEF y, yes

(* The channel a user makes by joining it: the user is its operator.        *)
LEMMA NewChannel ==
    ASSUME NEW s, NEW u \in Users, NEW e, NEW id, NEW ts \in Nat, ts > 0, ts >= e[u]
    PROVE  LET n == [add_user_to_channel(NoChannel, u, {"o"}) EXCEPT !.ts = ts, !.mode = {"n", "t"}]
           IN  Good(s, n, e, id) /\ Exists(n) /\ n.invites = {}
<1> DEFINE fl == {"o"}
           mode == {"n", "t"}
           a == add_user_to_channel(NoChannel, u, fl)
           n == [a EXCEPT !.ts = ts, !.mode = mode]
<1>1. fl \in SUBSET MemberFlags /\ fl \cap BanCache = {} /\ mode \in SUBSET ChanModes
  BY DEF MemberFlags, Status, BanCache, ChanModes, SimpleModes
<1> HIDE DEF fl, mode
<1>2. NoChannel \in ChannelRecords /\ DOMAIN NoChannel.members = {} /\ NoChannel.invites = {}
  BY NoChannelFacts
<1>3. /\ a \in ChannelRecords
      /\ DOMAIN a.members = DOMAIN NoChannel.members \cup {u}
      /\ \A v \in DOMAIN a.members : a.members[v] = IF v = u THEN fl ELSE NoChannel.members[v]
      /\ a.invites = NoChannel.invites
  BY <1>1, <1>2, AddUser
<1> HIDE DEF a
<1>4. n \in ChannelRecords /\ n.members = a.members /\ n.ts = ts /\ n.invites = a.invites
  BY <1>1, <1>3 DEF ChannelRecords, ChannelsOf
<1> HIDE DEF n
<1>5. DOMAIN n.members = {u} /\ n.members[u] = fl
  BY <1>2, <1>3, <1>4
<1>6. Exists(n) /\ Dated(n)
  BY <1>4, <1>5 DEF Exists, Dated
<1>7. Lawful(n, e)
  BY <1>4, <1>5 DEF Lawful
<1>8. Fresh(s, n, id)
  BY <1>1, <1>5 DEF Fresh, CacheRight
<1>9. Good(s, n, e, id) /\ Exists(n) /\ n.invites = {}
  BY <1>2, <1>3, <1>4, <1>6, <1>7, <1>8 DEF Good
<1> QED BY <1>9 DEF n, a, fl, mode

(* One channel of a JOIN.                                                   *)
LEMMA JoinOne ==
    ASSUME Inv, NEW s \in Servers, NEW u \in Users, Home[u] = s, NEW x \in Joins(s, u),
           NEW c \in Chans, NEW key
    PROVE  join_one(s, u, x, c, key) \in Joins(s, u)
<1> DEFINE k == x.S.chan[c]
           e == EarnedBy(x.made, {u}, now)
           made == IF Exists(k) THEN x.made ELSE x.made \cup {c}
           d == EarnedBy(made, {u}, now)
           joined ==
            IF Exists(k) THEN add_user_to_channel(k, u, {})
            ELSE [add_user_to_channel(NoChannel, u, {"o"})
                    EXCEPT !.ts = now, !.mode = {"n", "t"}]
           modes == [zero |-> FALSE, mode |-> {"n", "t"}, limit |-> 0, key |-> ""]
           nicks == [v \in {u} |-> {"o"}]
           told == IF Exists(k) THEN Join(u, c, k.ts) ELSE Sjoin(c, now, modes, nicks)
           V == [x.S EXCEPT !.chan[c] = joined]
           W == del_invite(V, c, u)
           y == [S |-> W, out |-> Append(x.out, told), made |-> made, stop |-> x.stop]
<1>1. \/ join_one(s, u, x, c, key) = x
      \/ join_one(s, u, x, c, key) = [x EXCEPT !.stop = TRUE]
      \/ join_one(s, u, x, c, key) = y
  BY DEF join_one
<1>2. /\ x.made \in SUBSET Chans /\ x.stop \in BOOLEAN
      /\ Sound(s, x.S, e, ident, known[s]) /\ Others(s, Here(s), x.S)
      /\ x.out \in Seq(Post(e))
  BY ONLY x \in Joins(s, u), JoinFields
<1>3. [x EXCEPT !.stop = TRUE] \in Joins(s, u)
  BY ONLY x \in Joins(s, u), u \in Users, JoinStops
<1>4. now \in Nat /\ now > 0
  BY DEF Inv
<1>5. made \in SUBSET Chans /\ x.made \subseteq made
  BY <1>2
<1>6. Earlier(d, e)
  <2> HIDE DEF made
  <2> QED BY <1>4, <1>5, EarnMono
<1>7. Earlier(d, earned) /\ \A g \in Chans, v \in Users : g \in made /\ v \in {u} => now >= d[g][v]
  <2> HIDE DEF made
  <2> QED BY <1>4, EarnFacts
<1>8. /\ Sound(s, x.S, d, ident, known[s]) /\ x.out \in Seq(Post(d))
  <2>1. Sound(s, x.S, d, ident, known[s])
    <3> HIDE DEF d, e
    <3> QED BY <1>2, <1>6, SoundMono DEF Earlier
  <2>2. Post(e) \subseteq Post(d)
    <3> HIDE DEF d, e
    <3> QED BY <1>6, PostMono
  <2> DEFINE out == x.out
  <2>3. out \in Seq(Post(e))
    BY <1>2
  <2> HIDE DEF d, e, out
  <2>4. out \in Seq(Post(d))
    BY ONLY <2>2, <2>3, SeqMono
  <2> QED BY <2>1, <2>4 DEF out
<1> HIDE DEF d, e
<1>9. k \in ChannelRecords /\ Good(s, k, d[c], ident)
  BY <1>8 DEF Sound, Good
<1>10. /\ Good(s, joined, d[c], ident) /\ Exists(joined) /\ joined.invites = k.invites
       /\ told \in Post(d)
  <2>1. CASE Exists(k)
    <3>1. LET n == add_user_to_channel(k, u, {})
          IN  Good(s, n, d[c], ident) /\ Exists(n) /\ n.invites = k.invites
      <4> HIDE DEF k
      <4> QED BY <1>9, <2>1, GoodAdd
    <3>2. k.ts \in Nat \ {0}
      <4>1. k.ts \in Nat /\ k.ts > 0
        BY <1>9, <2>1, ChannelFacts DEF Good, Dated
      <4> QED BY <4>1
    <3>3. Join(u, c, k.ts) \in Post(d)
      BY <3>2, Made
    <3>4. joined = add_user_to_channel(k, u, {}) /\ told = Join(u, c, k.ts)
      BY <2>1
    <3> HIDE DEF joined, told, k
    <3> QED BY <3>1, <3>3, <3>4
  <2>2. CASE ~ Exists(k)
    <3>1. now >= d[c][u]
      BY <1>7, <2>2
    <3>2. LET n == [add_user_to_channel(NoChannel, u, {"o"}) EXCEPT !.ts = now, !.mode = {"n", "t"}]
          IN  Good(s, n, d[c], ident) /\ Exists(n) /\ n.invites = {}
      BY <1>4, <3>1, NewChannel
    <3>3. k.invites = {}
      BY <1>9, <2>2, NoChannelFacts DEF Good, Dated
    <3>4. Sjoin(c, now, modes, nicks) \in Post(d)
      <4>1. modes \in Burst
        <5> DEFINE mode == {"n", "t"}
        <5>1. mode \in SUBSET ChanModes /\ "" \in Args
          BY ModesAssumption DEF ChanModes, SimpleModes
        <5>2. 0 \in Int /\ FALSE \in BOOLEAN
          OBVIOUS
        <5>3. modes = [zero |-> FALSE, mode |-> mode, limit |-> 0, key |-> ""]
          OBVIOUS
        <5> HIDE DEF modes, mode
        <5> QED BY <5>1, <5>2, <5>3 DEF Burst
      <4>2. nicks \in Members
        <5>1. DOMAIN nicks \in SUBSET Users /\ nicks \in [DOMAIN nicks -> SUBSET MemberFlags]
          BY DEF MemberFlags, Status
        <5> QED BY <5>1, MembersFacts
      <4>3. Backed(now, nicks, d[c])
        BY <3>1 DEF Backed, Status
      <4> HIDE DEF modes, nicks
      <4> QED BY <1>4, <4>1, <4>2, <4>3, MadeSjoin
    <3>5. /\ joined = [add_user_to_channel(NoChannel, u, {"o"}) EXCEPT !.ts = now, !.mode = {"n", "t"}]
          /\ told = Sjoin(c, now, modes, nicks)
      BY <2>2
    <3> HIDE DEF joined, told, k, modes, nicks
    <3> QED BY <3>2, <3>3, <3>4, <3>5
  <2> QED BY <2>1, <2>2
<1>11. k = x.S.chan[c]
  OBVIOUS
<1> HIDE DEF joined, told, k
<1>12. Sound(s, V, d, ident, known[s]) /\ V.invited = x.S.invited
  <2> DEFINE H == x.S
             T == [H EXCEPT !.chan[c] = joined]
             kn == known[s]
  <2>1. /\ Sound(s, H, d, ident, kn) /\ joined.invites = H.chan[c].invites
        /\ Good(s, joined, d[c], ident) /\ (Exists(joined) \/ joined.invites = {})
    BY <1>8, <1>10, <1>11
  <2>2. T = V
    OBVIOUS
  <2> HIDE DEF H, V, kn
  <2>3. Sound(s, T, d, ident, kn) /\ T.invited = H.invited
    BY ONLY <2>1, SoundChan, c \in Chans
  <2> QED BY <2>2, <2>3 DEF H, kn
<1> HIDE DEF V
<1>13. Sound(s, W, d, ident, known[s]) /\ Others(s, V, W)
  BY <1>12, DelInvite
<1> HIDE DEF W
<1>14. Others(s, Here(s), W)
  BY <1>2, <1>12, <1>13 DEF Others
<1> DEFINE out == Append(x.out, told)
<1>15. out \in Seq(Post(d))
  BY <1>8, <1>10
<1>16. y = [S |-> W, out |-> out, made |-> made, stop |-> x.stop]
  OBVIOUS
<1>17. d = EarnedBy(made, {u}, now)
  BY DEF d
<1> HIDE DEF out, made, y
<1>18. y \in Joins(s, u)
  BY <1>2, <1>5, <1>13, <1>14, <1>15, <1>16, <1>17, MakeJoin
<1> QED BY <1>1, <1>3, <1>18 DEF y, W, V, out

(* Numbers up to n have a greatest one.                                     *)
LEMMA GreatestNumber ==
    ASSUME NEW n \in Nat, NEW T \in SUBSET (1 .. n), T # {}
    PROVE  Max(T) \in T /\ \A y \in T : Max(T) >= y
<1> DEFINE R == {i \in Nat : n - i \in T}
<1>1. R \in SUBSET Nat /\ R # {}
  <2>1. PICK y : y \in T
    OBVIOUS
  <2>2. n - y \in Nat /\ n - (n - y) = y
    BY <2>1
  <2> QED BY <2>1, <2>2
<1>2. PICK i \in R : \A j \in R : i <= j
  BY <1>1, LeastNumber
<1>3. n - i \in T /\ i \in Nat
  OBVIOUS
<1>4. ASSUME NEW y \in T PROVE n - i >= y
  <2>1. y \in 1 .. n
    OBVIOUS
  <2>2. n - y \in Nat /\ n - (n - y) = y
    BY <2>1
  <2>3. n - y \in R
    BY <2>2
  <2>4. i <= n - y
    BY <1>2, <2>3
  <2> QED BY <1>3, <2>1, <2>4
<1>5. \E x \in T : \A y \in T : x >= y
  BY <1>3, <1>4
<1> QED BY <1>5 DEF Max

(* What SubSeq() takes off the front of a list.                             *)
LEMMA Behind ==
    ASSUME NEW E, NEW q \in Seq(E), NEW z \in 0 .. Len(q)
    PROVE  LET rest == SubSeq(q, z + 1, Len(q))
           IN  /\ rest \in Seq(E) /\ Len(rest) = Len(q) - z
               /\ \A i \in 1 .. Len(rest) : rest[i] = q[z + i]
<1> DEFINE n == Len(q)
           rest == SubSeq(q, z + 1, n)
<1>1. n \in Nat /\ z \in Nat /\ z <= n /\ \A i \in 1 .. n : q[i] \in E
  OBVIOUS
<1>2. rest = [i \in 1 .. n - z |-> q[z + i]]
  BY <1>1
<1> HIDE DEF n
<1>3. \A i \in 1 .. n - z : z + i \in 1 .. n
  BY <1>1
<1>4. [i \in 1 .. n - z |-> q[z + i]] \in Seq(E)
  BY <1>1, <1>3
<1>5. Len([i \in 1 .. n - z |-> q[z + i]]) = n - z
  BY <1>1
<1> HIDE DEF rest
<1> QED BY <1>2, <1>4, <1>5 DEF rest, n

(* channel_find_last0(): behind the last "0" stand channels.                *)
LEMMA LastZero ==
    ASSUME NEW K, NEW list \in Seq([chan : Chans \cup {"0"}, key : K])
    PROVE  LET z == channel_find_last0(list)
               rest == SubSeq(list, z + 1, Len(list))
           IN  /\ rest \in Seq([chan : Chans \cup {"0"}, key : K])
               /\ \A i \in 1 .. Len(rest) : rest[i].chan \in Chans
<1> DEFINE E == [chan : Chans \cup {"0"}, key : K]
           zeros == {i \in DOMAIN list : list[i].chan = "0"}
           z == channel_find_last0(list)
           n == Len(list)
           rest == SubSeq(list, z + 1, n)
<1>0. \A m \in E : m.chan # "0" => m.chan \in Chans
  OBVIOUS
<1>1. list \in Seq(E)
  OBVIOUS
<1> HIDE DEF E
<1>2. n \in Nat /\ DOMAIN list = 1 .. n /\ \A i \in 1 .. n : list[i] \in E
  BY ONLY <1>1
<1>3. z = IF zeros = {} THEN 0 ELSE Max(zeros)
  BY DEF channel_find_last0
<1>4. zeros \in SUBSET (1 .. n)
  BY ONLY <1>2
<1>5. \A i \in 1 .. n : i \notin zeros => list[i].chan \in Chans
  BY ONLY <1>0, <1>2
<1> HIDE DEF zeros, z
<1>6. z \in 0 .. n /\ \A i \in zeros : i <= z
  <2>0. n \in Nat
    BY <1>2
  <2> HIDE DEF n
  <2>1. CASE zeros = {}
    BY ONLY <2>0, <1>3, <2>1
  <2>2. CASE zeros # {}
    <3>1. Max(zeros) \in zeros /\ \A y \in zeros : Max(zeros) >= y
      BY ONLY <2>0, <1>4, <2>2, GreatestNumber
    <3>2. z \in zeros /\ \A y \in zeros : z >= y
      BY ONLY <1>3, <2>2, <3>1
    <3> QED BY ONLY <2>0, <1>4, <3>2
  <2> QED BY <2>1, <2>2
<1>8. rest \in Seq(E) /\ Len(rest) = n - z /\ \A i \in 1 .. Len(rest) : rest[i] = list[z + i]
  BY ONLY <1>1, <1>6, Behind
<1> HIDE DEF rest
<1>9. ASSUME NEW i \in 1 .. Len(rest) PROVE rest[i].chan \in Chans
  <2>0. n \in Nat
    BY <1>2
  <2> HIDE DEF n
  <2>1. z + i \in 1 .. n /\ ~ (z + i <= z)
    BY ONLY <2>0, <1>6, <1>8, i \in 1 .. Len(rest)
  <2>2. z + i \notin zeros
    BY <1>6, <2>1
  <2> QED BY <1>5, <1>8, <2>1, <2>2
<1> QED BY <1>8, <1>9 DEF rest, z, n, E

(* channel_do_join(), for a list of any length.                             *)
LEMMA DoJoin ==
    ASSUME Inv, NEW s \in Servers, NEW u \in Users, Home[u] = s,
           NEW list \in Seq([chan : Chans \cup {"0"}, key : Args])
    PROVE  channel_do_join(s, u, list) \in Joins(s, u)
<1> DEFINE z == channel_find_last0(list)
           zero == IF z = 0 THEN [S |-> Here(s), out |-> <<>>]
                   ELSE channel_do_join_0(Here(s), u)
           start == [S |-> zero.S, out |-> zero.out, made |-> {}, stop |-> FALSE]
           rest == SubSeq(list, z + 1, Len(list))
           n == Len(rest)
           X == Joins(s, u)
           F == [i \in 1 .. n |-> [y \in X |-> join_one(s, u, y, rest[i].chan, rest[i].key)]]
           Def(k) == k = [i \in 0 .. n |->
                            IF i = 0 THEN start
                            ELSE join_one(s, u, k[i - 1], rest[i].chan, rest[i].key)]
           x == CHOOSE k : Def(k)
<1>1. channel_do_join(s, u, list) = x[n]
  BY DEF channel_do_join
<1>2. /\ rest \in Seq([chan : Chans \cup {"0"}, key : Args])
      /\ \A i \in 1 .. Len(rest) : rest[i].chan \in Chans
  BY LastZero
<1>3. n \in Nat /\ \A i \in 1 .. n : rest[i].chan \in Chans
  BY <1>2
<1>4. start \in X
  <2> DEFINE e == EarnedBy({}, {u}, now)
  <2>1. now \in Nat
    BY DEF Inv
  <2>2. Earlier(e, earned)
    BY <2>1, EarnFacts
  <2>3. Sound(s, Here(s), earned, ident, known[s]) /\ Others(s, Here(s), Here(s))
    BY HereSound
  <2>4. Sound(s, zero.S, earned, ident, known[s]) /\ Others(s, Here(s), zero.S)
        /\ zero.out \in Seq(Post(e))
    <3>1. CASE z = 0
      <4>1. zero.S = Here(s) /\ zero.out = <<>>
        BY <3>1
      <4>2. <<>> \in Seq(Post(e))
        OBVIOUS
      <4> HIDE DEF zero, e
      <4> QED BY <2>3, <4>1, <4>2
    <3>2. CASE z # 0
      <4> DEFINE C == Channels(Here(s), u)
                 parted == SetToSeq(C)
                 T == leave_channels(Here(s), {u})
                 out == [i \in DOMAIN parted |-> Part(u, parted[i])]
      <4>1. zero.S = T /\ zero.out = out
        BY <3>2 DEF channel_do_join_0
      <4>2. Sound(s, T, earned, ident, known[s]) /\ Others(s, Here(s), T)
        BY <2>3, LeaveChannels
      <4>3. C \subseteq Chans
        BY DEF Channels
      <4> HIDE DEF C, T
      <4>4. IsFiniteSet(C)
        BY <4>3, ChannelAssumption, FS_Subset
      <4>5. parted \in Seq(C)
        BY <4>4, SetList
      <4> HIDE DEF parted
      <4>6. Len(parted) \in Nat /\ DOMAIN parted = 1 .. Len(parted)
            /\ \A i \in DOMAIN parted : parted[i] \in Chans
        BY <4>3, <4>5
      <4>7. \A i \in DOMAIN parted : Part(u, parted[i]) \in Post(e)
        <5> HIDE DEF e
        <5> QED BY <4>6, Made
      <4>8. out \in [1 .. Len(parted) -> Post(e)]
        <5> HIDE DEF e
        <5> QED BY <4>6, <4>7
      <4> HIDE DEF out, zero, e
      <4>9. out \in Seq(Post(e))
        BY <4>6, <4>8, Listed
      <4> QED BY <4>1, <4>2, <4>9
    <3> QED BY <3>1, <3>2
  <2> DEFINE S == zero.S
             out == zero.out
             none == {}
             no == FALSE
  <2>5. start = [S |-> S, out |-> out, made |-> none, stop |-> no]
    OBVIOUS
  <2>6. none \in SUBSET Chans /\ no \in BOOLEAN /\ e = EarnedBy(none, {u}, now)
    OBVIOUS
  <2>7. Sound(s, S, earned, ident, known[s]) /\ Others(s, Here(s), S) /\ out \in Seq(Post(e))
    BY <2>4
  <2> HIDE DEF S, out, none, no, e, start, zero
  <2>8. Sound(s, S, e, ident, known[s])
    BY <2>2, <2>7, SoundMono DEF Earlier
  <2>9. [S |-> S, out |-> out, made |-> none, stop |-> no] \in Joins(s, u)
    BY <2>6, <2>7, <2>8, MakeJoin
  <2> QED BY <2>5, <2>9
<1> HIDE DEF start, zero, rest, n
<1>5. \A i \in 1 .. n : \A y \in X : join_one(s, u, y, rest[i].chan, rest[i].key) \in X
  <2>1. ASSUME NEW i \in 1 .. n, NEW y \in X
        PROVE  join_one(s, u, y, rest[i].chan, rest[i].key) \in X
    <3> DEFINE c == rest[i].chan
               key == rest[i].key
    <3>1. c \in Chans
      BY <1>3
    <3> HIDE DEF c, key
    <3>2. join_one(s, u, y, c, key) \in X
      BY <3>1, JoinOne
    <3> QED BY <3>2 DEF c, key
  <2> QED BY <2>1
<1>6. F \in [1 .. n -> [X -> X]]
  <2> HIDE DEF X
  <2> QED BY <1>5
<1>7. \A i \in 1 .. n : \A y \in X : F[i][y] = join_one(s, u, y, rest[i].chan, rest[i].key)
  OBVIOUS
<1> HIDE DEF X, F
<1>8. PICK k \in [0 .. n -> X] : Runs(k, n, start, F)
  BY <1>3, <1>4, <1>6, LoopRuns
<1>9. Def(k)
  <2>1. k[0] = start /\ \A i \in 1 .. n : k[i] = F[i][k[i - 1]]
    BY <1>8 DEF Runs
  <2>2. ASSUME NEW i \in 0 .. n
        PROVE  k[i] = IF i = 0 THEN start
                      ELSE join_one(s, u, k[i - 1], rest[i].chan, rest[i].key)
    <3>1. CASE i = 0
      BY <2>1, <3>1
    <3>2. CASE i # 0
      <4>1. i \in 1 .. n /\ i - 1 \in 0 .. n
        BY <1>3, <3>2
      <4>2. k[i - 1] \in X
        BY <4>1
      <4> QED BY <1>7, <2>1, <3>2, <4>1, <4>2
    <3> QED BY <3>1, <3>2
  <2>3. k = [i \in 0 .. n |-> k[i]]
    OBVIOUS
  <2> QED BY <2>2, <2>3
<1>10. Def(x)
  BY <1>9
<1> HIDE DEF x
<1>11. \A i \in 0 .. n : x[i] = IF i = 0 THEN start
                                ELSE join_one(s, u, x[i - 1], rest[i].chan, rest[i].key)
  BY ONLY <1>10
<1> DEFINE A == {i \in 0 .. n : x[i] \in X}
<1>12. 0 \in A
  BY <1>3, <1>4, <1>11
<1>13. ASSUME NEW i \in 1 .. n, i - 1 \in A PROVE i \in A
  <2>1. i \in 0 .. n /\ i # 0 /\ x[i - 1] \in X
    BY <1>3, <1>13
  <2>2. x[i] = join_one(s, u, x[i - 1], rest[i].chan, rest[i].key)
    BY <1>11, <2>1
  <2> QED BY <1>5, <2>1, <2>2
<1> HIDE DEF A
<1>14. 0 .. n \subseteq A
  BY <1>3, <1>12, <1>13, UpTo
<1>15. n \in A
  BY <1>3, <1>14
<1> QED BY <1>1, <1>15 DEF A, X

(* JOIN.                                                                    *)
LEMMA JoinInv ==
    ASSUME Inv, NEW s \in Servers, NEW u \in Users, m_join(s, u)
    PROVE  Inv'
<1>1. PICK list \in scene.joins :
         LET x == channel_do_join(s, u, list)
         IN  /\ Done(s, x.S, sendto_server(queue, s, s, x.out))
             /\ Earn(x.made, {u}, now)
  BY DEF m_join
<1>2. list \in Seq([chan : Chans \cup {"0"}, key : Args])
  <2>1. scene \in Scenes
    BY DEF Inv
  <2> QED BY <2>1, SceneAssumption, Zenon
<1>3. Home[u] = s /\ now \in Nat
  BY DEF m_join, Command, Locals, MyConnect, Inv
<1>4. UNCHANGED <<known, net, linked, ident, now, scene>>
  BY DEF m_join, Quiet
<1> DEFINE x == channel_do_join(s, u, list)
           e == EarnedBy(x.made, {u}, now)
           q == sendto_server(queue, s, s, x.out)
           S == x.S
<1>5. x \in Joins(s, u)
  BY <1>2, <1>3, DoJoin
<1>6. Done(s, S, q) /\ Earn(x.made, {u}, now)
  BY <1>1
<1> HIDE DEF x
<1>7. /\ Sound(s, S, e, ident, known[s]) /\ Others(s, Here(s), S) /\ x.out \in Seq(Post(e))
  BY <1>5, JoinFields
<1>8. Earlier(e, earned) /\ earned' = e
  BY <1>3, <1>6, EarnFacts
<1>9. QueueOK(q, e)
  <2> HIDE DEF e
  <2>1. QueueOK(queue, e)
    BY <1>8, QueueMono DEF Inv
  <2> QED BY <1>7, <2>1, QueueSend DEF Inv
<1>10. /\ known[s] \in SUBSET Users /\ known' = [known EXCEPT ![s] = known[s]]
       /\ net' \in [Servers -> SUBSET Servers] /\ UNCHANGED <<linked, ident, now, scene>>
  BY <1>4 DEF Inv
<1> HIDE DEF S, q, e
<1> QED BY <1>6, <1>7, <1>8, <1>9, <1>10, Handled
-----------------------------------------------------------------------------
(* Messages.                                                                *)

(* What has arrived, and what may be passed on.                             *)
LEMMA Arrived ==
    ASSUME Inv, NEW from \in Servers, NEW s \in Servers, NEW kind, Recv(from, s, kind)
    PROVE  /\ Msg(from, s) \in Post(earned) /\ Msg(from, s).kind = kind
           /\ from = s => Msg(from, s) \in InviteMsgs
           /\ QueueOK(Taken(from, s), earned)
           /\ \A msgs \in Seq(Post(earned)) : QueueOK(Relay(from, s, msgs), earned)
<1>1. QueueOK(queue, earned) /\ s \notin linked[s]
  BY DEF Inv
<1>2. queue[from][s] # <<>> /\ Msg(from, s).kind = kind
  BY DEF Recv, Msg
<1> QED BY <1>1, <1>2, QueueTaken, QueueRelay

(* A message that is dropped.                                               *)
LEMMA Dropped ==
    ASSUME Inv, NEW from \in Servers, NEW s \in Servers, NEW kind, Recv(from, s, kind),
           Done(s, Here(s), Taken(from, s)),
           UNCHANGED <<known, net, linked, ident, now, earned, scene>>
    PROVE  Inv'
<1> DEFINE S == Here(s)
           q == Taken(from, s)
<1>1. Sound(s, S, earned, ident, known[s]) /\ Others(s, Here(s), S)
  BY HereSound
<1>2. QueueOK(q, earned) /\ Done(s, S, q)
  BY Arrived
<1> HIDE DEF S, q
<1> QED BY <1>1, <1>2, Answered

(* PART and KICK of another server.                                         *)
LEMMA MsPartInv ==
    ASSUME Inv, NEW from \in Servers, NEW s \in Servers, ms_part(from, s)
    PROVE  Inv'
<1>1. PICK kind \in {"PART", "KICK"} : Recv(from, s, kind)
  BY DEF ms_part
<1> DEFINE m == Msg(from, s)
<1>2. m \in Post(earned) /\ m.kind \in {"PART", "KICK"}
  BY <1>1, Arrived
<1>3. m \in LeaveMsgs
  BY <1>2, Kinds
<1>4. m.chan \in Chans
  BY <1>3 DEF LeaveMsgs
<1>5. UNCHANGED <<known, net, linked, ident, now, earned, scene>>
  BY DEF ms_part, Static
<1>6. CASE Done(s, Here(s), Taken(from, s))
  BY <1>1, <1>5, <1>6, Dropped
<1>7. CASE Done(s, leave_channel(Here(s), m.chan, {m.user}), Relay(from, s, <<m>>))
  <2> DEFINE S == leave_channel(Here(s), m.chan, {m.user})
             q == Relay(from, s, <<m>>)
  <2>1. Sound(s, Here(s), earned, ident, known[s])
    BY HereSound
  <2>2. Sound(s, S, earned, ident, known[s]) /\ Others(s, Here(s), S)
    BY <1>4, <2>1, LeaveChannel
  <2>3. QueueOK(q, earned)
    BY <1>1, <1>2, Single, Arrived
  <2>4. Done(s, S, q)
    BY <1>7
  <2> HIDE DEF S, q
  <2> QED BY <1>5, <2>2, <2>3, <2>4, Answered
<1> QED BY <1>6, <1>7 DEF ms_part

(* TOPIC of another server.                                                 *)
LEMMA MsTopicInv ==
    ASSUME Inv, NEW from \in Servers, NEW s \in Servers, ms_topic(from, s)
    PROVE  Inv'
<1>1. Recv(from, s, "TOPIC")
  BY DEF ms_topic
<1> DEFINE m == Msg(from, s)
           c == m.chan
           k == chans[s][c]
           n == channel_set_topic(k, m.topic, now)
           q == Relay(from, s, <<m>>)
<1>2. m \in Post(earned) /\ m.kind = "TOPIC"
  BY <1>1, Arrived
<1>3. m \in TopicMsgs
  BY <1>2, Kinds
<1>4. c \in Chans /\ m.topic \in Topics /\ now \in Nat
  BY <1>3 DEF TopicMsgs, Inv
<1>5. UNCHANGED <<known, net, linked, ident, now, earned, scene>>
  BY DEF ms_topic, Static
<1>6. CASE Done(s, Here(s), Taken(from, s))
  BY <1>1, <1>5, <1>6, Dropped
<1>7. CASE /\ Exists(k)
           /\ Done(s, [Here(s) EXCEPT !.chan[c] = channel_set_topic(@, m.topic, now)], q)
  <2>1. Good(s, k, earned[c], ident) /\ k \in ChannelRecords /\ Exists(k)
    BY <1>4, <1>7, HereSound
  <2>2. [Here(s) EXCEPT !.chan[c] = channel_set_topic(@, m.topic, now)] = [Here(s) EXCEPT !.chan[c] = n]
    <3>1. Here(s) \in Rooms /\ Here(s).chan = chans[s]
      BY HereSound
    <3> QED BY <1>4, <3>1 DEF Rooms
  <2>3. /\ n \in ChannelRecords
        /\ n.members = k.members /\ n.ts = k.ts /\ n.list = k.list /\ n.invites = k.invites
    BY <1>4, <2>1, SetTopic
  <2>4. QueueOK(q, earned)
    BY <1>1, <1>2, Single, Arrived
  <2>5. Done(s, [Here(s) EXCEPT !.chan[c] = n], q)
    BY <1>7, <2>2
  <2> HIDE DEF n, q, c
  <2>6. Good(s, n, earned[c], ident) /\ Exists(n)
    BY <2>1, <2>3, GoodSame
  <2> QED BY <1>4, <1>5, <2>3, <2>4, <2>5, <2>6, OneChannel
<1> QED BY <1>6, <1>7 DEF ms_topic

(* TBURST.                                                                  *)
LEMMA MsTburstInv ==
    ASSUME Inv, NEW from \in Servers, NEW s \in Servers, ms_tburst(from, s)
    PROVE  Inv'
<1>1. Recv(from, s, "TBURST")
  BY DEF ms_tburst
<1> DEFINE m == Msg(from, s)
           c == m.chan
           k == chans[s][c]
           n == channel_set_topic(k, m.topic, m.when)
           q == Relay(from, s, <<m>>)
<1>2. m \in Post(earned) /\ m.kind = "TBURST"
  BY <1>1, Arrived
<1>3. m \in TburstMsgs
  BY <1>2, Kinds
<1>4. c \in Chans /\ m.topic \in Topics /\ m.when \in Nat
  BY <1>3 DEF TburstMsgs
<1>5. UNCHANGED <<known, net, linked, ident, now, earned, scene>>
  BY DEF ms_tburst, Static
<1>6. CASE Done(s, Here(s), Taken(from, s))
  BY <1>1, <1>5, <1>6, Dropped
<1>7. CASE /\ Exists(k)
           /\ Done(s, [Here(s) EXCEPT !.chan[c] = channel_set_topic(@, m.topic, m.when)], q)
  <2>1. Good(s, k, earned[c], ident) /\ k \in ChannelRecords /\ Exists(k)
    BY <1>4, <1>7, HereSound
  <2>2. [Here(s) EXCEPT !.chan[c] = channel_set_topic(@, m.topic, m.when)] = [Here(s) EXCEPT !.chan[c] = n]
    <3>1. Here(s) \in Rooms /\ Here(s).chan = chans[s]
      BY HereSound
    <3> QED BY <1>4, <3>1 DEF Rooms
  <2>3. /\ n \in ChannelRecords
        /\ n.members = k.members /\ n.ts = k.ts /\ n.list = k.list /\ n.invites = k.invites
    BY <1>4, <2>1, SetTopic
  <2>4. QueueOK(q, earned)
    BY <1>1, <1>2, Single, Arrived
  <2>5. Done(s, [Here(s) EXCEPT !.chan[c] = n], q)
    BY <1>7, <2>2
  <2> HIDE DEF n, q, c
  <2>6. Good(s, n, earned[c], ident) /\ Exists(n)
    BY <2>1, <2>3, GoodSame
  <2> QED BY <1>4, <1>5, <2>3, <2>4, <2>5, <2>6, OneChannel
<1> QED BY <1>6, <1>7 DEF ms_tburst

(* BMASK: the masks are added, and what was cached is dropped.              *)
LEMMA MsBmaskInv ==
    ASSUME Inv, NEW from \in Servers, NEW s \in Servers, ms_bmask(from, s)
    PROVE  Inv'
<1>1. Recv(from, s, "BMASK")
  BY DEF ms_bmask
<1> DEFINE m == Msg(from, s)
           c == m.chan
           k == chans[s][c]
           l == m.list
           masks == ForgetBans(k, l).list[l] \cup m.masks
           n == [ForgetBans(k, l) EXCEPT !.list[l] = masks]
           out == Bmask(c, k.ts, l, m.masks)
           q == Relay(from, s, <<out>>)
<1>2. m \in Post(earned) /\ m.kind = "BMASK"
  BY <1>1, Arrived
<1>3. m \in BmaskMsgs
  BY <1>2, Kinds
<1>4. c \in Chans /\ l \in Lists /\ m.masks \in SUBSET Args
  BY <1>3 DEF BmaskMsgs
<1>5. UNCHANGED <<known, net, linked, ident, now, earned, scene>>
  BY DEF ms_bmask, Static
<1>6. CASE Done(s, Here(s), Taken(from, s))
  BY <1>1, <1>5, <1>6, Dropped
<1>7. CASE /\ Exists(k)
           /\ Done(s, [Here(s) EXCEPT !.chan[c] =
                          AddMasks(@, l, m.masks)], q)
  <2>1. Good(s, k, earned[c], ident) /\ k \in ChannelRecords /\ Exists(k)
    BY <1>4, <1>7, HereSound
  <2>2. k.ts \in Nat /\ k.list \in [Lists -> SUBSET Args] /\ ForgetBans(k, l).list = k.list
    <3>1. k.ts \in Nat /\ k.list \in [Lists -> SUBSET Args]
      BY <2>1, ChannelFacts
    <3>2. ForgetBans(k, l) \in ChannelRecords /\ ForgetBans(k, l).list = k.list
      BY <2>1, WithoutFlagsFacts DEF ForgetBans, clear_ban_cache_channel
    <3> QED BY <3>1, <3>2
  <2>3. masks \in SUBSET Args
    BY <1>4, <2>2
  <2>4. [Here(s) EXCEPT !.chan[c] = AddMasks(@, l, m.masks)]
        = [Here(s) EXCEPT !.chan[c] = n]
    <3>1. Here(s) \in Rooms /\ Here(s).chan = chans[s]
      BY HereSound
    <3>2. n = AddMasks(k, l, m.masks)
      BY DEF AddMasks
    <3> HIDE DEF n
    <3> QED BY <1>4, <3>1, <3>2 DEF Rooms
  <2>5. QueueOK(q, earned)
    <3>1. out \in Post(earned)
      BY <1>4, <2>2, Made
    <3> HIDE DEF out
    <3> QED BY <1>1, <3>1, Single, Arrived
  <2>6. Done(s, [Here(s) EXCEPT !.chan[c] = n], q)
    BY <1>7, <2>4
  <2> HIDE DEF masks
  <2>7. n \in ChannelRecords /\ SameRoom(k, n) /\ CacheKept(k, n) /\ SameOps(k, n)
    BY <1>4, <2>1, <2>3, ListChange
  <2> HIDE DEF n, q, c
  <2>8. \A u \in DOMAIN k.members :
          "o" \in n.members[u] => "o" \in k.members[u] \/ k.ts >= earned[c][u]
    BY <2>7 DEF SameOps
  <2>9. Good(s, n, earned[c], ident) /\ Exists(n) /\ n.invites = k.invites
    BY <2>1, <2>7, <2>8, GoodModes
  <2> QED BY <1>4, <1>5, <2>5, <2>6, <2>9, OneChannel
<1> QED BY <1>6, <1>7 DEF ms_bmask, tmode_counts

(* INVITE of another server.                                                *)
LEMMA MsInviteInv ==
    ASSUME Inv, NEW from \in Servers, NEW s \in Servers, ms_invite(from, s)
    PROVE  Inv'
<1>1. Recv(from, s, "INVITE")
  BY DEF ms_invite
<1> DEFINE m == Msg(from, s)
           c == m.chan
           u == m.user
           k == chans[s][c]
           out == Invite(u, c, k.ts)
           q == sendto_user(Taken(from, s), s, u, out)
<1>2. m \in Post(earned) /\ m.kind = "INVITE" /\ QueueOK(Taken(from, s), earned)
  BY <1>1, Arrived
<1>3. m \in InviteMsgs
  BY <1>2, Kinds
<1>4. c \in Chans /\ u \in Users
  BY <1>3 DEF InviteMsgs
<1>5. UNCHANGED <<known, net, linked, ident, now, earned, scene>>
  BY DEF ms_invite, Static
<1>6. CASE Done(s, Here(s), Taken(from, s))
  BY <1>1, <1>5, <1>6, Dropped
<1>7. CASE /\ u \in known[s] /\ Exists(k) /\ MyConnect(s, u)
           /\ Done(s, Invited(s, c, u), Taken(from, s))
  <2> DEFINE S == Invited(s, c, u)
             p == Taken(from, s)
  <2>1. Sound(s, S, earned, ident, known[s]) /\ Others(s, Here(s), S)
    BY <1>4, <1>7, InvitedSound
  <2>2. Done(s, S, p) /\ QueueOK(p, earned)
    BY <1>2, <1>7
  <2> HIDE DEF S, p
  <2> QED BY <1>5, <2>1, <2>2, Answered
<1>8. CASE Done(s, Here(s), q)
  <2>1. k.ts \in Nat
    BY <1>4, HereSound, ChannelFacts
  <2>2. out \in InviteMsgs
    BY <1>4, <2>1, Made
  <2> HIDE DEF out
  <2>3. QueueOK(q, earned)
    BY <1>2, <2>2, QueueUser
  <2> DEFINE S == Here(s)
  <2>4. Sound(s, S, earned, ident, known[s]) /\ Others(s, Here(s), S)
    BY HereSound
  <2>5. Done(s, S, q)
    BY <1>8
  <2> HIDE DEF S, q
  <2> QED BY <1>5, <2>3, <2>4, <2>5, Answered
<1> QED BY <1>6, <1>7, <1>8 DEF ms_invite

(* QUIT of another server.                                                  *)
LEMMA MsQuitInv ==
    ASSUME Inv, NEW from \in Servers, NEW s \in Servers, ms_quit(from, s)
    PROVE  Inv'
<1>1. Recv(from, s, "QUIT")
  BY DEF ms_quit
<1> DEFINE m == Msg(from, s)
           u == m.user
           S == forget_users(s, Here(s), {u})
           q == Relay(from, s, <<m>>)
           kn == known[s] \ {u}
<1>2. m \in Post(earned)
  BY <1>1, Arrived
<1>3. UNCHANGED <<net, linked, ident, now, earned, scene>>
  BY DEF ms_quit
<1>4. CASE Done(s, Here(s), Taken(from, s)) /\ UNCHANGED known
  BY <1>1, <1>3, <1>4, Dropped
<1>5. CASE Done(s, S, q) /\ known' = [known EXCEPT ![s] = @ \ {u}]
  <2>1. Sound(s, Here(s), earned, ident, known[s]) /\ Earlier(earned, earned)
    BY HereSound
  <2>2. Sound(s, S, earned, ident, kn) /\ Others(s, Here(s), S)
    BY <2>1, ForgetUsers
  <2>3. QueueOK(q, earned)
    BY <1>1, <1>2, Single, Arrived
  <2>4. Done(s, S, q) /\ UNCHANGED <<linked, ident, now, scene>> /\ earned' = earned
    BY <1>3, <1>5
  <2>5. kn \in SUBSET Users /\ known' = [known EXCEPT ![s] = kn] /\ net' \in [Servers -> SUBSET Servers]
    BY <1>3, <1>5 DEF Inv
  <2> HIDE DEF S, q, kn
  <2> QED BY <2>1, <2>2, <2>3, <2>4, <2>5, Handled
<1> QED BY <1>4, <1>5 DEF ms_quit

(* JOIN of another server.                                                  *)
LEMMA MsJoinInv ==
    ASSUME Inv, NEW from \in Servers, NEW s \in Servers, ms_join(from, s)
    PROVE  Inv'
<1>1. Recv(from, s, "JOIN")
  BY DEF ms_join
<1> DEFINE m == Msg(from, s)
           c == m.chan
           u == m.user
           ts == m.ts
           old == chans[s][c]
           merged == join_merge(old, ts)
           n == IF IsMember(old, u) THEN merged ELSE add_user_to_channel(merged, u, {})
           out == Join(u, c, n.ts)
           q == Relay(from, s, <<out>>)
<1>2. m \in Post(earned) /\ m.kind = "JOIN"
  BY <1>1, Arrived
<1>3. m \in JoinMsgs
  BY <1>2, Kinds
<1>4. c \in Chans /\ u \in Users /\ ts \in Nat /\ ts > 0
  BY <1>3 DEF JoinMsgs
<1>5. UNCHANGED <<known, net, linked, ident, now, earned, scene>>
  BY DEF ms_join, Static
<1>6. CASE Done(s, Here(s), Taken(from, s))
  BY <1>1, <1>5, <1>6, Dropped
<1>7. CASE Done(s, [Here(s) EXCEPT !.chan[c] = n], q)
  <2>1. Good(s, old, earned[c], ident) /\ earned[c] \in [Users -> Nat]
    BY <1>4, HereSound DEF Inv
  <2>2. Good(s, n, earned[c], ident) /\ Exists(n) /\ n.ts > 0 /\ n.invites = old.invites
    <3> HIDE DEF c, u, ts, old
    <3> QED BY <1>4, <2>1, GoodJoin
  <2>3. Done(s, [Here(s) EXCEPT !.chan[c] = n], q)
    BY <1>7
  <2> HIDE DEF n
  <2>4. n.ts \in Nat \ {0}
    BY <2>2, ChannelFacts DEF Good
  <2>5. QueueOK(q, earned)
    <3>1. out \in Post(earned)
      BY <1>4, <2>4, Made
    <3> HIDE DEF out
    <3> QED BY <1>1, <3>1, Single, Arrived
  <2> HIDE DEF q, c
  <2> QED BY <1>4, <1>5, <2>2, <2>3, <2>5, OneChannel
<1> QED BY <1>6, <1>7 DEF ms_join

(* TMODE.  A line with a TS above ours is dropped; an operator that one     *)
(* below brings has earned it before our channel was made.                  *)
LEMMA MsTmodeInv ==
    ASSUME Inv, NEW from \in Servers, NEW s \in Servers, ms_tmode(from, s)
    PROVE  Inv'
<1>1. Recv(from, s, "TMODE")
  BY DEF ms_tmode
<1> DEFINE m == Msg(from, s)
           c == m.chan
           line == m.line
           k == chans[s][c]
           args == ArgsOf(line)
           x == set_channel_mode(k, RemoteSource, line, args, known[s])
           n == x.chan
           msgs == Tmodes(c, k.ts, x.changes)
           q == Relay(from, s, msgs)
<1>2. m \in Post(earned) /\ m.kind = "TMODE"
  BY <1>1, Arrived
<1>3. m \in TmodeMsgs(earned)
  BY <1>2, Kinds
<1>4. c \in Chans /\ m.ts \in Nat /\ line \in Seq(Changes) /\ Earns(m.ts, line, earned[c])
  BY <1>3 DEF TmodeMsgs
<1>5. UNCHANGED <<known, net, linked, ident, now, earned, scene>>
  BY DEF ms_tmode, Static
<1>6. CASE Done(s, Here(s), Taken(from, s))
  BY <1>1, <1>5, <1>6, Dropped
<1>7. CASE tmode_counts(k, m) /\ Done(s, [Here(s) EXCEPT !.chan[c] = n], q)
  <2>1. Good(s, k, earned[c], ident) /\ k \in ChannelRecords /\ Exists(k) /\ m.ts <= k.ts
    BY <1>4, <1>7, HereSound DEF tmode_counts
  <2>2. k.ts \in Nat /\ DOMAIN k.members \subseteq Users
    BY <2>1, ChannelFacts
  <2>3. Done(s, [Here(s) EXCEPT !.chan[c] = n], q)
    BY <1>7
  <2> HIDE DEF line, k
  <2>4. \A ch \in Changes : ch.dir \in Directions
    BY DEF Changes, Directions
  <2>5. args \in Seq(Args)
    <3>1. PICK rest \in [0 .. Len(line) -> Seq(Args)] : Trailing(rest, line)
      BY <1>4, ArgsRun
    <3>2. Len(line) \in Nat
      BY <1>4
    <3> QED BY <3>1, <3>2 DEF Trailing
  <2>6. Opped(x.changes) \subseteq Opped(line)
    <3>1. Remote(RemoteSource)
      <4>1. CHACCESS_REMOTE = 3
        BY DEF CHACCESS_REMOTE
      <4> QED BY Zenon DEF Remote, RemoteSource
    <3> QED BY <1>4, <2>1, <3>1, RemoteWalk
  <2> HIDE DEF args
  <2>7. /\ x \in WalkRecords
        /\ SameRoom(k, x.chan) /\ CacheKept(k, x.chan)
        /\ \A v \in DOMAIN k.members :
              "o" \in x.chan.members[v] => "o" \in k.members[v] \/ v \in Opped(x.changes)
    <3> DEFINE w == RemoteSource
               y == set_channel_mode(k, w, line, args, known[s])
    <3> HIDE DEF w
    <3>1. /\ y \in WalkRecords
          /\ SameRoom(k, y.chan) /\ CacheKept(k, y.chan)
          /\ \A v \in DOMAIN k.members :
                "o" \in y.chan.members[v] => "o" \in k.members[v] \/ v \in Opped(y.changes)
      BY <1>4, <2>1, <2>4, <2>5, ModeWalk
    <3> QED BY <3>1 DEF w
  <2> HIDE DEF x
  <2>8. x.changes \in Seq(Changes) /\ n \in ChannelRecords
    BY <2>7, WalkFacts
  <2>9. \A v \in Opped(x.changes) \cap Users : k.ts >= earned[c][v]
    <3>1. ASSUME NEW v \in Opped(x.changes) \cap Users PROVE k.ts >= earned[c][v]
      <4>1. m.ts >= earned[c][v]
        BY <1>4, <2>6 DEF Earns
      <4>2. earned[c][v] \in Nat
        BY <1>4 DEF Inv
      <4> QED BY <1>4, <2>1, <2>2, <4>1, <4>2
    <3> QED BY <3>1
  <2>10. Good(s, n, earned[c], ident) /\ Exists(n) /\ n.invites = k.invites
    <3>1. \A v \in DOMAIN k.members : "o" \in n.members[v] => "o" \in k.members[v] \/ k.ts >= earned[c][v]
      BY <2>2, <2>7, <2>9
    <3>2. SameRoom(k, n) /\ CacheKept(k, n)
      BY <2>7
    <3> HIDE DEF n, c
    <3> QED BY <2>1, <2>8, <3>1, <3>2, GoodModes
  <2>11. msgs \in Seq(Post(earned))
    <3>1. Earns(k.ts, x.changes, earned[c])
      BY <2>9 DEF Earns
    <3> HIDE DEF c
    <3> QED BY <1>4, <2>2, <2>8, <3>1, MadeTmodes
  <2>12. QueueOK(q, earned)
    <3> HIDE DEF msgs
    <3> QED BY <1>1, <2>11, Arrived
  <2> HIDE DEF n, q
  <2>13. n.invites = chans[s][c].invites
    BY <2>10 DEF k
  <2> HIDE DEF c
  <2> QED BY <1>4, <1>5, <2>3, <2>10, <2>12, <2>13, OneChannel
<1> QED BY <1>6, <1>7 DEF ms_tmode

(* What a SJOIN may say of modes.                                           *)
LEMMA BurstModes ==
    /\ ZeroModes \in Burst
    /\ \A k \in ChannelRecords : ModesOf(k) \in Burst
    /\ \A b \in Burst : b.mode \in SUBSET ChanModes /\ b.limit \in Int /\ b.key \in Args
<1>1. ZeroModes \in Burst
  <2> DEFINE yes == TRUE
             none == {}
             empty == ""
             nil == 0
  <2>1. yes \in BOOLEAN /\ none \in SUBSET ChanModes /\ empty \in Args /\ nil \in Int
    <3>1. yes \in BOOLEAN
      OBVIOUS
    <3>2. empty \in Args
      BY ModesAssumption
    <3>3. none \in SUBSET ChanModes /\ nil \in Int
      OBVIOUS
    <3> QED BY <3>1, <3>2, <3>3
  <2>2. ZeroModes = [zero |-> yes, mode |-> none, limit |-> nil, key |-> empty]
    BY DEF ZeroModes
  <2> HIDE DEF yes, none, empty, nil
  <2> QED BY <2>1, <2>2 DEF Burst
<1>2. ASSUME NEW k \in ChannelRecords PROVE ModesOf(k) \in Burst
  <2>1. FALSE \in BOOLEAN
    OBVIOUS
  <2>2. k.mode \in SUBSET ChanModes /\ k.limit \in Int /\ k.key \in Args
    BY ChannelFacts
  <2> QED BY <2>1, <2>2 DEF ModesOf, Burst
<1>3. \A b \in Burst : b.mode \in SUBSET ChanModes /\ b.limit \in Int /\ b.key \in Args
  BY DEF Burst
<1> QED BY <1>1, <1>2, <1>3

(* What ms_sjoin() starts from: if our channel loses the TS, its            *)
(* invitations are gone.                                                    *)
LEMMA SjoinStart ==
    ASSUME Inv, NEW s \in Servers, NEW c \in Chans, NEW ts
    PROVE  LET old == chans[s][c]
               S == IF KeepOurs(old, ts) THEN Here(s) ELSE clear_invites(Here(s), c)
               k == [old EXCEPT !.invites = S.chan[c].invites]
           IN  /\ Sound(s, S, earned, ident, known[s]) /\ Others(s, Here(s), S)
               /\ S.chan[c] = k /\ k.ts = old.ts /\ (Exists(k) <=> Exists(old))
<1> DEFINE old == chans[s][c]
           S == IF KeepOurs(old, ts) THEN Here(s) ELSE clear_invites(Here(s), c)
           k == [old EXCEPT !.invites = S.chan[c].invites]
<1>1. /\ Sound(s, Here(s), earned, ident, known[s]) /\ Others(s, Here(s), Here(s))
      /\ Here(s).chan = chans[s] /\ old \in ChannelRecords
  BY HereSound
<1>2. CASE KeepOurs(old, ts)
  <2>1. S = Here(s)
    BY <1>2
  <2> HIDE DEF S
  <2>2. S.chan[c] = old
    BY <1>1, <2>1
  <2>3. k = old
    BY <1>1, <2>2, SameInvites
  <2> HIDE DEF k
  <2> QED BY <1>1, <2>1, <2>2, <2>3 DEF S, k
<1>3. CASE ~ KeepOurs(old, ts)
  <2>1. S = clear_invites(Here(s), c)
    BY <1>3
  <2>2. /\ Sound(s, clear_invites(Here(s), c), earned, ident, known[s])
        /\ Others(s, Here(s), clear_invites(Here(s), c))
        /\ clear_invites(Here(s), c).chan[c] = [Here(s).chan[c] EXCEPT !.invites = {}]
        /\ clear_invites(Here(s), c).chan[c].invites = {}
    BY <1>1, ClearInvites
  <2> HIDE DEF S
  <2>3. S.chan[c] = [old EXCEPT !.invites = {}] /\ S.chan[c].invites = {}
    BY <1>1, <2>1, <2>2
  <2>4. k = S.chan[c]
    BY <2>3
  <2>5. k.ts = old.ts /\ k.members = old.members
    BY <1>1, <2>3, WithInvites
  <2> HIDE DEF k
  <2>6. Exists(k) <=> Exists(old)
    BY <2>5 DEF Exists
  <2> QED BY <2>1, <2>2, <2>4, <2>5, <2>6 DEF S, k
<1> QED BY <1>2, <1>3

(* SJOIN.                                                                   *)
LEMMA MsSjoinInv ==
    ASSUME Inv, NEW from \in Servers, NEW s \in Servers, ms_sjoin(from, s)
    PROVE  Inv'
<1>1. Recv(from, s, "SJOIN")
  BY DEF ms_sjoin
<1> DEFINE m == Msg(from, s)
           c == m.chan
           ts == m.ts
           old == chans[s][c]
           keep == KeepTheirs(old, ts)
           new == [ts |-> ts, mode |-> m.modes.mode, limit |-> m.modes.limit, key |-> m.modes.key]
           S == IF KeepOurs(old, ts) THEN Here(s) ELSE clear_invites(Here(s), c)
           here == {u \in DOMAIN m.nicks \cap known[s] : ~ MyConnect(s, u) /\ From(s, u) = from}
           nicks == [u \in here |-> IF keep THEN m.nicks[u] ELSE {}]
           k == [old EXCEPT !.invites = S.chan[c].invites]
           merged == sjoin_merge(k, new)
           n == sjoin_members(merged, nicks)
           final == IF Exists(n) THEN n ELSE NoChannel
           modes == IF keep /\ ~ m.modes.zero THEN ModesOf(merged) ELSE ZeroModes
           out == Sjoin(c, merged.ts, modes, nicks)
           msgs == IF here = {} THEN <<>> ELSE <<out>>
           T == [S EXCEPT !.chan[c] = final]
           q == Relay(from, s, msgs)
<1>2. m \in Post(earned) /\ m.kind = "SJOIN"
  BY <1>1, Arrived
<1>3. m \in SjoinMsgs(earned)
  BY <1>2, Kinds
<1>4. /\ c \in Chans /\ ts \in Nat /\ ts > 0 /\ m.modes \in Burst /\ m.nicks \in Members
      /\ Backed(ts, m.nicks, earned[c])
  BY <1>3 DEF SjoinMsgs
<1>5. UNCHANGED <<known, net, linked, ident, now, earned, scene>>
  BY DEF ms_sjoin, Static
<1>6. Done(s, T, q)
  BY DEF ms_sjoin
<1>7. /\ Sound(s, S, earned, ident, known[s]) /\ Others(s, Here(s), S)
      /\ S.chan[c] = k /\ k.ts = old.ts /\ (Exists(k) <=> Exists(old))
  <2> HIDE DEF c, ts
  <2> QED BY <1>4, SjoinStart
<1>8. keep <=> KeepTheirs(k, ts)
  BY <1>7 DEF KeepTheirs
<1>9. new \in NewModes /\ new.ts = ts
  <2> DEFINE mode == m.modes.mode
             limit == m.modes.limit
             key == m.modes.key
  <2>1. mode \in SUBSET ChanModes /\ limit \in Int /\ key \in Args
    BY <1>4, BurstModes
  <2> HIDE DEF mode, limit, key, ts
  <2>2. [ts |-> ts, mode |-> mode, limit |-> limit, key |-> key] \in NewModes
        /\ [ts |-> ts, mode |-> mode, limit |-> limit, key |-> key].ts = ts
    BY <1>4, <2>1, MakeModes
  <2> QED BY <2>2 DEF mode, limit, key
<1>10. Good(s, k, earned[c], ident) /\ k \in ChannelRecords /\ earned[c] \in [Users -> Nat]
  BY <1>4, <1>7 DEF Sound, Good, Inv
<1> HIDE DEF new, S, k, keep, T, final, msgs, c, ts, old
<1>11. /\ nicks \in Members /\ DOMAIN nicks = here
       /\ \A u \in DOMAIN nicks : nicks[u] \subseteq Status
       /\ \A u \in DOMAIN nicks : "o" \in nicks[u] => keep /\ ts >= earned[c][u]
  <2>1. DOMAIN m.nicks \in SUBSET Users /\ m.nicks \in [DOMAIN m.nicks -> SUBSET MemberFlags]
    BY <1>4, MembersFacts
  <2>2. here \subseteq DOMAIN m.nicks /\ DOMAIN nicks = here
    OBVIOUS
  <2>3. \A u \in here : nicks[u] = IF keep THEN m.nicks[u] ELSE {}
    OBVIOUS
  <2>4. nicks = [u \in here |-> nicks[u]]
    OBVIOUS
  <2> HIDE DEF here, nicks
  <2>5. \A u \in here : /\ nicks[u] \in SUBSET MemberFlags /\ nicks[u] \subseteq Status
                        /\ "o" \in nicks[u] => keep /\ ts >= earned[c][u]
    <3>1. ASSUME NEW u \in here, keep
          PROVE  /\ nicks[u] \in SUBSET MemberFlags /\ nicks[u] \subseteq Status
                 /\ "o" \in nicks[u] => keep /\ ts >= earned[c][u]
      <4>1. nicks[u] = m.nicks[u] /\ u \in DOMAIN m.nicks
        BY <2>2, <2>3, <3>1
      <4> QED BY <1>4, <2>1, <3>1, <4>1 DEF Backed
    <3>2. ASSUME NEW u \in here, ~ keep
          PROVE  /\ nicks[u] \in SUBSET MemberFlags /\ nicks[u] \subseteq Status
                 /\ "o" \in nicks[u] => keep /\ ts >= earned[c][u]
      <4>1. nicks[u] = {}
        BY <2>3, <3>2
      <4> QED BY <4>1
    <3> QED BY <3>1, <3>2
  <2>6. DOMAIN nicks \in SUBSET Users /\ nicks \in [DOMAIN nicks -> SUBSET MemberFlags]
    BY <2>1, <2>2, <2>4, <2>5
  <2>7. nicks \in Members
    BY <2>6, MembersFacts
  <2> QED BY <2>2, <2>5, <2>7
<1> HIDE DEF here, nicks
<1>12. /\ merged \in ChannelRecords /\ merged.ts > 0 /\ n.ts = merged.ts
       /\ n \in ChannelRecords /\ n.invites = k.invites
       /\ DOMAIN n.members = DOMAIN k.members \cup DOMAIN nicks
       /\ KeepTheirs(k, new.ts) => merged.ts = new.ts
       /\ Exists(n) => Good(s, n, earned[c], ident)
  <2> DEFINE e == earned[c]
  <2>1. e \in [Users -> Nat] /\ Good(s, k, e, ident)
    BY <1>10
  <2>2. new.ts > 0 /\ \A u \in DOMAIN nicks : nicks[u] \subseteq Status
    BY <1>4, <1>9, <1>11
  <2>3. \A u \in DOMAIN nicks : "o" \in nicks[u] => KeepTheirs(k, new.ts) /\ new.ts >= e[u]
    BY <1>8, <1>9, <1>11
  <2> HIDE DEF e
  <2>4. /\ merged \in ChannelRecords /\ merged.ts > 0 /\ n.ts = merged.ts
        /\ n \in ChannelRecords /\ n.invites = k.invites
        /\ DOMAIN n.members = DOMAIN k.members \cup DOMAIN nicks
        /\ KeepTheirs(k, new.ts) => merged.ts = new.ts
        /\ Exists(n) => Good(s, n, e, ident)
    BY <1>9, <1>11, <2>1, <2>2, <2>3, GoodSjoin
  <2> QED BY <2>4 DEF e
<1> HIDE DEF n, merged
<1>13. msgs \in Seq(Post(earned))
  <2>1. merged.ts \in Nat /\ merged.ts > 0
    BY <1>12, ChannelFacts
  <2>2. modes \in Burst
    BY <1>12, BurstModes
  <2>3. Backed(merged.ts, nicks, earned[c])
    <3>1. ASSUME NEW u \in DOMAIN nicks, "o" \in nicks[u] PROVE merged.ts >= earned[c][u]
      BY <1>8, <1>9, <1>11, <1>12, <3>1
    <3> QED BY <1>11, <3>1 DEF Backed
  <2> HIDE DEF modes
  <2>4. out \in Post(earned)
    BY <1>4, <1>11, <2>1, <2>2, <2>3, MadeSjoin
  <2> HIDE DEF out
  <2>5. <<out>> \in Seq(Post(earned)) /\ <<>> \in Seq(Post(earned))
    BY <2>4, Single
  <2> QED BY <2>5 DEF msgs
<1>14. QueueOK(q, earned)
  BY <1>1, <1>13, Arrived
<1>15. /\ Good(s, final, earned[c], ident) /\ final.invites = S.chan[c].invites
       /\ Exists(final) \/ final.invites = {}
  <2>1. CASE Exists(n)
    BY <1>7, <1>12, <2>1 DEF final
  <2>2. CASE ~ Exists(n)
    <3>1. final = NoChannel
      BY <2>2 DEF final
    <3>2. ~ Exists(k)
      BY <1>12, <2>2 DEF Exists
    <3>3. k = NoChannel
      BY <1>10, <3>2 DEF Good, Dated
    <3> QED BY <1>7, <3>1, <3>3, GoodNone, NoChannelFacts
  <2> QED BY <2>1, <2>2
<1>16. Sound(s, T, earned, ident, known[s]) /\ T.invited = S.invited
  BY <1>4, <1>7, <1>15, SoundChan DEF T
<1>17. Others(s, Here(s), T)
  BY <1>7, <1>16 DEF Others
<1> HIDE DEF q
<1> QED BY <1>5, <1>6, <1>14, <1>16, <1>17, Answered
-----------------------------------------------------------------------------
(* Links.                                                                   *)

(* A server that knows more users.                                          *)
LEMMA SoundMore ==
    ASSUME NEW s, NEW S, NEW e, NEW id, NEW kn, NEW more, kn \subseteq more,
           Sound(s, S, e, id, kn)
    PROVE  Sound(s, S, e, id, more)
<1>1. Guests(s, S, more)
  BY DEF Sound, Guests
<1> QED BY <1>1 DEF Sound

(* What a server may burst.                                                 *)
LEMMA Bursts ==
    ASSUME Inv, NEW s \in Servers, NEW t, t # s
    PROVE  burst_all(s) \in Seq(Mail(s, t, earned))
<1>1. \A c \in Chans : Good(s, chans[s][c], earned[c], ident)
  BY HereSound
<1>2. net[s] \in SUBSET Servers /\ known[s] \in SUBSET Users
  BY DEF Inv
<1>3. burst_all(s) \in Seq(Post(earned))
  BY <1>1, <1>2, BurstAll
<1>4. Mail(s, t, earned) = Post(earned)
  BY MailFacts
<1> QED BY <1>3, <1>4

(* A link is set up.                                                        *)
LEMMA ConnectInv ==
    ASSUME Inv, NEW s \in Servers, NEW t \in Servers, Connect(s, t)
    PROVE  Inv'
<1>1. t # s
  BY DEF Connect, Neighbours
<1> DEFINE m == Server({t}, {})
           q == sendto_server(queue, s, t, <<m>>)
           b == burst_all(s)
<1>2. <<m>> \in Seq(Post(earned))
  <2> DEFINE none == {}
             one == {t}
  <2>1. none \in SUBSET Users /\ one \in SUBSET Servers
    OBVIOUS
  <2> HIDE DEF none, one
  <2>2. Server(one, none) \in Post(earned)
    BY <2>1, Made
  <2> QED BY <2>2, Single DEF one, none
<1>3. QueueOK(q, earned)
  <2> HIDE DEF m
  <2> QED BY <1>2, QueueSend DEF Inv
<1>4. b \in Seq(Mail(s, t, earned))
  BY <1>1, Bursts
<1>5. queue' = [q EXCEPT ![s][t] = b]
  BY DEF Connect
<1> HIDE DEF q, b
<1>6. QueueOK(queue', earned)
  BY <1>3, <1>4, <1>5, QueueOne
<1>7. UNCHANGED <<chans, invited, known, ident, now, earned, scene>>
  BY DEF Connect
<1>8. net' \in [Servers -> SUBSET Servers]
  BY DEF Connect, Inv
<1>9. linked' \in [Servers -> SUBSET Servers] /\ \A x \in Servers : x \notin linked'[x]
  BY <1>1 DEF Connect, Inv
<1>10. QueueOK(queue', earned') /\ World(chans', invited', known', earned', ident')
  BY <1>6, <1>7 DEF Inv
<1> QED BY <1>7, <1>8, <1>9, <1>10 DEF Inv

(* SERVER, and the burst that answers it.                                   *)
LEMMA MsServerInv ==
    ASSUME Inv, NEW from \in Servers, NEW s \in Servers, ms_server(from, s)
    PROVE  Inv'
<1>1. Recv(from, s, "SERVER")
  BY DEF ms_server
<1> DEFINE m == Msg(from, s)
           q == Relay(from, s, <<m>>)
           b == burst_all(s)
           kn == known[s] \cup m.users
<1>2. m \in Post(earned) /\ m.kind = "SERVER" /\ (from = s => m \in InviteMsgs)
  BY <1>1, Arrived
<1>3. m \in ServerMsgs
  BY <1>2, Kinds
<1>4. m.servers \in SUBSET Servers /\ m.users \in SUBSET Users
  BY <1>3 DEF ServerMsgs
<1>5. from # s
  BY <1>2 DEF InviteMsgs
<1>6. QueueOK(q, earned)
  BY <1>1, <1>2, Single, Arrived
<1>7. b \in Seq(Mail(s, from, earned))
  BY <1>5, Bursts
<1>8. queue' = q \/ queue' = [q EXCEPT ![s][from] = b]
  BY DEF ms_server
<1> HIDE DEF q, b
<1>9. QueueOK(queue', earned)
  BY <1>6, <1>7, <1>8, QueueOne
<1>10. UNCHANGED <<chans, invited, ident, now, earned, scene>>
  BY DEF ms_server
<1>11. net' \in [Servers -> SUBSET Servers]
  BY <1>4 DEF ms_server, Inv
<1>12. linked' \in [Servers -> SUBSET Servers] /\ \A x \in Servers : x \notin linked'[x]
  BY <1>5 DEF ms_server, Inv
<1>13. /\ known \in [Servers -> SUBSET Users] /\ chans \in [Servers -> [Chans -> ChannelRecords]]
       /\ kn \in SUBSET Users /\ World(chans, invited, known, earned, ident)
  BY <1>4 DEF Inv
<1>14. known' = [known EXCEPT ![s] = kn]
  BY DEF ms_server
<1>15. ASSUME NEW t \in Servers
       PROVE  Sound(t, [chan |-> chans[t], invited |-> invited], earned, ident, known'[t])
  <2>1. Sound(t, [chan |-> chans[t], invited |-> invited], earned, ident, known[t])
    BY <1>13 DEF World
  <2>2. known[t] \subseteq known'[t]
    BY <1>13, <1>14
  <2> QED BY <2>1, <2>2, SoundMore
<1>16. known' \in [Servers -> SUBSET Users]
  BY <1>13, <1>14
<1>17. World(chans', invited', known', earned', ident')
  BY <1>10, <1>15 DEF World
<1>18. QueueOK(queue', earned')
  BY <1>9, <1>10
<1> QED BY <1>10, <1>11, <1>12, <1>16, <1>17, <1>18 DEF Inv

(* SQUIT: a part of the network is gone.                                    *)
LEMMA MsSquitInv ==
    ASSUME Inv, NEW from \in Servers, NEW s \in Servers, ms_squit(from, s)
    PROVE  Inv'
<1>1. Recv(from, s, "SQUIT")
  BY DEF ms_squit
<1> DEFINE m == Msg(from, s)
           us == Gone(s, m.servers)
           S == forget_users(s, Here(s), us)
           q == Relay(from, s, <<m>>)
           kn == known[s] \ us
<1>2. m \in Post(earned)
  BY <1>1, Arrived
<1>3. Sound(s, Here(s), earned, ident, known[s]) /\ Earlier(earned, earned)
  BY HereSound
<1>4. Sound(s, S, earned, ident, kn) /\ Others(s, Here(s), S)
  BY <1>3, ForgetUsers
<1>5. QueueOK(q, earned)
  BY <1>1, <1>2, Single, Arrived
<1>6. Done(s, S, q) /\ UNCHANGED <<linked, ident, now, scene>> /\ earned' = earned
  BY DEF ms_squit
<1>7. kn \in SUBSET Users /\ known' = [known EXCEPT ![s] = kn] /\ net' \in [Servers -> SUBSET Servers]
  BY DEF ms_squit, Inv
<1> HIDE DEF S, q, kn
<1> QED BY <1>3, <1>4, <1>5, <1>6, <1>7, Handled

(* A link breaks: both ends forget what is behind the other.                *)
LEMMA SplitInv ==
    ASSUME Inv, NEW s \in Servers, NEW t \in Servers, Split(s, t)
    PROVE  Inv'
<1> DEFINE ls == net[s] \cap Side(s, t)
           lt == net[t] \cap Side(t, s)
           us == Gone(s, ls)
           ut == Gone(t, lt)
           S == forget_users(s, Here(s), us)
           R == [chan |-> chans[t], invited |-> S.invited]
           T == forget_users(t, R, ut)
           q1 == sendto_server(queue, s, t, <<Squit(ls)>>)
           q2 == sendto_server(q1, t, s, <<Squit(lt)>>)
           q3 == [q2 EXCEPT ![s][t] = <<>>]
           q4 == [q3 EXCEPT ![t][s] = <<>>]
           c1 == [chans EXCEPT ![s] = S.chan]
           c2 == [c1 EXCEPT ![t] = T.chan]
           k1 == [known EXCEPT ![s] = known[s] \ us]
           k2 == [k1 EXCEPT ![t] = known[t] \ ut]
<1>1. /\ linked \in [Servers -> SUBSET Servers] /\ \A x \in Servers : x \notin linked[x]
      /\ net \in [Servers -> SUBSET Servers] /\ known \in [Servers -> SUBSET Users]
      /\ chans \in [Servers -> [Chans -> ChannelRecords]]
      /\ QueueOK(queue, earned) /\ World(chans, invited, known, earned, ident)
  BY DEF Inv
<1>2. s # t
  BY <1>1 DEF Split
<1>3. UNCHANGED <<ident, now, earned, scene>>
  BY DEF Split
<1>4. chans' = c2 /\ invited' = T.invited
  BY <1>1, <1>2 DEF Split
<1>5. queue' = q4
  BY DEF Split
<1>6. known' = k2
  BY <1>1, <1>2 DEF Split
<1>7. net' = [net EXCEPT ![s] = @ \ ls, ![t] = @ \ lt]
  BY DEF Split
<1>8. linked' = [linked EXCEPT ![s] = @ \ {t}, ![t] = @ \ {s}]
  BY DEF Split
<1>9. ls \in SUBSET Servers /\ lt \in SUBSET Servers
  BY <1>1
<1> HIDE DEF ls, lt
<1>10. net' \in [Servers -> SUBSET Servers]
  BY <1>1, <1>7
<1>11. linked' \in [Servers -> SUBSET Servers] /\ \A x \in Servers : x \notin linked'[x]
  BY <1>1, <1>2, <1>8
<1>12. QueueOK(q4, earned)
  <2>1. <<Squit(ls)>> \in Seq(Post(earned)) /\ <<Squit(lt)>> \in Seq(Post(earned))
    BY <1>9, Made, Single
  <2>2. QueueOK(q1, earned)
    BY <1>1, <2>1, QueueSend
  <2> HIDE DEF q1
  <2>3. QueueOK(q2, earned)
    BY <1>1, <2>1, <2>2, QueueSend
  <2> HIDE DEF q2
  <2> DEFINE none == <<>>
  <2>4. none \in Seq(Mail(s, t, earned)) /\ none \in Seq(Mail(t, s, earned))
    OBVIOUS
  <2>5. q3 = [q2 EXCEPT ![s][t] = none] /\ q4 = [q3 EXCEPT ![t][s] = none]
    OBVIOUS
  <2> HIDE DEF none, q3, q4
  <2>6. QueueOK([q2 EXCEPT ![s][t] = none], earned)
    BY <2>3, <2>4, QueueOne
  <2>7. QueueOK(q3, earned)
    BY <2>5, <2>6
  <2>8. QueueOK([q3 EXCEPT ![t][s] = none], earned)
    BY <2>4, <2>7, QueueOne
  <2> QED BY <2>5, <2>8
<1> HIDE DEF q4, us, ut
<1>13. /\ Sound(s, Here(s), earned, ident, known[s]) /\ Earlier(earned, earned)
       /\ Here(s) = [chan |-> chans[s], invited |-> invited]
  BY HereSound DEF Here
<1>14. Sound(s, S, earned, ident, known[s] \ us) /\ Others(s, Here(s), S)
  BY <1>13, ForgetUsers
<1> HIDE DEF S
<1>15. /\ World(c1, S.invited, k1, earned, ident)
       /\ c1 \in [Servers -> [Chans -> ChannelRecords]]
  <2> DEFINE k == known[s] \ us
  <2>1. Sound(s, S, earned, ident, k) /\ Others(s, [chan |-> chans[s], invited |-> invited], S)
    BY <1>13, <1>14
  <2>2. k1 = [known EXCEPT ![s] = k]
    OBVIOUS
  <2> HIDE DEF k, k1
  <2>3. /\ World([chans EXCEPT ![s] = S.chan], S.invited, [known EXCEPT ![s] = k], earned, ident)
        /\ [chans EXCEPT ![s] = S.chan] \in [Servers -> [Chans -> ChannelRecords]]
    BY <1>1, <1>13, <2>1, WorldStep
  <2> QED BY <2>2, <2>3
<1>16. k1 \in [Servers -> SUBSET Users] /\ k1[t] = known[t] /\ c1[t] = chans[t]
  BY <1>1, <1>2
<1> HIDE DEF c1, k1
<1>17. R = [chan |-> c1[t], invited |-> S.invited]
  BY <1>16
<1> HIDE DEF R
<1>18. Sound(t, R, earned, ident, known[t])
  <2>1. Sound(t, [chan |-> c1[t], invited |-> S.invited], earned, ident, k1[t])
    BY <1>15 DEF World
  <2> QED BY <1>16, <1>17, <2>1
<1>19. Sound(t, T, earned, ident, known[t] \ ut) /\ Others(t, R, T)
  BY <1>18, ForgetUsers
<1> HIDE DEF T
<1>20. /\ World(c2, T.invited, k2, earned, ident)
       /\ c2 \in [Servers -> [Chans -> ChannelRecords]]
  <2> DEFINE k == known[t] \ ut
             inv == S.invited
  <2>1. Sound(t, T, earned, ident, k) /\ Others(t, [chan |-> c1[t], invited |-> inv], T)
    BY <1>17, <1>19
  <2>2. k2 = [k1 EXCEPT ![t] = k] /\ World(c1, inv, k1, earned, ident)
    BY <1>15
  <2> HIDE DEF k, k2, inv
  <2>3. /\ World([c1 EXCEPT ![t] = T.chan], T.invited, [k1 EXCEPT ![t] = k], earned, ident)
        /\ [c1 EXCEPT ![t] = T.chan] \in [Servers -> [Chans -> ChannelRecords]]
    BY <1>13, <1>15, <1>16, <2>1, <2>2, WorldStep
  <2> QED BY <2>2, <2>3
<1>21. k2 \in [Servers -> SUBSET Users]
  BY <1>1, <1>16
<1> HIDE DEF c2, k2
<1>22. World(chans', invited', known', earned', ident')
  BY <1>3, <1>4, <1>6, <1>20
<1>23. QueueOK(queue', earned')
  BY <1>3, <1>5, <1>12
<1> QED BY <1>3, <1>4, <1>6, <1>10, <1>11, <1>20, <1>21, <1>22, <1>23 DEF Inv

(* The events that touch no channel.                                        *)
LEMMA EventInv ==
    ASSUME Inv, tick \/ \E s \in Servers : check_splitmode(s)
    PROVE  Inv'
<1>1. UNCHANGED <<chans, invited, known, net, linked, queue, ident, earned, scene>>
  BY DEF tick, check_splitmode
<1>2. now' \in Nat /\ now' > 0
  BY DEF tick, check_splitmode, Inv
<1>3. World(chans', invited', known', earned', ident') /\ QueueOK(queue', earned')
  BY <1>1 DEF Inv
<1> QED BY <1>1, <1>2, <1>3 DEF Inv
-----------------------------------------------------------------------------
(* A channel that the users of one server made is good there, when e is the *)
(* TS of the channel for its operators.                                     *)
LEMMA ApartGood ==
    ASSUME NEW s, NEW k, Apart(s, k), NEW e, NEW id,
           \A u \in DOMAIN k.members : "o" \in k.members[u] => e[u] = k.ts
    PROVE  Good(s, k, e, id) /\ k.invites = {} /\ k.ts \in Nat
<1>1. /\ k \in ChannelsOf({k.members}) /\ k.invites = {}
      /\ k.members \in [DOMAIN k.members -> SUBSET Status]
      /\ DOMAIN k.members \subseteq Users
      /\ Dated(k)
  BY DEF Apart, Dated
<1>2. k.members \in Members
  <2> DEFINE f == k.members
  <2>1. DOMAIN f \in SUBSET Users /\ f \in [DOMAIN f -> SUBSET MemberFlags]
    <3>1. SUBSET Status \subseteq SUBSET MemberFlags
      BY DEF MemberFlags
    <3>2. f \in [DOMAIN f -> SUBSET Status]
      BY <1>1
    <3> HIDE DEF f
    <3> QED BY <1>1, <3>1, <3>2 DEF f
  <2> HIDE DEF f
  <2>2. f \in Members
    BY <2>1, MembersFacts
  <2> QED BY <2>2 DEF f
<1>3. k \in ChannelRecords
  BY <1>1, <1>2 DEF ChannelRecords, ChannelsOf
<1>4. k.ts \in Nat
  BY <1>3, ChannelFacts
<1>5. Lawful(k, e)
  BY <1>4 DEF Lawful
<1>6. Fresh(s, k, id)
  <2>1. ASSUME NEW u \in DOMAIN k.members PROVE CacheRight(s, k, id, u)
    <3>1. k.members[u] \subseteq Status
      BY <1>1
    <3>2. k.members[u] \cap BanCache = {}
      BY <3>1 DEF Status, BanCache
    <3> QED BY <3>2 DEF CacheRight
  <2> QED BY <2>1 DEF Fresh
<1> QED BY <1>1, <1>3, <1>4, <1>5, <1>6 DEF Good

(* The servers start with sound channels.                                   *)
LEMMA InitInv == Init => Inv
<1> SUFFICES ASSUME Init PROVE Inv
  OBVIOUS
<1>1. /\ scene \in Scenes /\ chans = scene.chans /\ invited = [u \in Users |-> <<>>]
      /\ known = [s \in Servers |-> {u \in Users : Home[u] = s}]
      /\ net = [s \in Servers |-> {s}] /\ linked = [s \in Servers |-> {}]
      /\ queue = [s \in Servers |-> [t \in Servers |-> <<>>]]
      /\ ident \in [Users -> Idents \ NewIdents] /\ now = MaxTime - 1
  BY DEF Init
<1>2. chans = [s \in Servers |-> [c \in Chans |-> chans[s][c]]]
  BY <1>1, SceneAssumption, Zenon
<1>3. \A s \in Servers, c \in Chans : Apart(s, chans[s][c])
  BY <1>1, SceneAssumption, Zenon
<1>4. Home \in [Users -> Servers] /\ MaxChannels \in Nat /\ MaxTime \in Nat \ {0, 1}
  BY ChannelAssumption
<1>5. \A c \in Chans, u \in Users :
        earned[c][u] = IF has_member_flags(chans[Home[u]][c], u, {"o"})
                       THEN chans[Home[u]][c].ts ELSE Never
  BY DEF Init
<1>6. earned = [c \in Chans |-> [u \in Users |-> earned[c][u]]]
  BY DEF Init
<1>7. ASSUME NEW s \in Servers, NEW c \in Chans
      PROVE  LET k == chans[s][c]
             IN  /\ Good(s, k, earned[c], ident) /\ k.invites = {} /\ k.ts \in Nat
  <2> DEFINE k == chans[s][c]
             e == earned[c]
  <2>1. Apart(s, k)
    BY <1>3
  <2>2. \A u \in DOMAIN k.members : "o" \in k.members[u] => e[u] = k.ts
    <3>1. ASSUME NEW u \in DOMAIN k.members, "o" \in k.members[u] PROVE e[u] = k.ts
      <4>1. u \in Users /\ Home[u] = s
        BY <2>1 DEF Apart
      <4>2. has_member_flags(k, u, {"o"})
        BY <3>1 DEF has_member_flags, IsMember
      <4> QED BY <1>5, <4>1, <4>2
    <3> QED BY <3>1
  <2> HIDE DEF k, e
  <2>3. Good(s, k, e, ident) /\ k.invites = {} /\ k.ts \in Nat
    BY <2>1, <2>2, ApartGood
  <2> QED BY <2>3 DEF k, e
<1>8. chans \in [Servers -> [Chans -> ChannelRecords]]
  <2>1. \A s \in Servers, c \in Chans : chans[s][c] \in ChannelRecords
    BY <1>7 DEF Good
  <2> QED BY <1>2, <2>1
<1>9. earned \in [Chans -> [Users -> Nat]]
  <2>1. Never \in Nat
    BY <1>4 DEF Never
  <2>2. ASSUME NEW c \in Chans, NEW u \in Users PROVE earned[c][u] \in Nat
    <3>1. Home[u] \in Servers
      BY <1>4
    <3>2. chans[Home[u]][c].ts \in Nat
      BY <1>7, <3>1
    <3> QED BY <1>5, <2>1, <3>2
  <2> QED BY <1>6, <2>2
<1>10. QueueOK(queue, earned)
  <2>1. \A s, t \in Servers : queue[s][t] = <<>>
    BY <1>1
  <2>2. queue = [s \in Servers |-> [t \in Servers |-> queue[s][t]]]
    BY <1>1
  <2>3. ASSUME NEW s \in Servers, NEW t \in Servers
        PROVE  queue[s][t] \in Seq(Mail(s, t, earned))
    <3> DEFINE M == Mail(s, t, earned)
    <3> HIDE DEF M
    <3>1. <<>> \in Seq(M)
      BY ONLY TRUE
    <3>2. queue[s][t] = <<>>
      BY <2>1
    <3> QED BY <3>1, <3>2, Zenon DEF M
  <2> QED BY <2>2, <2>3 DEF QueueOK
<1>11. ASSUME NEW s \in Servers
       PROVE  Sound(s, [chan |-> chans[s], invited |-> invited], earned, ident, known[s])
  <2> DEFINE S == [chan |-> chans[s], invited |-> invited]
  <2>1. chans[s] \in [Chans -> ChannelRecords] /\ invited \in [Users -> Seq(Chans)]
    BY <1>1, <1>8
  <2>2. S \in Rooms /\ S.chan = chans[s] /\ S.invited = invited
    BY <2>1, MakeRooms
  <2> HIDE DEF S
  <2>3. \A u \in Users : S.invited[u] = <<>>
    BY <1>1, <2>2
  <2>4. \A c \in Chans : Good(s, S.chan[c], earned[c], ident) /\ S.chan[c].invites = {}
    BY <1>7, <2>2
  <2>5. \A u \in Users : Bounded(S.invited[u])
    <3>1. Bounded(<<>>)
      BY <1>4 DEF Bounded, IsInjective
    <3> QED BY <2>3, <3>1
  <2>6. Matched(s, S)
    <3>1. ToSet(<<>>) = {}
      BY DEF ToSet
    <3> QED BY <2>3, <2>4, <3>1 DEF Matched
  <2>7. Guests(s, S, known[s])
    BY <2>4 DEF Guests
  <2>8. Sound(s, S, earned, ident, known[s])
    BY <2>2, <2>4, <2>5, <2>6, <2>7 DEF Sound
  <2> QED BY <2>8 DEF S
<1>12. World(chans, invited, known, earned, ident)
  BY <1>11 DEF World
<1>13. /\ known \in [Servers -> SUBSET Users] /\ net \in [Servers -> SUBSET Servers]
       /\ linked \in [Servers -> SUBSET Servers] /\ \A s \in Servers : s \notin linked[s]
  BY <1>1
<1>14. ident \in [Users -> Idents \cup NewIdents]
  BY <1>1
<1>15. now \in Nat /\ now > 0
  BY <1>1, <1>4
<1> QED BY <1>1, <1>8, <1>9, <1>10, <1>12, <1>13, <1>14, <1>15 DEF Inv

(* Every step keeps the invariant.                                          *)
LEMMA NextInv == Inv /\ [Next]_vars => Inv'
<1> SUFFICES ASSUME Inv, [Next]_vars PROVE Inv'
  OBVIOUS
<1>1. CASE UNCHANGED vars
  <2>1. UNCHANGED <<chans, invited, known, net, linked, queue, ident, now, earned, scene>>
    BY <1>1 DEF vars
  <2>2. World(chans', invited', known', earned', ident') /\ QueueOK(queue', earned')
    BY <2>1 DEF Inv
  <2> QED BY <2>1, <2>2 DEF Inv
<1>2. ASSUME NEW s \in Servers, NEW u \in Users, Commands(s, u) PROVE Inv'
  <2>1. CASE m_join(s, u)
    BY <2>1, JoinInv
  <2>2. CASE m_part(s, u)
    BY <2>2, PartInv
  <2>3. CASE m_kick(s, u)
    BY <2>3, KickInv
  <2>4. CASE m_mode(s, u)
    BY <2>4, ModeInv
  <2>5. CASE mo_opme(s, u)
    BY <2>5, OpmeInv
  <2>6. CASE m_topic(s, u)
    BY <2>6, TopicInv
  <2>7. CASE m_invite(s, u)
    BY <2>7, InviteInv
  <2>8. CASE msg_channel(s, u)
    BY <2>8, MsgInv
  <2>9. CASE change_ident(s, u)
    BY <2>9, IdentInv
  <2>10. CASE m_quit(s, u)
    BY <2>10, QuitInv
  <2> QED BY <1>2, <2>1, <2>2, <2>3, <2>4, <2>5, <2>6, <2>7, <2>8, <2>9, <2>10 DEF Commands
<1>3. ASSUME NEW s \in Servers, NEW t \in Servers, Messages(t, s) PROVE Inv'
  <2>1. CASE ms_sjoin(t, s)
    BY <2>1, MsSjoinInv
  <2>2. CASE ms_join(t, s)
    BY <2>2, MsJoinInv
  <2>3. CASE ms_part(t, s)
    BY <2>3, MsPartInv
  <2>4. CASE ms_tmode(t, s)
    BY <2>4, MsTmodeInv
  <2>5. CASE ms_bmask(t, s)
    BY <2>5, MsBmaskInv
  <2>6. CASE ms_topic(t, s)
    BY <2>6, MsTopicInv
  <2>7. CASE ms_tburst(t, s)
    BY <2>7, MsTburstInv
  <2>8. CASE ms_invite(t, s)
    BY <2>8, MsInviteInv
  <2>9. CASE ms_quit(t, s)
    BY <2>9, MsQuitInv
  <2>10. CASE ms_server(t, s)
    BY <2>10, MsServerInv
  <2>11. CASE ms_squit(t, s)
    BY <2>11, MsSquitInv
  <2> QED BY <1>3, <2>1, <2>2, <2>3, <2>4, <2>5, <2>6, <2>7, <2>8, <2>9, <2>10, <2>11 DEF Messages
<1>4. ASSUME NEW s \in Servers, NEW t \in Servers, Connect(s, t) \/ Split(s, t) PROVE Inv'
  BY <1>4, ConnectInv, SplitInv
<1> QED BY <1>1, <1>2, <1>3, <1>4, EventInv DEF Next

(* Inv holds in every reachable state.                                      *)
THEOREM Invariance == Spec => []Inv
<1> QED BY InitInv, NextInv, PTL DEF Spec

(* NoTakeover: on no server, at no time, is somebody operator of a copy of  *)
(* a channel older than the status, for any network, any number of splits   *)
(* and rejoins and any order of bursts, JOINs and MODEs.                    *)
THEOREM TakeoverPrevented == Spec => []NoTakeover
<1>1. Inv => NoTakeover
  <2> SUFFICES ASSUME Inv, NEW s \in Servers, NEW c \in Chans, NEW u \in DOMAIN chans[s][c].members,
                      "o" \in chans[s][c].members[u]
               PROVE  chans[s][c].ts >= earned[c][u]
    BY DEF NoTakeover
  <2>1. Lawful(chans[s][c], earned[c])
    BY HereSound DEF Good
  <2> QED BY <2>1 DEF Lawful
<1> QED BY <1>1, Invariance, PTL

(* BanCacheFresh: what can_send() cached in a membership is what            *)
(* is_banned() would answer, whatever happened since to lists, modes, name  *)
(* and host.                                                                *)
THEOREM CacheStaysFresh == Spec => []BanCacheFresh
<1>1. Inv => BanCacheFresh
  <2> SUFFICES ASSUME Inv, NEW s \in Servers, NEW c \in Chans, NEW u \in DOMAIN chans[s][c].members
               PROVE  LET fl == chans[s][c].members[u] \cap BanCache
                      IN  fl # {} => /\ MyConnect(s, u)
                                     /\ "checked" \in fl
                                     /\ "silenced" \in fl <=> is_banned(chans[s][c], ident[u])
    BY DEF BanCacheFresh
  <2>1. CacheRight(s, chans[s][c], ident, u)
    BY HereSound DEF Good, Fresh
  <2> QED BY <2>1 DEF CacheRight, MyConnect
<1> QED BY <1>1, Invariance, PTL

(* InvitesMatch: the invitation list of a client and that of a channel name *)
(* each other, nothing in them is gone, and none grows past the limit.      *)
THEOREM InvitationsMatch == Spec => []InvitesMatch
<1>1. Inv => InvitesMatch
  <2> SUFFICES ASSUME Inv PROVE InvitesMatch
    OBVIOUS
  <2>1. ASSUME NEW s \in Servers
        PROVE  /\ \A c \in Chans, u \in Users :
                    MyConnect(s, u) => (u \in chans[s][c].invites <=> c \in ToSet(invited[u]))
               /\ \A c \in Chans : \A u \in chans[s][c].invites :
                    Exists(chans[s][c]) /\ MyConnect(s, u) /\ u \in known[s]
               /\ \A u \in Users : IsInjective(invited[u]) /\ Len(invited[u]) <= MaxChannels
    <3>1. /\ Sound(s, Here(s), earned, ident, known[s])
          /\ Here(s).chan = chans[s] /\ Here(s).invited = invited
      BY HereSound
    <3>2. Matched(s, Here(s)) /\ Guests(s, Here(s), known[s]) /\ \A u \in Users : Bounded(invited[u])
      BY <3>1 DEF Sound
    <3> QED BY <3>1, <3>2 DEF Matched, Guests, Bounded, MyConnect
  <2>2. \A u \in Users : Home[u] \in Servers
    BY ChannelAssumption
  <2>3. \A u \in Users : IsInjective(invited[u]) /\ Len(invited[u]) <= MaxChannels
    BY <2>1, <2>2
  <2> QED BY <2>1, <2>3 DEF InvitesMatch
<1> QED BY <1>1, Invariance, PTL
=============================================================================
