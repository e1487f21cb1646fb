------------------------- MODULE ChannelModesProofs -------------------------
(***************************************************************************)
(* What the functions of channel.c, channel_mode.c, m_sjoin.c and m_join.c *)
(* keep of a channel, for mode lines and lists of any length.              *)
(***************************************************************************)
EXTENDS ChannelModes, LinkedListsProofs

(* What add_user_to_channel() and the flags of a member range over.         *)
MemberFlags == Status \cup BanCache

(* The members of a channel: users, each with flags.                         *)
LEMMA MembersFacts ==
    ASSUME NEW f
    PROVE  f \in Members <=> /\ DOMAIN f \in SUBSET Users
                             /\ f \in [DOMAIN f -> SUBSET MemberFlags]
BY DEF Members, MemberFlags

(* The fields of a channel.                                                 *)
LEMMA ChannelFacts ==
    ASSUME NEW k \in ChannelRecords
    PROVE  /\ k.ts \in Nat /\ k.list \in [Lists -> SUBSET Args] /\ k.invites \in SUBSET Users
           /\ k.mode \in SUBSET ChanModes /\ k.limit \in Int /\ k.key \in Args
           /\ k.topic \in Topics /\ k.topic_time \in Nat
           /\ k.members \in Members
           /\ DOMAIN k.members \in SUBSET Users
           /\ k.members \in [DOMAIN k.members -> SUBSET MemberFlags]
<1>1. /\ k.ts \in Nat /\ k.list \in [Lists -> SUBSET Args] /\ k.invites \in SUBSET Users
      /\ k.mode \in SUBSET ChanModes /\ k.limit \in Int /\ k.key \in Args
      /\ k.topic \in Topics /\ k.topic_time \in Nat /\ k.members \in Members
  BY DEF ChannelRecords, ChannelsOf
<1> QED BY <1>1, MembersFacts

(* A channel with other members, and the same otherwise.                    *)
LEMMA WithMembers ==
    ASSUME NEW k \in ChannelRecords, NEW f \in Members
    PROVE  LET n == [k EXCEPT !.members = f]
           IN /\ n \in ChannelRecords
              /\ n.members = f /\ n.ts = k.ts /\ n.list = k.list /\ n.invites = k.invites
BY DEF ChannelRecords, ChannelsOf

(* A record with the right fields is a channel.                             *)
LEMMA MakeChannel ==
    ASSUME NEW ts \in Nat, NEW mode \in SUBSET ChanModes, NEW limit \in Int, NEW key \in Args,
           NEW list \in [Lists -> SUBSET Args], NEW topic \in Topics, NEW when \in Nat,
           NEW members \in Members, NEW invites \in SUBSET Users
    PROVE  [ts |-> ts, mode |-> mode, limit |-> limit, key |-> key, list |-> list,
            topic |-> topic, topic_time |-> when, members |-> members, invites |-> invites]
           \in ChannelRecords
BY DEF ChannelRecords, ChannelsOf

(* A channel that does not exist has no member and no invitation.           *)
LEMMA NoChannelFacts ==
    /\ NoChannel \in ChannelRecords
    /\ DOMAIN NoChannel.members = {} /\ NoChannel.invites = {} /\ ~ Exists(NoChannel)
<1>1. [u \in {} |-> {}] \in Members
  BY MembersFacts
<1>2. [x \in Lists |-> {}] \in [Lists -> SUBSET Args]
  OBVIOUS
<1>3. NoChannel \in ChannelRecords
  <2> DEFINE f == [u \in {} |-> {}]
             l == [x \in Lists |-> {}]
  <2>1. /\ f \in Members /\ l \in [Lists -> SUBSET Args]
        /\ {} \in SUBSET ChanModes /\ {} \in SUBSET Users
    BY <1>1, <1>2
  <2>3. "" \in Args /\ "" \in Topics
    BY ModesAssumption
  <2>2. NoChannel = [ts |-> 0, mode |-> {}, limit |-> 0, key |-> "", list |-> l, topic |-> "",
                     topic_time |-> 0, members |-> f, invites |-> {}]
    BY DEF NoChannel
  <2> HIDE DEF f, l
  <2>4. 0 \in Nat /\ 0 \in Int
    OBVIOUS
  <2> QED BY ONLY <2>1, <2>2, <2>3, <2>4, MakeChannel
<1> QED BY <1>3 DEF NoChannel, Exists

(* add_user_to_channel().                                                   *)
LEMMA AddUser ==
    ASSUME NEW k \in ChannelRecords, NEW u \in Users, NEW fl \in SUBSET MemberFlags
    PROVE  LET n == add_user_to_channel(k, u, fl)
           IN /\ n \in ChannelRecords
              /\ DOMAIN n.members = DOMAIN k.members \cup {u}
              /\ \A v \in DOMAIN n.members : n.members[v] = IF v = u THEN fl ELSE k.members[v]
              /\ n.ts = k.ts /\ n.list = k.list /\ n.invites = k.invites
<1> DEFINE f == [v \in DOMAIN k.members \cup {u} |-> IF v = u THEN fl ELSE k.members[v]]
<1>1. f \in Members
  BY MembersFacts, ChannelFacts
<1>2. add_user_to_channel(k, u, fl) = [k EXCEPT !.members = f]
  BY DEF add_user_to_channel, ChannelRecords, ChannelsOf
<1>3. DOMAIN f = DOMAIN k.members \cup {u} /\ \A v \in DOMAIN f : f[v] = IF v = u THEN fl ELSE k.members[v]
  OBVIOUS
<1> HIDE DEF f
<1> QED BY <1>1, <1>2, <1>3, WithMembers

(* remove_user_from_channel() of the users us.                              *)
LEMMA RemoveUsers ==
    ASSUME NEW k \in ChannelRecords, NEW us
    PROVE  LET n == remove_users(k, us)
           IN /\ n \in ChannelRecords
              /\ DOMAIN n.members = DOMAIN k.members \ us
              /\ \A v \in DOMAIN n.members : n.members[v] = k.members[v]
              /\ Exists(n) => n.ts = k.ts /\ n.list = k.list /\ n.invites = k.invites
              /\ ~ Exists(n) => n = NoChannel
<1>1. CASE DOMAIN k.members \subseteq us
  BY <1>1, NoChannelFacts DEF remove_users
<1>2. CASE ~ (DOMAIN k.members \subseteq us)
  <2> DEFINE f == [v \in DOMAIN k.members \ us |-> k.members[v]]
  <2>1. f \in Members
    BY MembersFacts, ChannelFacts
  <2>2. remove_users(k, us) = [k EXCEPT !.members = f]
    BY <1>2 DEF remove_users, ChannelRecords, ChannelsOf
  <2>3. DOMAIN f = DOMAIN k.members \ us /\ \A v \in DOMAIN f : f[v] = k.members[v]
    OBVIOUS
  <2>4. DOMAIN f # {}
    BY <1>2, <2>3
  <2> HIDE DEF f
  <2> QED BY <2>1, <2>2, <2>3, <2>4, WithMembers DEF Exists
<1> QED BY <1>1, <1>2

(* remove_our_modes() and clear_ban_cache_channel().                        *)
LEMMA WithoutFlagsFacts ==
    ASSUME NEW k \in ChannelRecords, NEW fl
    PROVE  LET n == WithoutFlags(k, fl)
           IN /\ n \in ChannelRecords
              /\ DOMAIN n.members = DOMAIN k.members
              /\ \A v \in DOMAIN k.members : n.members[v] = k.members[v] \ fl
              /\ n.ts = k.ts /\ n.list = k.list /\ n.invites = k.invites
<1> DEFINE f == [v \in DOMAIN k.members |-> k.members[v] \ fl]
<1>1. f \in Members
  BY MembersFacts, ChannelFacts
<1>2. WithoutFlags(k, fl) = [k EXCEPT !.members = f]
  BY DEF WithoutFlags, ChannelRecords, ChannelsOf
<1>3. DOMAIN f = DOMAIN k.members /\ \A v \in DOMAIN f : f[v] = k.members[v] \ fl
  OBVIOUS
<1> HIDE DEF f
<1> QED BY <1>1, <1>2, <1>3, WithMembers

(* The flags of one member changed.                                         *)
LEMMA OneMember ==
    ASSUME NEW k \in ChannelRecords, NEW u \in DOMAIN k.members, NEW fl \in SUBSET MemberFlags
    PROVE  LET n == [k EXCEPT !.members[u] = fl]
           IN /\ n \in ChannelRecords
              /\ DOMAIN n.members = DOMAIN k.members
              /\ \A v \in DOMAIN k.members : n.members[v] = IF v = u THEN fl ELSE k.members[v]
              /\ n.ts = k.ts /\ n.list = k.list /\ n.invites = k.invites
<1> DEFINE f == [k.members EXCEPT ![u] = fl]
<1>1. f \in Members
  BY MembersFacts, ChannelFacts
<1>2. [k EXCEPT !.members[u] = fl] = [k EXCEPT !.members = f]
  OBVIOUS
<1>3. DOMAIN f = DOMAIN k.members /\ \A v \in DOMAIN f : f[v] = IF v = u THEN fl ELSE k.members[v]
  BY ChannelFacts
<1> HIDE DEF f
<1> QED BY <1>1, <1>2, <1>3, WithMembers
-----------------------------------------------------------------------------
(* Changes that leave the members alone.                                    *)
LEMMA WithTS ==
    ASSUME NEW k \in ChannelRecords, NEW ts \in Nat
    PROVE  LET n == [k EXCEPT !.ts = ts]
           IN /\ n \in ChannelRecords
              /\ n.members = k.members /\ n.ts = ts /\ n.list = k.list /\ n.invites = k.invites
BY DEF ChannelRecords, ChannelsOf

(* As above, for the modes.                                                 *)
LEMMA WithModesFacts ==
    ASSUME NEW k \in ChannelRecords, NEW mode \in SUBSET ChanModes, NEW limit \in Int,
           NEW key \in Args
    PROVE  LET n == WithModes(k, mode, limit, key)
           IN /\ n \in ChannelRecords
              /\ n.members = k.members /\ n.ts = k.ts /\ n.list = k.list /\ n.invites = k.invites
BY DEF ChannelRecords, ChannelsOf, WithModes

(* As above, for the lists.                                                 *)
LEMMA WithList ==
    ASSUME NEW k \in ChannelRecords, NEW list \in [Lists -> SUBSET Args]
    PROVE  LET n == [k EXCEPT !.list = list]
           IN /\ n \in ChannelRecords
              /\ n.members = k.members /\ n.ts = k.ts /\ n.list = list /\ n.invites = k.invites
BY DEF ChannelRecords, ChannelsOf

(* As above, for the invitations.                                           *)
LEMMA WithInvites ==
    ASSUME NEW k \in ChannelRecords, NEW us \in SUBSET Users
    PROVE  LET n == [k EXCEPT !.invites = us]
           IN /\ n \in ChannelRecords
              /\ n.members = k.members /\ n.ts = k.ts /\ n.list = k.list /\ n.invites = us
BY DEF ChannelRecords, ChannelsOf

(* Nothing changed.                                                         *)
LEMMA SameInvites ==
    ASSUME NEW k \in ChannelRecords, NEW us, us = k.invites
    PROVE  [k EXCEPT !.invites = us] = k
BY DEF ChannelRecords, ChannelsOf

(* channel_set_topic().                                                     *)
LEMMA SetTopic ==
    ASSUME NEW k \in ChannelRecords, NEW topic \in Topics, NEW when \in Nat
    PROVE  LET n == channel_set_topic(k, topic, when)
           IN /\ n \in ChannelRecords
              /\ n.members = k.members /\ n.ts = k.ts /\ n.list = k.list /\ n.invites = k.invites
BY DEF ChannelRecords, ChannelsOf, channel_set_topic

(* The topic goes, the rest stays.                                          *)
LEMMA ClearTopic ==
    ASSUME NEW k \in ChannelRecords
    PROVE  LET n == clear_topic(k)
           IN /\ n \in ChannelRecords
              /\ n.members = k.members /\ n.ts = k.ts /\ n.list = k.list /\ n.invites = k.invites
<1>1. "" \in Topics
  BY ModesAssumption
<1>2. 0 \in Nat
  OBVIOUS
<1> QED BY <1>1, <1>2, SetTopic DEF clear_topic

(* remove_ban_list().                                                       *)
LEMMA RemoveBanList ==
    ASSUME NEW k \in ChannelRecords
    PROVE  LET n == remove_ban_list(k)
           IN /\ n \in ChannelRecords
              /\ n.members = k.members /\ n.ts = k.ts /\ n.invites = k.invites
<1> DEFINE l == [x \in Lists |-> {}]
<1>1. l \in [Lists -> SUBSET Args]
  OBVIOUS
<1>2. remove_ban_list(k) = [k EXCEPT !.list = l]
  BY DEF remove_ban_list
<1> HIDE DEF l
<1> QED BY <1>1, <1>2, WithList

(* clear_ban_cache_client(): the flags of one member, if it is one.         *)
LEMMA ClearClient ==
    ASSUME NEW k \in ChannelRecords, NEW u
    PROVE  LET n == clear_ban_cache_client(k, u)
           IN /\ n \in ChannelRecords
              /\ DOMAIN n.members = DOMAIN k.members
              /\ \A v \in DOMAIN k.members :
                    n.members[v] = IF v = u THEN k.members[v] \ BanCache ELSE k.members[v]
              /\ n.ts = k.ts /\ n.list = k.list /\ n.invites = k.invites
<1>1. CASE u \notin DOMAIN k.members
  <2>1. clear_ban_cache_client(k, u) = k
    BY <1>1 DEF clear_ban_cache_client, IsMember
  <2> QED BY <1>1, <2>1
<1>2. CASE u \in DOMAIN k.members
  <2> DEFINE fl == k.members[u] \ BanCache
  <2>1. fl \in SUBSET MemberFlags
    BY <1>2, ChannelFacts
  <2>2. clear_ban_cache_client(k, u) = [k EXCEPT !.members[u] = fl]
    BY <1>2 DEF clear_ban_cache_client, IsMember
  <2>3. \A v \in DOMAIN k.members :
          (IF v = u THEN fl ELSE k.members[v]) = IF v = u THEN k.members[v] \ BanCache ELSE k.members[v]
    OBVIOUS
  <2> HIDE DEF fl
  <2>5. LET n == [k EXCEPT !.members[u] = fl]
        IN /\ n \in ChannelRecords
           /\ DOMAIN n.members = DOMAIN k.members
           /\ \A v \in DOMAIN k.members : n.members[v] = IF v = u THEN fl ELSE k.members[v]
           /\ n.ts = k.ts /\ n.list = k.list /\ n.invites = k.invites
    BY <1>2, <2>1, OneMember
  <2> QED BY <2>2, <2>3, <2>5
<1> QED BY <1>1, <1>2

(* can_send(): a member whose bans were looked at is marked.                *)
LEMMA CanSend ==
    ASSUME NEW k \in ChannelRecords, NEW u, NEW w, NEW resv, NEW text
    PROVE  LET n == can_send(k, u, w, resv, text)
           IN /\ n \in ChannelRecords
              /\ DOMAIN n.members = DOMAIN k.members
              /\ n.ts = k.ts /\ n.list = k.list /\ n.invites = k.invites
              /\ \A v \in DOMAIN k.members :
                    \/ n.members[v] = k.members[v]
                    \/ /\ v = u
                       /\ k.members[v] \cap BanCache = {}
                       /\ n.members[v] = k.members[v] \cup IF is_banned(k, w.ident)
                                                           THEN BanCache ELSE {"checked"}
<1> DEFINE looks == /\ looks_at_bans(k, u, w, resv, text)
                    /\ IsMember(k, u) /\ ~ has_member_flags(k, u, BanCache)
           fl == k.members[u] \cup IF is_banned(k, w.ident) THEN BanCache ELSE {"checked"}
<1>1. CASE ~ looks
  <2>1. can_send(k, u, w, resv, text) = k
    BY <1>1 DEF can_send
  <2> QED BY <2>1
<1>2. CASE looks
  <2>1. u \in DOMAIN k.members /\ k.members[u] \cap BanCache = {}
    BY <1>2 DEF IsMember, has_member_flags
  <2>2. fl \in SUBSET MemberFlags
    BY <2>1, ChannelFacts DEF MemberFlags, BanCache
  <2>3. can_send(k, u, w, resv, text) = [k EXCEPT !.members[u] = fl]
    BY <1>2 DEF can_send
  <2>4. fl = k.members[u] \cup IF is_banned(k, w.ident) THEN BanCache ELSE {"checked"}
    OBVIOUS
  <2> HIDE DEF fl, looks
  <2>5. LET n == [k EXCEPT !.members[u] = fl]
        IN /\ n \in ChannelRecords
           /\ DOMAIN n.members = DOMAIN k.members
           /\ \A v \in DOMAIN k.members : n.members[v] = IF v = u THEN fl ELSE k.members[v]
           /\ n.ts = k.ts /\ n.list = k.list /\ n.invites = k.invites
    BY <2>1, <2>2, OneMember
  <2> QED BY <2>1, <2>3, <2>4, <2>5
<1> QED BY <1>1, <1>2
-----------------------------------------------------------------------------
(* The modes a SJOIN brings.                                                *)
NewModes == [ts : Nat, mode : SUBSET ChanModes, limit : Int, key : Args]

(* A record with the right fields is one of these.                          *)
LEMMA MakeModes ==
    ASSUME NEW ts \in Nat, NEW mode \in SUBSET ChanModes, NEW limit \in Int, NEW key \in Args
    PROVE  LET n == [ts |-> ts, mode |-> mode, limit |-> limit, key |-> key]
           IN  n \in NewModes /\ n.ts = ts
BY DEF NewModes

(* set_final_mode(): the timestamp and the modes.                           *)
LEMMA SetFinalMode ==
    ASSUME NEW k \in ChannelRecords, NEW new \in NewModes
    PROVE  LET n == set_final_mode(k, new)
           IN /\ n \in ChannelRecords
              /\ n.members = k.members /\ n.ts = FinalTS(k, new.ts)
              /\ n.list = k.list /\ n.invites = k.invites
<1> DEFINE base == [k EXCEPT !.ts = FinalTS(k, new.ts)]
           limit == IF k.limit > new.limit THEN k.limit ELSE new.limit
           key == IF KeyRank[new.key] < KeyRank[k.key] THEN k.key ELSE new.key
<1>1. /\ new.ts \in Nat /\ new.mode \in SUBSET ChanModes /\ new.limit \in Int
      /\ new.key \in Args
  BY DEF NewModes
<1>2. k.ts \in Nat /\ k.mode \in SUBSET ChanModes /\ k.limit \in Int /\ k.key \in Args
  BY ChannelFacts
<1>3. FinalTS(k, new.ts) \in Nat
  BY <1>1, <1>2 DEF FinalTS
<1>4. /\ base \in ChannelRecords
      /\ base.members = k.members /\ base.ts = FinalTS(k, new.ts)
      /\ base.list = k.list /\ base.invites = k.invites
  BY <1>3, WithTS
<1>5. limit \in Int /\ key \in Args /\ new.mode \cup k.mode \in SUBSET ChanModes
  BY <1>1, <1>2
<1>6. \/ set_final_mode(k, new) = base
      \/ set_final_mode(k, new) = WithModes(base, new.mode, new.limit, new.key)
      \/ set_final_mode(k, new) = WithModes(base, new.mode \cup k.mode, limit, key)
  BY DEF set_final_mode
<1> HIDE DEF base, limit, key
<1> QED BY <1>1, <1>4, <1>5, <1>6, WithModesFacts

(* The merge of ms_sjoin(): a side that lost the TS loses its status, its   *)
(* lists and its ban cache.                                                 *)
LEMMA SjoinMerge ==
    ASSUME NEW k \in ChannelRecords, NEW new \in NewModes
    PROVE  LET n == sjoin_merge(k, new)
           IN /\ n \in ChannelRecords
              /\ DOMAIN n.members = DOMAIN k.members
              /\ n.ts = FinalTS(k, new.ts) /\ n.invites = k.invites
              /\ KeepOurs(k, new.ts) => n.members = k.members /\ n.list = k.list
              /\ ~ KeepOurs(k, new.ts) =>
                    \A v \in DOMAIN k.members : n.members[v] = (k.members[v] \ Status) \ BanCache
<1> DEFINE c == set_final_mode(k, new)
           c1 == WithoutFlags(c, Status)
           c2 == remove_ban_list(c1)
           c3 == WithoutFlags(c2, BanCache)
           c4 == clear_topic(c3)
<1>1. /\ c \in ChannelRecords
      /\ c.members = k.members /\ c.ts = FinalTS(k, new.ts)
      /\ c.list = k.list /\ c.invites = k.invites
  BY SetFinalMode
<1>2. sjoin_merge(k, new) = IF KeepOurs(k, new.ts) THEN c ELSE c4
  BY DEF sjoin_merge, sjoin_reset, clear_ban_cache_channel, remove_our_modes
<1> HIDE DEF c
<1>3. /\ c1 \in ChannelRecords /\ DOMAIN c1.members = DOMAIN c.members
      /\ \A v \in DOMAIN c.members : c1.members[v] = c.members[v] \ Status
      /\ c1.ts = c.ts /\ c1.invites = c.invites
  BY <1>1, WithoutFlagsFacts
<1> HIDE DEF c1
<1>4. c2 \in ChannelRecords /\ c2.members = c1.members /\ c2.ts = c1.ts /\ c2.invites = c1.invites
  BY <1>3, RemoveBanList
<1> HIDE DEF c2
<1>5. /\ c3 \in ChannelRecords /\ DOMAIN c3.members = DOMAIN c2.members
      /\ \A v \in DOMAIN c2.members : c3.members[v] = c2.members[v] \ BanCache
      /\ c3.ts = c2.ts /\ c3.invites = c2.invites
  BY <1>4, WithoutFlagsFacts
<1> HIDE DEF c3
<1>6. c4 \in ChannelRecords /\ c4.members = c3.members /\ c4.ts = c3.ts /\ c4.invites = c3.invites
  BY <1>5, ClearTopic
<1> HIDE DEF c4
<1>7. CASE KeepOurs(k, new.ts)
  BY <1>1, <1>2, <1>7
<1>8. CASE ~ KeepOurs(k, new.ts)
  BY <1>1, <1>2, <1>3, <1>4, <1>5, <1>6, <1>8
<1> QED BY <1>7, <1>8

(* The merge of ms_join(): a side that lost the TS loses its status.        *)
LEMMA JoinMerge ==
    ASSUME NEW k \in ChannelRecords, NEW ts \in Nat
    PROVE  LET n == join_merge(k, ts)
           IN /\ n \in ChannelRecords
              /\ DOMAIN n.members = DOMAIN k.members
              /\ n.ts = FinalTS(k, ts) /\ n.invites = k.invites /\ n.list = k.list
              /\ KeepOurs(k, ts) => n.members = k.members
              /\ ~ KeepOurs(k, ts) =>
                    \A v \in DOMAIN k.members : n.members[v] = k.members[v] \ Status
<1> DEFINE new == [ts |-> ts, mode |-> {}, limit |-> 0, key |-> ""]
           c == set_final_mode(k, new)
           c1 == WithoutFlags(c, Status)
           c2 == clear_topic(c1)
<1>1. new \in NewModes /\ new.ts = ts
  <2>1. "" \in Args
    BY ModesAssumption
  <2>2. {} \in SUBSET ChanModes
    OBVIOUS
  <2>3. 0 \in Int
    OBVIOUS
  <2> QED BY <2>1, <2>2, <2>3, MakeModes
<1>2. join_merge(k, ts) = IF KeepOurs(k, ts) THEN c ELSE c2
  BY DEF join_merge, join_reset, remove_our_modes
<1> HIDE DEF new
<1>3. /\ c \in ChannelRecords
      /\ c.members = k.members /\ c.ts = FinalTS(k, ts)
      /\ c.list = k.list /\ c.invites = k.invites
  BY <1>1, SetFinalMode
<1> HIDE DEF c
<1>4. /\ c1 \in ChannelRecords /\ DOMAIN c1.members = DOMAIN c.members
      /\ \A v \in DOMAIN c.members : c1.members[v] = c.members[v] \ Status
      /\ c1.ts = c.ts /\ c1.invites = c.invites /\ c1.list = c.list
  BY <1>3, WithoutFlagsFacts
<1> HIDE DEF c1
<1>5. /\ c2 \in ChannelRecords /\ c2.members = c1.members /\ c2.ts = c1.ts
      /\ c2.invites = c1.invites /\ c2.list = c1.list
  BY <1>4, ClearTopic
<1> HIDE DEF c2
<1> QED BY <1>2, <1>3, <1>4, <1>5

(* The nicks of a SJOIN.                                                    *)
LEMMA SjoinMembers ==
    ASSUME NEW k \in ChannelRecords, NEW nicks \in Members
    PROVE  LET n == sjoin_members(k, nicks)
           IN /\ n \in ChannelRecords
              /\ DOMAIN n.members = DOMAIN k.members \cup DOMAIN nicks
              /\ \A v \in DOMAIN n.members :
                    n.members[v] = IF v \in DOMAIN k.members THEN k.members[v] ELSE nicks[v]
              /\ n.ts = k.ts /\ n.list = k.list /\ n.invites = k.invites
<1> DEFINE f == [v \in DOMAIN k.members \cup DOMAIN nicks |->
                    IF v \in DOMAIN k.members THEN k.members[v] ELSE nicks[v]]
<1>1. f \in Members
  <2>1. /\ DOMAIN k.members \in SUBSET Users
        /\ \A v \in DOMAIN k.members : k.members[v] \in SUBSET MemberFlags
    BY ChannelFacts
  <2>2. DOMAIN nicks \in SUBSET Users /\ \A v \in DOMAIN nicks : nicks[v] \in SUBSET MemberFlags
    BY MembersFacts
  <2>3. f \in [DOMAIN k.members \cup DOMAIN nicks -> SUBSET MemberFlags]
    BY <2>1, <2>2
  <2> QED BY <2>1, <2>2, <2>3, MembersFacts
<1>2. sjoin_members(k, nicks) = [k EXCEPT !.members = f]
  BY DEF sjoin_members, ChannelRecords, ChannelsOf
<1>3. /\ DOMAIN f = DOMAIN k.members \cup DOMAIN nicks
      /\ \A v \in DOMAIN f : f[v] = IF v \in DOMAIN k.members THEN k.members[v] ELSE nicks[v]
  OBVIOUS
<1> HIDE DEF f
<1> QED BY <1>1, <1>2, <1>3, WithMembers
-----------------------------------------------------------------------------
(* MODE.  A mode change keeps the timestamp, the invitations and who is a   *)
(* member; what can_send() cached it keeps with the lists it was computed   *)
(* from, or drops for everybody.                                            *)
SameRoom(k, n) ==
    n.ts = k.ts /\ n.invites = k.invites /\ DOMAIN n.members = DOMAIN k.members
CacheKept(k, n) ==
    \/ /\ \A u \in DOMAIN k.members : n.members[u] \cap BanCache = k.members[u] \cap BanCache
       /\ n.list["b"] = k.list["b"] /\ n.list["e"] = k.list["e"]
    \/ \A u \in DOMAIN k.members : n.members[u] \cap BanCache = {}
SameOps(k, n) ==
    \A u \in DOMAIN k.members : "o" \in n.members[u] => "o" \in k.members[u]

(* A list of masks is changed the way add_id() and del_id() do it.          *)
LEMMA ListChange ==
    ASSUME NEW k \in ChannelRecords, NEW l \in Lists, NEW masks \in SUBSET Args
    PROVE  LET n == [ForgetBans(k, l) EXCEPT !.list[l] = masks]
           IN n \in ChannelRecords /\ SameRoom(k, n) /\ CacheKept(k, n) /\ SameOps(k, n)
<1> DEFINE f == ForgetBans(k, l)
           list == [f.list EXCEPT ![l] = masks]
           n == [f EXCEPT !.list = list]
<1>1. /\ f \in ChannelRecords /\ SameRoom(k, f) /\ f.list = k.list
      /\ \A u \in DOMAIN k.members : f.members[u] \ BanCache = k.members[u] \ BanCache
      /\ \/ l = "I" /\ f = k
         \/ \A u \in DOMAIN k.members : f.members[u] \cap BanCache = {}
  <2>1. CASE l = "I"
    <3>1. f = k
      BY <2>1 DEF ForgetBans
    <3> QED BY <2>1, <3>1 DEF SameRoom
  <2>2. CASE l # "I"
    <3>1. f = WithoutFlags(k, BanCache)
      BY <2>2 DEF ForgetBans, clear_ban_cache_channel
    <3> HIDE DEF f
    <3>2. /\ f \in ChannelRecords /\ DOMAIN f.members = DOMAIN k.members
          /\ \A v \in DOMAIN k.members : f.members[v] = k.members[v] \ BanCache
          /\ f.ts = k.ts /\ f.list = k.list /\ f.invites = k.invites
      BY <3>1, WithoutFlagsFacts
    <3> QED BY <3>2 DEF SameRoom
  <2> QED BY <2>1, <2>2
<1>2. [ForgetBans(k, l) EXCEPT !.list[l] = masks] = n
  OBVIOUS
<1> HIDE DEF f
<1>3. list \in [Lists -> SUBSET Args] /\ \A x \in Lists \ {l} : list[x] = f.list[x]
  <2>1. f.list \in [Lists -> SUBSET Args]
    BY <1>1, ChannelFacts
  <2> QED BY <2>1
<1> HIDE DEF list
<1>4. /\ n \in ChannelRecords
      /\ n.members = f.members /\ n.ts = f.ts /\ n.list = list /\ n.invites = f.invites
  BY <1>1, <1>3, WithList
<1> HIDE DEF n
<1>5. SameRoom(k, n)
  BY <1>1, <1>4 DEF SameRoom
<1>6. SameOps(k, n)
  <2>1. "o" \notin BanCache
    BY DEF BanCache
  <2> QED BY <1>1, <1>4, <2>1 DEF SameOps
<1>7. CacheKept(k, n)
  <2>1. CASE l = "I" /\ f = k
    <3>1. n.list["b"] = k.list["b"] /\ n.list["e"] = k.list["e"]
      BY <1>3, <1>4, <2>1 DEF Lists
    <3>2. \A u \in DOMAIN k.members : n.members[u] = k.members[u]
      BY <1>4, <2>1
    <3> QED BY <3>1, <3>2 DEF CacheKept
  <2>2. CASE \A u \in DOMAIN k.members : f.members[u] \cap BanCache = {}
    BY <1>4, <2>2 DEF CacheKept
  <2> QED BY <1>1, <2>1, <2>2
<1> QED BY <1>2, <1>4, <1>5, <1>6, <1>7
-----------------------------------------------------------------------------
(* The changes a walk notes: a parameter where the letter takes one.        *)
ModeLetters == ChanModes \cup Lists \cup Status \cup {"k", "l"}
Takes(letter, dir) == letter \in Lists \cup Status \cup {"k"} \/ (letter = "l" /\ dir = "+")
Changes ==
    {c \in [dir : {"+", "-"}, letter : ModeLetters, arg : Args] :
        c.arg # "" <=> Takes(c.letter, c.dir)}
WalkRecords ==
    [chan : ChannelRecords, changes : Seq(Changes), mask : SUBSET ChanModes, limit : Nat,
     args : Seq(Args)]
Directions == {"+", "-", "="}

(* What the walk from x to y may do: it makes nobody operator whom it does  *)
(* not name in its changes, and forgets nobody it named.                    *)
Walks(x, y) ==
    /\ SameRoom(x.chan, y.chan) /\ CacheKept(x.chan, y.chan)
    /\ \A u \in DOMAIN x.chan.members :
          "o" \in y.chan.members[u] => "o" \in x.chan.members[u] \/ u \in Opped(y.changes)
    /\ Opped(x.changes) \subseteq Opped(y.changes)

(* The fields of the state of a walk.                                       *)
LEMMA WalkFacts ==
    ASSUME NEW x \in WalkRecords
    PROVE  /\ x.chan \in ChannelRecords /\ x.changes \in Seq(Changes)
           /\ x.mask \in SUBSET ChanModes /\ x.limit \in Nat /\ x.args \in Seq(Args)
BY DEF WalkRecords

(* The state of a walk with other fields.                                   *)
LEMMA WalkWith ==
    ASSUME NEW x \in WalkRecords
    PROVE  /\ \A c \in ChannelRecords :
                LET y == [x EXCEPT !.chan = c]
                IN  /\ y \in WalkRecords /\ y.chan = c /\ y.changes = x.changes /\ y.args = x.args
                    /\ y.limit = x.limit
           /\ \A l \in Nat :
                LET y == [x EXCEPT !.limit = l]
                IN  /\ y \in WalkRecords /\ y.chan = x.chan /\ y.changes = x.changes /\ y.args = x.args
                    /\ y.limit = l
           /\ \A a \in Seq(Args) :
                LET y == [x EXCEPT !.args = a]
                IN  /\ y \in WalkRecords /\ y.chan = x.chan /\ y.changes = x.changes /\ y.args = a
                    /\ y.limit = x.limit
           /\ \A S \in SUBSET ChanModes :
                LET y == [x EXCEPT !.mask = S]
                IN  /\ y \in WalkRecords /\ y.chan = x.chan /\ y.changes = x.changes /\ y.args = x.args
                    /\ y.limit = x.limit
           /\ \A q \in Seq(Changes) :
                LET y == [x EXCEPT !.changes = q]
                IN  /\ y \in WalkRecords /\ y.chan = x.chan /\ y.changes = q /\ y.args = x.args
                    /\ y.limit = x.limit
BY DEF WalkRecords

(* Who is made operator, by the set of the changes.                         *)
LEMMA OppedSet ==
    ASSUME NEW q
    PROVE  Opped(q) = {c.arg : c \in {d \in ToSet(q) : d.letter = "o" /\ d.dir = "+"}}
BY DEF Opped, ToSet

(* A change is noted at the end.                                            *)
LEMMA NoteFacts ==
    ASSUME NEW x \in WalkRecords, NEW m, NEW arg \in Args, m.dir \in {"+", "-"},
           m.letter \in ModeLetters, arg # "" <=> Takes(m.letter, m.dir)
    PROVE  LET y == NoteChange(x, m, arg)
           IN /\ y \in WalkRecords /\ y.chan = x.chan /\ y.args = x.args
              /\ Opped(y.changes) = Opped(x.changes) \cup
                                    IF m.letter = "o" /\ m.dir = "+" THEN {arg} ELSE {}
<1> DEFINE c == Change(m.dir, m.letter, arg)
           q == Append(x.changes, c)
<1>1. c \in Changes /\ c.letter = m.letter /\ c.dir = m.dir /\ c.arg = arg
  BY DEF Change, Changes
<1>2. NoteChange(x, m, arg) = [x EXCEPT !.changes = q]
  BY DEF NoteChange
<1> HIDE DEF c
<1>3. x.changes \in Seq(Changes)
  BY WalkFacts
<1>4. q \in Seq(Changes) /\ ToSet(q) = ToSet(x.changes) \cup {c}
  <2>1. c \in Changes
    BY <1>1
  <2> QED BY ONLY <2>1, <1>3, AppendFacts
<1> HIDE DEF q
<1>5. Opped(q) = Opped(x.changes) \cup IF m.letter = "o" /\ m.dir = "+" THEN {arg} ELSE {}
  <2>1. Opped(q) = {d.arg : d \in {e \in ToSet(q) : e.letter = "o" /\ e.dir = "+"}}
    BY OppedSet
  <2>2. Opped(x.changes) = {d.arg : d \in {e \in ToSet(x.changes) : e.letter = "o" /\ e.dir = "+"}}
    BY OppedSet
  <2> QED BY <1>1, <1>4, <2>1, <2>2
<1>6. LET y == [x EXCEPT !.changes = q]
      IN  y \in WalkRecords /\ y.chan = x.chan /\ y.changes = q /\ y.args = x.args
  BY <1>4, WalkWith
<1> QED BY <1>2, <1>5, <1>6

(* +l and +k take back what was noted of them before.                       *)
LEMMA SupersedeFacts ==
    ASSUME NEW x \in WalkRecords, NEW m, NEW arg \in Args \ {""}, m.dir = "+",
           m.letter \in {"k", "l"}
    PROVE  LET y == Supersede(x, m, arg)
           IN /\ y \in WalkRecords /\ y.chan = x.chan /\ y.args = x.args
              /\ Opped(y.changes) = Opped(x.changes)
<1> DEFINE T == {d \in ToSet(x.changes) : ~ (d.letter = m.letter /\ d.dir = "+")}
           q == Keep(x.changes, T)
           z == [x EXCEPT !.changes = q]
<1>1. x.changes \in Seq(Changes)
  BY WalkFacts
<1>2. q \in Seq(Changes) /\ ToSet(q) = ToSet(x.changes) \cap T
  <2> DEFINE p == x.changes
  <2>1. p \in Seq(Changes)
    BY <1>1
  <2> HIDE DEF p, T
  <2>2. Keep(p, T) \in Seq(Changes) /\ ToSet(Keep(p, T)) = ToSet(p) \cap T
    BY ONLY <2>1, KeepFacts
  <2> QED BY <2>2 DEF p
<1>3. Opped(q) = Opped(x.changes)
  <2>1. Opped(q) = {d.arg : d \in {e \in ToSet(q) : e.letter = "o" /\ e.dir = "+"}}
    BY OppedSet
  <2>2. Opped(x.changes) = {d.arg : d \in {e \in ToSet(x.changes) : e.letter = "o" /\ e.dir = "+"}}
    BY OppedSet
  <2>3. {e \in ToSet(q) : e.letter = "o" /\ e.dir = "+"}
        = {e \in ToSet(x.changes) : e.letter = "o" /\ e.dir = "+"}
    BY <1>2
  <2> QED BY <2>1, <2>2, <2>3
<1>4. Supersede(x, m, arg) = NoteChange(z, m, arg)
  BY DEF Supersede
<1> HIDE DEF q
<1>5. z \in WalkRecords /\ z.chan = x.chan /\ z.args = x.args /\ z.changes = q
  BY <1>2, WalkWith
<1> HIDE DEF z
<1>6. m.dir \in {"+", "-"} /\ m.letter \in ModeLetters /\ Takes(m.letter, m.dir) /\ m.letter # "o"
  BY DEF ModeLetters, Takes
<1>7. LET y == NoteChange(z, m, arg)
      IN  y \in WalkRecords /\ y.chan = z.chan /\ y.args = z.args /\ Opped(y.changes) = Opped(z.changes)
  <2>1. arg \in Args /\ (arg # "" <=> Takes(m.letter, m.dir))
    BY <1>6
  <2>2. LET y == NoteChange(z, m, arg)
        IN  /\ y \in WalkRecords /\ y.chan = z.chan /\ y.args = z.args
            /\ Opped(y.changes) = Opped(z.changes) \cup
                                  IF m.letter = "o" /\ m.dir = "+" THEN {arg} ELSE {}
    BY ONLY <1>5, <1>6, <2>1, NoteFacts
  <2> QED BY <1>6, <2>2
<1> QED BY <1>3, <1>4, <1>5, <1>7

(* One step of the walk.  In what another server says, a letter takes a     *)
(* parameter exactly when Takes says so.                                    *)
Remote(w) == w.alev = CHACCESS_REMOTE /\ ~ w.local /\ w.server
Named(x, y, m) ==
    Opped(y.changes) \subseteq Opped(x.changes) \cup
        IF m.letter = "o" /\ m.dir = "+" /\ x.args # <<>> THEN {Head(x.args)} ELSE {}
Consumed(x, y, m) ==
    /\ Takes(m.letter, m.dir) /\ x.args # <<>> => y.args = Tail(x.args)
    /\ ~ Takes(m.letter, m.dir) => y.args = x.args
Step(x, y, w, m) ==
    /\ y \in WalkRecords /\ Walks(x, y) /\ Named(x, y, m)
    /\ Remote(w) /\ m.dir \in {"+", "-"} => Consumed(x, y, m)

(* Nothing but the parameters is touched.                                   *)
LEMMA StepQuiet ==
    ASSUME NEW x \in WalkRecords, NEW y \in WalkRecords, NEW w, NEW m,
           y.chan = x.chan, y.changes = x.changes,
           Remote(w) /\ m.dir \in {"+", "-"} => Consumed(x, y, m)
    PROVE  Step(x, y, w, m)
BY DEF Step, Walks, Named, SameRoom, CacheKept

(* The channel changes, and nobody in it becomes operator.                  *)
LEMMA StepNoted ==
    ASSUME NEW x \in WalkRecords, NEW y \in WalkRecords, NEW w, NEW m,
           SameRoom(x.chan, y.chan), CacheKept(x.chan, y.chan), SameOps(x.chan, y.chan),
           Opped(y.changes) = Opped(x.changes),
           Remote(w) /\ m.dir \in {"+", "-"} => Consumed(x, y, m)
    PROVE  Step(x, y, w, m)
BY DEF Step, Walks, Named, SameOps

(* A channel with other modes.                                              *)
LEMMA ModeChange ==
    ASSUME NEW k \in ChannelRecords
    PROVE  /\ \A mode \in SUBSET ChanModes :
                LET n == [k EXCEPT !.mode = mode]
                IN  n \in ChannelRecords /\ SameRoom(k, n) /\ CacheKept(k, n) /\ SameOps(k, n)
           /\ \A limit \in Int :
                LET n == [k EXCEPT !.limit = limit]
                IN  n \in ChannelRecords /\ SameRoom(k, n) /\ CacheKept(k, n) /\ SameOps(k, n)
           /\ \A key \in Args :
                LET n == [k EXCEPT !.key = key]
                IN  n \in ChannelRecords /\ SameRoom(k, n) /\ CacheKept(k, n) /\ SameOps(k, n)
<1>1. ASSUME NEW n, n.members = k.members, n.list = k.list, n.ts = k.ts, n.invites = k.invites
      PROVE  SameRoom(k, n) /\ CacheKept(k, n) /\ SameOps(k, n)
  BY <1>1 DEF SameRoom, CacheKept, SameOps
<1>2. ASSUME NEW mode \in SUBSET ChanModes
      PROVE  LET n == [k EXCEPT !.mode = mode]
             IN  n \in ChannelRecords /\ SameRoom(k, n) /\ CacheKept(k, n) /\ SameOps(k, n)
  <2> DEFINE n == [k EXCEPT !.mode = mode]
  <2>1. /\ n \in ChannelRecords /\ n.members = k.members /\ n.list = k.list /\ n.ts = k.ts
        /\ n.invites = k.invites
    BY DEF ChannelRecords, ChannelsOf
  <2> HIDE DEF n
  <2>2. n \in ChannelRecords /\ SameRoom(k, n) /\ CacheKept(k, n) /\ SameOps(k, n)
    BY <1>1, <2>1
  <2> QED BY <2>2 DEF n
<1>3. ASSUME NEW limit \in Int
      PROVE  LET n == [k EXCEPT !.limit = limit]
             IN  n \in ChannelRecords /\ SameRoom(k, n) /\ CacheKept(k, n) /\ SameOps(k, n)
  <2> DEFINE n == [k EXCEPT !.limit = limit]
  <2>1. /\ n \in ChannelRecords /\ n.members = k.members /\ n.list = k.list /\ n.ts = k.ts
        /\ n.invites = k.invites
    BY DEF ChannelRecords, ChannelsOf
  <2> HIDE DEF n
  <2>2. n \in ChannelRecords /\ SameRoom(k, n) /\ CacheKept(k, n) /\ SameOps(k, n)
    BY <1>1, <2>1
  <2> QED BY <2>2 DEF n
<1>4. ASSUME NEW key \in Args
      PROVE  LET n == [k EXCEPT !.key = key]
             IN  n \in ChannelRecords /\ SameRoom(k, n) /\ CacheKept(k, n) /\ SameOps(k, n)
  <2> DEFINE n == [k EXCEPT !.key = key]
  <2>1. /\ n \in ChannelRecords /\ n.members = k.members /\ n.list = k.list /\ n.ts = k.ts
        /\ n.invites = k.invites
    BY DEF ChannelRecords, ChannelsOf
  <2> HIDE DEF n
  <2>2. n \in ChannelRecords /\ SameRoom(k, n) /\ CacheKept(k, n) /\ SameOps(k, n)
    BY <1>1, <2>1
  <2> QED BY <2>2 DEF n
<1> QED BY <1>2, <1>3, <1>4

(* The functions of the simple modes.                                       *)
LEMMA SimpleStep ==
    ASSUME NEW x \in WalkRecords, NEW w, NEW m, m.letter \in ChanModes, m.dir \in Directions
    PROVE  Step(x, simple_mode(x, m), w, m) /\ Step(x, x, w, m)
<1>1. ~ Takes(m.letter, m.dir) /\ m.letter \in ModeLetters /\ m.letter # "o"
  BY DEF Takes, ChanModes, SimpleModes, Lists, Status, ModeLetters
<1>2. \A y : y.args = x.args => Consumed(x, y, m)
  BY <1>1 DEF Consumed
<1>3. Step(x, x, w, m)
  BY <1>2, StepQuiet
<1>4. CASE m.letter \in x.mask
  BY <1>3, <1>4 DEF simple_mode
<1>5. CASE m.letter \notin x.mask
  <2> DEFINE y == [x EXCEPT !.mask = @ \cup {m.letter}]
  <2>1. y \in WalkRecords /\ y.chan = x.chan /\ y.changes = x.changes /\ y.args = x.args
    <3>1. x.mask \cup {m.letter} \in SUBSET ChanModes
      BY WalkFacts
    <3> QED BY <3>1, WalkWith
  <2>2. simple_mode(x, m) =
          CASE m.dir = "+" -> NoteChange([y EXCEPT !.chan.mode = @ \cup {m.letter}], m, NoArg)
            [] m.dir = "-" -> NoteChange([y EXCEPT !.chan.mode = @ \ {m.letter}], m, NoArg)
            [] OTHER -> y
    BY <1>5 DEF simple_mode
  <2> HIDE DEF y
  <2>3. CASE m.dir = "="
    <3>1. simple_mode(x, m) = y
      BY <2>2, <2>3
    <3> QED BY <1>2, <1>3, <2>1, <3>1, StepQuiet
  <2>4. ASSUME NEW mode \in SUBSET ChanModes, m.dir \in {"+", "-"},
               simple_mode(x, m) = NoteChange([y EXCEPT !.chan.mode = mode], m, NoArg)
        PROVE  Step(x, simple_mode(x, m), w, m)
    <3> DEFINE k == [y.chan EXCEPT !.mode = mode]
               z == [y EXCEPT !.chan = k]
               n == NoteChange(z, m, NoArg)
    <3>1. simple_mode(x, m) = n
      BY <2>4
    <3>2. k \in ChannelRecords /\ SameRoom(x.chan, k) /\ CacheKept(x.chan, k) /\ SameOps(x.chan, k)
      BY <2>1, WalkFacts, ModeChange
    <3> HIDE DEF k
    <3>3. z \in WalkRecords /\ z.chan = k /\ z.changes = x.changes /\ z.args = x.args
      BY <2>1, <3>2, WalkWith
    <3> HIDE DEF z
    <3>4. NoArg \in Args /\ (NoArg # "" <=> Takes(m.letter, m.dir))
      BY <1>1, ModesAssumption DEF NoArg
    <3>5. /\ n \in WalkRecords /\ n.chan = z.chan /\ n.args = z.args
          /\ Opped(n.changes) = Opped(z.changes) \cup
                                IF m.letter = "o" /\ m.dir = "+" THEN {NoArg} ELSE {}
      BY ONLY <1>1, <2>4, <3>3, <3>4, NoteFacts
    <3> HIDE DEF n
    <3>6. Opped(n.changes) = Opped(x.changes)
      BY <1>1, <3>3, <3>5
    <3>7. Consumed(x, n, m)
      BY <1>2, <3>3, <3>5
    <3> QED BY <3>1, <3>2, <3>3, <3>5, <3>6, <3>7, StepNoted
  <2>5. CASE m.dir = "+"
    <3>1. simple_mode(x, m) = NoteChange([y EXCEPT !.chan.mode = y.chan.mode \cup {m.letter}], m, NoArg)
      BY <2>2, <2>5
    <3>2. y.chan.mode \cup {m.letter} \in SUBSET ChanModes
      BY <2>1, WalkFacts, ChannelFacts
    <3>3. m.dir \in {"+", "-"}
      BY <2>5
    <3> QED BY <1>3, <2>4, <3>1, <3>2, <3>3
  <2>6. CASE m.dir = "-"
    <3>1. simple_mode(x, m) = NoteChange([y EXCEPT !.chan.mode = y.chan.mode \ {m.letter}], m, NoArg)
      BY <2>2, <2>6
    <3>2. y.chan.mode \ {m.letter} \in SUBSET ChanModes
      BY <2>1, WalkFacts, ChannelFacts
    <3>3. m.dir \in {"+", "-"}
      BY <2>6
    <3> QED BY <1>3, <2>4, <3>1, <3>2, <3>3
  <2>7. Step(x, simple_mode(x, m), w, m)
    BY <2>3, <2>5, <2>6 DEF Directions
  <2> QED BY <1>3, <2>7
<1> QED BY <1>4, <1>5

(* The first of the parameters that are left, and the others.               *)
LEMMA NextArg ==
    ASSUME NEW x \in WalkRecords, x.args # <<>>
    PROVE  Head(x.args) \in Args /\ Tail(x.args) \in Seq(Args)
<1>1. x.args \in Seq(Args)
  BY WalkFacts
<1> DEFINE q == x.args
<1>2. q \in Seq(Args) /\ q # <<>>
  BY <1>1
<1> HIDE DEF q
<1>3. Head(q) \in Args /\ Tail(q) \in Seq(Args)
  BY <1>2
<1> QED BY <1>3 DEF q

(* chm_ban(), chm_except() and chm_invex().                                 *)
LEMMA ListStep ==
    ASSUME NEW x \in WalkRecords, NEW w, NEW m, m.letter \in Lists, m.dir \in Directions
    PROVE  Step(x, chm_list(x, w, m), w, m)
<1>1. Takes(m.letter, m.dir) /\ m.letter \in ModeLetters /\ m.letter # "o"
  BY DEF Takes, ModeLetters, Lists
<1>2. CASE m.dir = "=" \/ x.args = <<>> \/ ~ IsHalfop(w)
  <2>1. chm_list(x, w, m) = x
    BY <1>2 DEF chm_list
  <2>2. Remote(w) /\ m.dir \in {"+", "-"} => Consumed(x, x, m)
    BY <1>1, <1>2 DEF Consumed, Remote, IsHalfop, CHACCESS_REMOTE, CHACCESS_HALFOP
  <2> QED BY <2>1, <2>2, StepQuiet
<1>3. CASE ~ (m.dir = "=" \/ x.args = <<>> \/ ~ IsHalfop(w))
  <2> DEFINE a == Head(x.args)
             y == [x EXCEPT !.limit = @ + 1]
             z == [y EXCEPT !.args = Tail(@)]
  <2>1. y \in WalkRecords /\ y.chan = x.chan /\ y.changes = x.changes /\ y.args = x.args
    <3>1. x.limit \in Nat
      BY WalkFacts
    <3>2. x.limit + 1 \in Nat
      BY ONLY <3>1
    <3> QED BY <3>2, WalkWith
  <2>2. z \in WalkRecords /\ z.chan = x.chan /\ z.changes = x.changes /\ z.args = Tail(x.args)
    <3> HIDE DEF y
    <3>1. Tail(y.args) \in Seq(Args)
      BY <1>3, <2>1, NextArg
    <3>2. z = [y EXCEPT !.args = Tail(y.args)]
      OBVIOUS
    <3> DEFINE r == Tail(y.args)
    <3> HIDE DEF r, z
    <3>3. LET n == [y EXCEPT !.args = r]
          IN  n \in WalkRecords /\ n.chan = y.chan /\ n.changes = y.changes /\ n.args = r
      BY <2>1, <3>1, WalkWith DEF r
    <3> QED BY <2>1, <3>2, <3>3 DEF r
  <2>3. a \in Args
    BY <1>3, NextArg
  <2>4. Nuh[a] \in Args /\ Nuh[a] # ""
    BY <2>3, ModesAssumption
  <2>5. chm_list(x, w, m) =
          IF w.local /\ y.limit > MAXMODEPARAMS THEN y
          ELSE IF m.dir = "+"
          THEN LET n == [z EXCEPT !.chan = add_id(@, w, m.letter, a)]
               IN  IF add_id_adds(z.chan, w, m.letter, a)
                   THEN NoteChange(n, m, Nuh[a]) ELSE n
          ELSE LET n == [z EXCEPT !.chan = del_id(@, m.letter, a)]
               IN  IF Nuh[a] \in z.chan.list[m.letter]
                   THEN NoteChange(n, m, Nuh[a]) ELSE n
    BY <1>3 DEF chm_list
  <2> HIDE DEF y, z, a
  <2>6. \A n : n.args = Tail(x.args) => Consumed(x, n, m)
    BY <1>1 DEF Consumed
  <2>7. ASSUME NEW k \in ChannelRecords,
               SameRoom(x.chan, k), CacheKept(x.chan, k), SameOps(x.chan, k)
        PROVE  LET n == [z EXCEPT !.chan = k]
               IN  Step(x, n, w, m) /\ Step(x, NoteChange(n, m, Nuh[a]), w, m)
    <3> DEFINE n == [z EXCEPT !.chan = k]
               p == NoteChange(n, m, Nuh[a])
    <3>1. n \in WalkRecords /\ n.chan = k /\ n.changes = x.changes /\ n.args = Tail(x.args)
      BY <2>2, WalkWith
    <3> HIDE DEF n
    <3>2. m.dir \in {"+", "-"} /\ (Nuh[a] # "" <=> Takes(m.letter, m.dir))
      BY <1>1, <1>3, <2>4 DEF Directions
    <3>3. /\ p \in WalkRecords /\ p.chan = n.chan /\ p.args = n.args
          /\ Opped(p.changes) = Opped(n.changes) \cup
                                IF m.letter = "o" /\ m.dir = "+" THEN {Nuh[a]} ELSE {}
      BY ONLY <1>1, <2>4, <3>1, <3>2, NoteFacts
    <3> HIDE DEF p
    <3>4. Opped(p.changes) = Opped(x.changes)
      BY <1>1, <3>1, <3>3
    <3>5. Step(x, n, w, m)
      BY <2>6, <2>7, <3>1, StepNoted
    <3>6. Step(x, p, w, m)
      BY <2>6, <2>7, <3>1, <3>3, <3>4, StepNoted
    <3> QED BY <3>5, <3>6 DEF n, p
  <2>8. ASSUME NEW S \in SUBSET Args
        PROVE  LET k == [ForgetBans(x.chan, m.letter) EXCEPT !.list[m.letter] = S]
               IN  /\ k \in ChannelRecords
                   /\ SameRoom(x.chan, k) /\ CacheKept(x.chan, k) /\ SameOps(x.chan, k)
    BY WalkFacts, ListChange
  <2>9. ForgetBans(x.chan, m.letter).list[m.letter] \in SUBSET Args
    <3>1. ForgetBans(x.chan, m.letter) \in ChannelRecords
      BY WalkFacts, WithoutFlagsFacts DEF ForgetBans, clear_ban_cache_channel
    <3> QED BY <3>1, ChannelFacts
  <2>10. CASE w.local /\ y.limit > MAXMODEPARAMS
    <3>1. ~ Remote(w)
      BY <2>10 DEF Remote
    <3> QED BY <2>1, <2>5, <2>10, <3>1, StepQuiet
  <2>11. CASE ~ (w.local /\ y.limit > MAXMODEPARAMS) /\ m.dir = "+"
    <3> DEFINE k == add_id(z.chan, w, m.letter, a)
               n == [z EXCEPT !.chan = k]
    <3>1. k \in ChannelRecords /\ SameRoom(x.chan, k) /\ CacheKept(x.chan, k) /\ SameOps(x.chan, k)
      <4>1. CASE add_id_full(x.chan, w)
        BY <2>2, <4>1, WalkFacts DEF add_id, SameRoom, CacheKept, SameOps
      <4>2. CASE ~ add_id_full(x.chan, w)
        <5> DEFINE S == ForgetBans(x.chan, m.letter).list[m.letter] \cup {Nuh[a]}
        <5>1. S \in SUBSET Args
          BY <2>4, <2>9
        <5>2. k = [ForgetBans(x.chan, m.letter) EXCEPT !.list[m.letter] = S]
          BY <2>2, <4>2 DEF add_id
        <5> HIDE DEF S
        <5> QED BY <2>8, <5>1, <5>2
      <4> QED BY <4>1, <4>2
    <3>2. chm_list(x, w, m) = n \/ chm_list(x, w, m) = NoteChange(n, m, Nuh[a])
      BY <2>5, <2>11
    <3> HIDE DEF k
    <3> QED BY <2>7, <3>1, <3>2
  <2>12. CASE ~ (w.local /\ y.limit > MAXMODEPARAMS) /\ m.dir # "+"
    <3> DEFINE k == del_id(z.chan, m.letter, a)
               n == [z EXCEPT !.chan = k]
    <3>1. k \in ChannelRecords /\ SameRoom(x.chan, k) /\ CacheKept(x.chan, k) /\ SameOps(x.chan, k)
      <4> DEFINE S == ForgetBans(x.chan, m.letter).list[m.letter] \ {Nuh[a]}
      <4>1. S \in SUBSET Args
        BY <2>9
      <4>2. k = [ForgetBans(x.chan, m.letter) EXCEPT !.list[m.letter] = S]
        BY <2>2 DEF del_id
      <4> HIDE DEF S
      <4> QED BY <2>8, <4>1, <4>2
    <3>2. chm_list(x, w, m) = n \/ chm_list(x, w, m) = NoteChange(n, m, Nuh[a])
      BY <2>5, <2>12
    <3> HIDE DEF k
    <3> QED BY <2>7, <3>1, <3>2
  <2> QED BY <2>10, <2>11, <2>12
<1> QED BY <1>2, <1>3

(* The status of one member is changed.                                     *)
LEMMA StatusChange ==
    ASSUME NEW k \in ChannelRecords, NEW u \in DOMAIN k.members, NEW letter \in Status,
           NEW fl, fl = k.members[u] \cup {letter} \/ fl = k.members[u] \ {letter}
    PROVE  LET n == [k EXCEPT !.members[u] = fl]
           IN /\ n \in ChannelRecords /\ SameRoom(k, n) /\ CacheKept(k, n)
              /\ \A v \in DOMAIN k.members :
                    "o" \in n.members[v] => \/ "o" \in k.members[v]
                                            \/ v = u /\ letter = "o" /\ fl = k.members[u] \cup {letter}
<1> DEFINE n == [k EXCEPT !.members[u] = fl]
<1>1. fl \in SUBSET MemberFlags
  BY ChannelFacts DEF MemberFlags
<1>2. fl \cap BanCache = k.members[u] \cap BanCache
  BY DEF Status, BanCache
<1>3. /\ n \in ChannelRecords
      /\ DOMAIN n.members = DOMAIN k.members
      /\ \A v \in DOMAIN k.members : n.members[v] = IF v = u THEN fl ELSE k.members[v]
      /\ n.ts = k.ts /\ n.list = k.list /\ n.invites = k.invites
  BY <1>1, OneMember
<1> HIDE DEF n
<1>4. SameRoom(k, n)
  BY <1>3 DEF SameRoom
<1>5. CacheKept(k, n)
  BY <1>2, <1>3 DEF CacheKept
<1>6. ASSUME NEW v \in DOMAIN k.members, "o" \in n.members[v], "o" \notin k.members[v]
      PROVE  v = u /\ letter = "o" /\ fl = k.members[u] \cup {letter}
  BY <1>3, <1>6
<1>7. n \in ChannelRecords /\ SameRoom(k, n) /\ CacheKept(k, n)
  BY <1>3, <1>4, <1>5
<1> QED BY <1>6, <1>7 DEF n

(* chm_op(), chm_hop() and chm_voice().                                     *)
LEMMA StatusStep ==
    ASSUME NEW x \in WalkRecords, NEW w, NEW m, NEW known, m.letter \in Status, m.dir \in Directions
    PROVE  Step(x, chm_status(x, w, m, known), w, m)
<1>1. Takes(m.letter, m.dir) /\ m.letter \in ModeLetters
  BY DEF Takes, ModeLetters
<1>2. CASE m.dir = "=" \/ x.args = <<>>
  <2>1. chm_status(x, w, m, known) = x
    BY <1>2 DEF chm_status
  <2>2. Remote(w) /\ m.dir \in {"+", "-"} => Consumed(x, x, m)
    BY <1>1, <1>2 DEF Consumed
  <2> QED BY <2>1, <2>2, StepQuiet
<1>3. CASE ~ (m.dir = "=" \/ x.args = <<>>)
  <2> DEFINE u == Head(x.args)
             r == Tail(x.args)
             y == [x EXCEPT !.args = r]
             z == [y EXCEPT !.limit = @ + 1]
             has == m.letter \in x.chan.members[u]
             fl == IF m.dir = "+" THEN z.chan.members[u] \cup {m.letter}
                   ELSE z.chan.members[u] \ {m.letter}
             k == [z.chan EXCEPT !.members[u] = fl]
             n == [z EXCEPT !.chan = k]
  <2>1. u \in Args /\ r \in Seq(Args)
    BY <1>3, NextArg
  <2>2. chm_status(x, w, m, known) =
          IF u \notin known \/ ~ IsMember(x.chan, u) THEN y
          ELSE IF w.local /\ z.limit > MAXMODEPARAMS THEN z
          ELSE IF (m.dir = "+" /\ has /\ m.letter # "o") \/ (m.dir = "-" /\ ~ has) THEN z
          ELSE NoteChange([z EXCEPT !.chan.members[u] =
                    IF m.dir = "+" THEN @ \cup {m.letter} ELSE @ \ {m.letter}], m, u)
    BY <1>3 DEF chm_status
  <2>3. [z EXCEPT !.chan.members[u] = IF m.dir = "+" THEN @ \cup {m.letter} ELSE @ \ {m.letter}] = n
    OBVIOUS
  <2> HIDE DEF k
  <2>4. r = Tail(x.args) /\ u = Head(x.args)
    OBVIOUS
  <2> HIDE DEF r, u
  <2>5. y \in WalkRecords /\ y.chan = x.chan /\ y.changes = x.changes /\ y.args = r
    BY <2>1, WalkWith
  <2> HIDE DEF y
  <2>6. z \in WalkRecords /\ z.chan = x.chan /\ z.changes = x.changes /\ z.args = r
    <3>1. y.limit \in Nat
      BY <2>5, WalkFacts
    <3>2. y.limit + 1 \in Nat
      BY ONLY <3>1
    <3> QED BY <2>5, <3>2, WalkWith
  <2> HIDE DEF z, n, fl
  <2>7. \A p : p.args = r => Consumed(x, p, m)
    BY <1>1, <2>4 DEF Consumed
  <2>8. Step(x, y, w, m) /\ Step(x, z, w, m)
    BY <2>5, <2>6, <2>7, StepQuiet
  <2>9. ASSUME IsMember(x.chan, u)
        PROVE  Step(x, NoteChange(n, m, u), w, m)
    <3> DEFINE p == NoteChange(n, m, u)
    <3>0. u \in DOMAIN x.chan.members
      BY <2>9 DEF IsMember
    <3>1. \/ fl = x.chan.members[u] \cup {m.letter} /\ m.dir = "+"
          \/ fl = x.chan.members[u] \ {m.letter} /\ m.dir = "-"
      <4>0. z.chan = x.chan
        BY <2>6
      <4>1. m.dir = "+" \/ m.dir = "-"
        BY <1>3 DEF Directions
      <4>2. CASE m.dir = "+"
        BY ONLY <4>0, <4>2 DEF fl
      <4>3. CASE m.dir = "-"
        <5>1. ~ (m.dir = "+")
          BY <4>3
        <5> QED BY ONLY <4>0, <4>3, <5>1 DEF fl
      <4> QED BY <4>1, <4>2, <4>3
    <3>2. x.chan \in ChannelRecords /\ k = [x.chan EXCEPT !.members[u] = fl]
      BY <2>6, WalkFacts DEF k
    <3>3. /\ k \in ChannelRecords /\ SameRoom(x.chan, k) /\ CacheKept(x.chan, k)
          /\ \A v \in DOMAIN x.chan.members :
                "o" \in k.members[v] => \/ "o" \in x.chan.members[v]
                                        \/ /\ v = u /\ m.letter = "o"
                                           /\ fl = x.chan.members[u] \cup {m.letter}
      BY <3>0, <3>1, <3>2, StatusChange
    <3>4. n \in WalkRecords /\ n.chan = k /\ n.changes = x.changes /\ n.args = r
      BY <2>6, <3>3, WalkWith DEF n
    <3>5. m.dir \in {"+", "-"} /\ (u # "" <=> Takes(m.letter, m.dir))
      <4>1. u \in Users /\ u # ""
        BY <3>0, <3>2, ChannelFacts, ModesAssumption
      <4> QED BY <1>1, <1>3, <4>1 DEF Directions
    <3>6. /\ p \in WalkRecords /\ p.chan = n.chan /\ p.args = n.args
          /\ Opped(p.changes) = Opped(n.changes) \cup
                                IF m.letter = "o" /\ m.dir = "+" THEN {u} ELSE {}
      BY ONLY <1>1, <2>1, <3>4, <3>5, NoteFacts
    <3> HIDE DEF p
    <3>7. Named(x, p, m) /\ Consumed(x, p, m)
      BY <1>3, <2>4, <2>7, <3>4, <3>6 DEF Named
    <3>8. ASSUME NEW v \in DOMAIN x.chan.members, "o" \in p.chan.members[v],
                 "o" \notin x.chan.members[v]
          PROVE  v \in Opped(p.changes)
      <4>1. v = u /\ m.letter = "o" /\ fl = x.chan.members[u] \cup {m.letter}
        BY <3>3, <3>4, <3>6, <3>8
      <4>2. m.dir = "+"
        BY <3>1, <3>8, <4>1
      <4> QED BY <3>6, <4>1, <4>2
    <3>9. Walks(x, p)
      BY <3>3, <3>4, <3>6, <3>8 DEF Walks
    <3>10. Step(x, p, w, m)
      BY <3>6, <3>7, <3>9 DEF Step
    <3> QED BY <3>10 DEF p
  <2>10. \/ chm_status(x, w, m, known) = y \/ chm_status(x, w, m, known) = z
         \/ IsMember(x.chan, u) /\ chm_status(x, w, m, known) = NoteChange(n, m, u)
    BY <2>2, <2>3
  <2> QED BY <2>8, <2>9, <2>10
<1> QED BY <1>2, <1>3

(* chm_limit().                                                             *)
LEMMA LimitStep ==
    ASSUME NEW x \in WalkRecords, NEW w, NEW m, m.letter = "l", m.dir \in Directions
    PROVE  Step(x, chm_limit(x, w, m), w, m)
<1>1. Takes("l", "+") /\ ~ Takes("l", "-") /\ "l" \in ModeLetters
  BY DEF Takes, ModeLetters, Lists, Status
<1>2. CASE ~ IsHalfop(w) \/ m.dir = "="
  <2>1. chm_limit(x, w, m) = x
    BY <1>2 DEF chm_limit
  <2>2. ~ (Remote(w) /\ m.dir \in {"+", "-"})
    BY <1>2 DEF Remote, IsHalfop, CHACCESS_REMOTE, CHACCESS_HALFOP
  <2> QED BY <2>1, <2>2, StepQuiet
<1>3. CASE IsHalfop(w) /\ m.dir = "+" /\ x.args # <<>>
  <2> DEFINE a == Head(x.args)
             r == Tail(x.args)
             y == [x EXCEPT !.args = r]
             k == [y.chan EXCEPT !.limit = Atoi[a]]
             n == [y EXCEPT !.chan = k]
             p == Supersede(n, m, a)
  <2>1. a \in Args /\ r \in Seq(Args)
    BY <1>3, NextArg
  <2>2. chm_limit(x, w, m) = IF Atoi[a] <= 0 THEN y ELSE p
    BY <1>3 DEF chm_limit
  <2>3. \A z : z.args = r => Consumed(x, z, m)
    BY <1>1, <1>3 DEF Consumed
  <2>4. Atoi[a] \in Int
    BY <2>1, ModesAssumption
  <2> HIDE DEF r, a
  <2>5. y \in WalkRecords /\ y.chan = x.chan /\ y.changes = x.changes /\ y.args = r
    BY <2>1, WalkWith
  <2> HIDE DEF y
  <2>6. k \in ChannelRecords /\ SameRoom(x.chan, k) /\ CacheKept(x.chan, k) /\ SameOps(x.chan, k)
    BY <2>4, <2>5, WalkFacts, ModeChange
  <2> HIDE DEF k
  <2>7. n \in WalkRecords /\ n.chan = k /\ n.changes = x.changes /\ n.args = r
    BY <2>5, <2>6, WalkWith
  <2> HIDE DEF n
  <2>8. ASSUME a # ""
        PROVE  p \in WalkRecords /\ p.chan = n.chan /\ p.args = n.args /\ Opped(p.changes) = Opped(n.changes)
    BY <1>3, <2>1, <2>7, <2>8, SupersedeFacts
  <2> HIDE DEF p
  <2>9. Step(x, y, w, m)
    BY <2>3, <2>5, StepQuiet
  <2>10. ASSUME a # ""
         PROVE  Step(x, p, w, m)
    BY <2>3, <2>6, <2>7, <2>8, <2>10, StepNoted
  <2>11. ASSUME a = ""
         PROVE  Atoi[a] <= 0
    <3>1. Atoi[""] = 0
      BY ModesAssumption
    <3> DEFINE v == Atoi[a]
    <3>2. v = 0
      BY <2>11, <3>1
    <3> HIDE DEF v
    <3>3. v <= 0
      BY <3>2
    <3> QED BY <3>3 DEF v
  <2> QED BY <2>2, <2>9, <2>10, <2>11
<1>4. CASE IsHalfop(w) /\ m.dir = "-" /\ x.chan.limit # 0
  <2> DEFINE k == [x.chan EXCEPT !.limit = 0]
             n == [x EXCEPT !.chan = k]
             p == NoteChange(n, m, NoArg)
  <2>1. chm_limit(x, w, m) = p
    BY <1>4 DEF chm_limit
  <2>2. k \in ChannelRecords /\ SameRoom(x.chan, k) /\ CacheKept(x.chan, k) /\ SameOps(x.chan, k)
    <3>1. x.chan \in ChannelRecords
      BY WalkFacts
    <3>2. 0 \in Int
      OBVIOUS
    <3> QED BY ONLY <3>1, <3>2, ModeChange
  <2> HIDE DEF k
  <2>3. n \in WalkRecords /\ n.chan = k /\ n.changes = x.changes /\ n.args = x.args
    BY <2>2, WalkWith
  <2> HIDE DEF n
  <2>4. /\ NoArg \in Args /\ (NoArg # "" <=> Takes(m.letter, m.dir))
        /\ m.dir \in {"+", "-"} /\ m.letter \in ModeLetters
    BY <1>1, <1>4, ModesAssumption DEF NoArg
  <2>5. /\ p \in WalkRecords /\ p.chan = n.chan /\ p.args = n.args
        /\ Opped(p.changes) = Opped(n.changes) \cup
                              IF m.letter = "o" /\ m.dir = "+" THEN {NoArg} ELSE {}
    BY ONLY <2>3, <2>4, NoteFacts
  <2> HIDE DEF p
  <2>6. Opped(p.changes) = Opped(x.changes)
    BY <1>4, <2>3, <2>5
  <2>7. Consumed(x, p, m)
    BY <1>1, <1>4, <2>3, <2>5 DEF Consumed
  <2> QED BY <2>1, <2>2, <2>3, <2>5, <2>6, <2>7, StepNoted
<1>5. CASE IsHalfop(w) /\ ((m.dir = "+" /\ x.args = <<>>) \/ (m.dir = "-" /\ x.chan.limit = 0))
  <2>1. chm_limit(x, w, m) = x
    BY <1>5 DEF chm_limit
  <2>2. Consumed(x, x, m)
    BY <1>1, <1>5 DEF Consumed
  <2> QED BY <2>1, <2>2, StepQuiet
<1>6. m.dir = "+" \/ m.dir = "-" \/ m.dir = "="
  BY DEF Directions
<1>7. CASE m.dir = "+"
  BY <1>2, <1>3, <1>5, <1>7
<1>8. CASE m.dir = "-"
  BY <1>2, <1>4, <1>5, <1>8
<1> QED BY <1>2, <1>6, <1>7, <1>8

(* chm_key().                                                               *)
LEMMA KeyStep ==
    ASSUME NEW x \in WalkRecords, NEW w, NEW m, m.letter = "k", m.dir \in Directions
    PROVE  Step(x, chm_key(x, w, m), w, m)
<1>1. Takes(m.letter, m.dir) /\ m.letter \in ModeLetters
  BY DEF Takes, ModeLetters
<1>2. CASE ~ IsHalfop(w) \/ m.dir = "="
  <2>1. chm_key(x, w, m) = x
    BY <1>2 DEF chm_key
  <2>2. ~ (Remote(w) /\ m.dir \in {"+", "-"})
    BY <1>2 DEF Remote, IsHalfop, CHACCESS_REMOTE, CHACCESS_HALFOP
  <2> QED BY <2>1, <2>2, StepQuiet
<1>3. CASE IsHalfop(w) /\ m.dir = "+" /\ x.args # <<>>
  <2> DEFINE a == Head(x.args)
             r == Tail(x.args)
             y == [x EXCEPT !.args = r]
             k == [y.chan EXCEPT !.key = a]
             n == [y EXCEPT !.chan = k]
             p == Supersede(n, m, a)
  <2>1. a \in Args /\ r \in Seq(Args)
    BY <1>3, NextArg
  <2>2. chm_key(x, w, m) = IF a = "" THEN y ELSE p
    BY <1>3 DEF chm_key
  <2>3. \A z : z.args = r => Consumed(x, z, m)
    BY <1>1 DEF Consumed
  <2> HIDE DEF r, a
  <2>5. y \in WalkRecords /\ y.chan = x.chan /\ y.changes = x.changes /\ y.args = r
    BY <2>1, WalkWith
  <2> HIDE DEF y
  <2>6. k \in ChannelRecords /\ SameRoom(x.chan, k) /\ CacheKept(x.chan, k) /\ SameOps(x.chan, k)
    BY <2>1, <2>5, WalkFacts, ModeChange
  <2> HIDE DEF k
  <2>7. n \in WalkRecords /\ n.chan = k /\ n.changes = x.changes /\ n.args = r
    BY <2>5, <2>6, WalkWith
  <2> HIDE DEF n
  <2>8. ASSUME a # ""
        PROVE  p \in WalkRecords /\ p.chan = n.chan /\ p.args = n.args /\ Opped(p.changes) = Opped(n.changes)
    BY <1>3, <2>1, <2>7, <2>8, SupersedeFacts
  <2> HIDE DEF p
  <2>9. Step(x, y, w, m)
    BY <2>3, <2>5, StepQuiet
  <2>10. ASSUME a # ""
         PROVE  Step(x, p, w, m)
    BY <2>3, <2>6, <2>7, <2>8, <2>10, StepNoted
  <2> QED BY <2>2, <2>9, <2>10
<1>4. CASE IsHalfop(w) /\ m.dir = "-"
  <2> DEFINE r == IF x.args = <<>> THEN x.args ELSE Tail(x.args)
             y == [x EXCEPT !.args = r]
             k == [y.chan EXCEPT !.key = ""]
             n == [y EXCEPT !.chan = k]
             p == NoteChange(n, m, "*")
  <2>1. r \in Seq(Args)
    BY NextArg, WalkFacts
  <2>2. chm_key(x, w, m) = IF x.chan.key = "" THEN y ELSE p
    <3>1. m.dir # "+" /\ m.dir # "="
      BY <1>4
    <3> QED BY <1>4, <3>1 DEF chm_key
  <2>3. \A z : z.args = r => Consumed(x, z, m)
    BY <1>1 DEF Consumed
  <2> HIDE DEF r
  <2>4. y \in WalkRecords /\ y.chan = x.chan /\ y.changes = x.changes /\ y.args = r
    BY <2>1, WalkWith
  <2> HIDE DEF y
  <2>5. k \in ChannelRecords /\ SameRoom(x.chan, k) /\ CacheKept(x.chan, k) /\ SameOps(x.chan, k)
    <3>1. "" \in Args /\ x.chan \in ChannelRecords
      BY WalkFacts, ModesAssumption
    <3> QED BY <2>4, <3>1, ModeChange
  <2> HIDE DEF k
  <2>6. n \in WalkRecords /\ n.chan = k /\ n.changes = x.changes /\ n.args = r
    BY <2>4, <2>5, WalkWith
  <2> HIDE DEF n
  <2>7. /\ "*" \in Args /\ ("*" # "" <=> Takes(m.letter, m.dir))
        /\ m.dir \in {"+", "-"} /\ m.letter \in ModeLetters
    BY <1>1, <1>4, ModesAssumption
  <2>8. /\ p \in WalkRecords /\ p.chan = n.chan /\ p.args = n.args
        /\ Opped(p.changes) = Opped(n.changes) \cup
                              IF m.letter = "o" /\ m.dir = "+" THEN {"*"} ELSE {}
    BY ONLY <2>6, <2>7, NoteFacts
  <2> HIDE DEF p
  <2>9. Opped(p.changes) = Opped(x.changes)
    BY <1>4, <2>6, <2>8
  <2>10. Step(x, p, w, m)
    BY <2>3, <2>5, <2>6, <2>8, <2>9, StepNoted
  <2>11. Step(x, y, w, m)
    BY <2>3, <2>4, StepQuiet
  <2> QED BY <2>2, <2>10, <2>11
<1>5. CASE IsHalfop(w) /\ m.dir = "+" /\ x.args = <<>>
  <2>1. chm_key(x, w, m) = x
    BY <1>5 DEF chm_key
  <2>2. Consumed(x, x, m)
    BY <1>1, <1>5 DEF Consumed
  <2> QED BY <2>1, <2>2, StepQuiet
<1>6. m.dir = "+" \/ m.dir = "-" \/ m.dir = "="
  BY DEF Directions
<1> QED BY <1>2, <1>3, <1>4, <1>5, <1>6

(* A letter without a function, or one whose function looks at nothing.     *)
LEMMA StayStep ==
    ASSUME NEW x \in WalkRecords, NEW w, NEW m, ~ Remote(w) \/ m.letter \notin ModeLetters
    PROVE  Step(x, x, w, m)
<1>1. Remote(w) => Consumed(x, x, m)
  BY DEF Consumed, Takes, ModeLetters
<1> QED BY <1>1, StepQuiet

(* Every function of ModeTable.                                             *)
LEMMA TableStep ==
    ASSUME NEW x \in WalkRecords, NEW w, NEW m, NEW known, m.dir \in Directions
    PROVE  Step(x, ModeTable(x, w, m, known), w, m)
<1>1. CASE m.letter \in SimpleModes
  <2>1. ModeTable(x, w, m, known) = chm_simple(x, w, m)
    BY <1>1 DEF ModeTable, SimpleModes
  <2>2. m.letter \in ChanModes
    BY <1>1 DEF ChanModes
  <2> QED BY <2>1, <2>2, SimpleStep DEF chm_simple
<1>2. CASE m.letter = "r"
  <2>1. ModeTable(x, w, m, known) = chm_registered(x, w, m)
    BY <1>2 DEF ModeTable, SimpleModes
  <2>2. m.letter \in ChanModes
    BY <1>2 DEF ChanModes
  <2> QED BY <2>1, <2>2, SimpleStep DEF chm_registered
<1>3. CASE m.letter = "O"
  <2>1. ModeTable(x, w, m, known) = chm_operonly(x, w, m)
    BY <1>3 DEF ModeTable, SimpleModes
  <2>2. m.letter \in ChanModes
    BY <1>3 DEF ChanModes
  <2> QED BY <2>1, <2>2, SimpleStep DEF chm_operonly
<1>4. CASE m.letter \in Lists
  <2>1. ModeTable(x, w, m, known) = chm_list(x, w, m)
    BY <1>4 DEF ModeTable, SimpleModes, Lists, chm_ban, chm_except, chm_invex
  <2> QED BY <1>4, <2>1, ListStep
<1>5. CASE m.letter \in Status
  <2>1. \/ ModeTable(x, w, m, known) = chm_status(x, w, m, known)
        \/ ModeTable(x, w, m, known) = x /\ (~ IsHalfop(w) \/ ~ IsChanop(w))
    BY <1>5 DEF ModeTable, SimpleModes, Status, chm_voice, chm_hop, chm_op
  <2>2. ~ IsHalfop(w) \/ ~ IsChanop(w) => ~ Remote(w)
    BY DEF IsHalfop, IsChanop, Remote, CHACCESS_REMOTE, CHACCESS_HALFOP, CHACCESS_CHANOP
  <2> QED BY <1>5, <2>1, <2>2, StatusStep, StayStep
<1>6. CASE m.letter = "l"
  <2>1. ModeTable(x, w, m, known) = chm_limit(x, w, m)
    BY <1>6 DEF ModeTable, SimpleModes
  <2> QED BY <1>6, <2>1, LimitStep
<1>7. CASE m.letter = "k"
  <2>1. ModeTable(x, w, m, known) = chm_key(x, w, m)
    BY <1>7 DEF ModeTable, SimpleModes
  <2> QED BY <1>7, <2>1, KeyStep
<1>8. CASE m.letter \notin ModeLetters
  <2>1. ModeTable(x, w, m, known) = x
    BY <1>8 DEF ModeTable, ModeLetters, ChanModes, Lists, Status
  <2> QED BY <1>8, <2>1, StayStep
<1> QED BY <1>1, <1>2, <1>3, <1>4, <1>5, <1>6, <1>7, <1>8 DEF ModeLetters, ChanModes

(* The state in which set_channel_mode() starts.                            *)
LEMMA WalkStart ==
    ASSUME NEW c \in ChannelRecords, NEW args \in Seq(Args)
    PROVE  LET x == Walk0(c, args)
           IN  /\ x \in WalkRecords /\ x.chan = c /\ x.args = args /\ x.changes = <<>>
               /\ Opped(x.changes) = {}
<1> DEFINE x == Walk0(c, args)
<1>1. <<>> \in Seq(Changes) /\ {} \in SUBSET ChanModes
  OBVIOUS
<1>2. x = [chan |-> c, changes |-> <<>>, mask |-> {}, limit |-> 0, args |-> args]
  BY DEF Walk0
<1>3. x \in WalkRecords /\ x.chan = c /\ x.args = args /\ x.changes = <<>>
  BY <1>1, <1>2 DEF WalkRecords
<1>4. Opped(<<>>) = {}
  BY DEF Opped
<1> QED BY <1>3, <1>4

(* x is the walk of set_channel_mode() over a line.                         *)
Walking(x, c, w, letters, args, known) ==
    /\ x[0] = Walk0(c, args)
    /\ \A i \in 1 .. Len(letters) : Step(x[i - 1], x[i], w, letters[i])
    /\ set_channel_mode(c, w, letters, args, known) = x[Len(letters)]

(* There is such a walk.                                                    *)
LEMMA WalkRuns ==
    ASSUME NEW c \in ChannelRecords, NEW w, NEW L, \A m \in L : m.dir \in Directions,
           NEW letters \in Seq(L), NEW args \in Seq(Args), NEW known
    PROVE  \E x \in [0 .. Len(letters) -> WalkRecords] : Walking(x, c, w, letters, args, known)
<1> DEFINE n == Len(letters)
           Def(k) == k = [i \in 0 .. n |->
                            IF i = 0 THEN Walk0(c, args)
                            ELSE ModeTable(k[i - 1], w, letters[i], known)]
           x == CHOOSE k : Def(k)
           F == [i \in 1 .. n |-> [z \in WalkRecords |-> ModeTable(z, w, letters[i], known)]]
<1>1. n \in Nat
  OBVIOUS
<1>2. \A i \in 1 .. n : letters[i].dir \in Directions
  OBVIOUS
<1>3. \A i \in 1 .. n, z \in WalkRecords : Step(z, ModeTable(z, w, letters[i], known), w, letters[i])
  BY <1>2, TableStep
<1>4. \A i \in 1 .. n, z \in WalkRecords : ModeTable(z, w, letters[i], known) \in WalkRecords
  BY <1>3 DEF Step
<1>5. set_channel_mode(c, w, letters, args, known) = x[n]
  BY DEF set_channel_mode
<1>6. F \in [1 .. n -> [WalkRecords -> WalkRecords]]
  BY <1>4
<1>7. \A i \in 1 .. n, z \in WalkRecords : F[i][z] = ModeTable(z, w, letters[i], known)
  OBVIOUS
<1>8. Walk0(c, args) \in WalkRecords
  BY WalkStart
<1> HIDE DEF n, F
<1>9. PICK k \in [0 .. n -> WalkRecords] :
          k[0] = Walk0(c, args) /\ \A i \in 1 .. n : k[i] = F[i][k[i - 1]]
  <2>1. PICK k \in [0 .. n -> WalkRecords] : Runs(k, n, Walk0(c, args), F)
    BY <1>1, <1>6, <1>8, LoopRuns
  <2>2. k[0] = Walk0(c, args) /\ \A i \in 1 .. n : k[i] = F[i][k[i - 1]]
    BY <2>1 DEF Runs
  <2> QED BY <2>2
<1>10. ASSUME NEW i \in 1 .. n
       PROVE  k[i - 1] \in WalkRecords /\ k[i] = ModeTable(k[i - 1], w, letters[i], known)
  <2>1. i - 1 \in 0 .. n
    BY <1>1
  <2> QED BY <1>7, <1>9, <2>1
<1>11. Def(k)
  <2>1. \A i \in 0 .. n : i # 0 => i \in 1 .. n
    BY <1>1
  <2>2. \A i \in 0 .. n : k[i] = IF i = 0 THEN Walk0(c, args)
                                 ELSE ModeTable(k[i - 1], w, letters[i], known)
    BY <1>9, <1>10, <2>1
  <2> QED BY <2>2
<1>12. Def(x)
  BY <1>11
<1> HIDE DEF x
<1>13. x[0] = Walk0(c, args)
  BY <1>1, <1>12
<1>14. ASSUME NEW i \in 1 .. n
       PROVE  x[i] = ModeTable(x[i - 1], w, letters[i], known)
  BY <1>1, <1>12
<1> DEFINE A == {i \in 0 .. n : x[i] = k[i]}
<1>15. 0 .. n \subseteq A
  <2>1. 0 \in A
    BY <1>1, <1>9, <1>13
  <2>2. ASSUME NEW i \in 1 .. n, i - 1 \in A
        PROVE  i \in A
    <3>1. x[i] = k[i]
      BY <1>10, <1>14, <2>2
    <3>2. i \in 0 .. n
      BY <1>1
    <3> QED BY <3>1, <3>2
  <2> HIDE DEF A
  <2> QED BY <1>1, <2>1, <2>2, UpTo
<1>16. \A i \in 0 .. n : x[i] = k[i]
  BY <1>15
<1>17. n \in 0 .. n
  BY <1>1
<1>18. set_channel_mode(c, w, letters, args, known) = k[n]
  BY <1>5, <1>16, <1>17
<1>19. \A i \in 1 .. n : Step(k[i - 1], k[i], w, letters[i])
  BY <1>3, <1>10
<1> QED BY <1>9, <1>10, <1>18, <1>19 DEF n, Walking

(* Steps follow each other.                                                 *)
LEMMA WalksOn ==
    ASSUME NEW x \in WalkRecords, NEW y \in WalkRecords, NEW z \in WalkRecords,
           Walks(x, y), Walks(y, z)
    PROVE  Walks(x, z)
<1>1. SameRoom(x.chan, z.chan)
  BY DEF Walks, SameRoom
<1>2. CacheKept(x.chan, z.chan)
  BY DEF Walks, SameRoom, CacheKept
<1> QED BY <1>1, <1>2 DEF Walks, SameRoom

(* What set_channel_mode() does, for a line of any length.                  *)
LEMMA ModeWalk ==
    ASSUME NEW c \in ChannelRecords, NEW w, NEW L, \A m \in L : m.dir \in Directions,
           NEW letters \in Seq(L), NEW args \in Seq(Args), NEW known
    PROVE  LET y == set_channel_mode(c, w, letters, args, known)
           IN  /\ y \in WalkRecords
               /\ SameRoom(c, y.chan) /\ CacheKept(c, y.chan)
               /\ \A u \in DOMAIN c.members :
                     "o" \in y.chan.members[u] => "o" \in c.members[u] \/ u \in Opped(y.changes)
<1> DEFINE n == Len(letters)
<1>0. PICK x \in [0 .. n -> WalkRecords] : Walking(x, c, w, letters, args, known)
  BY WalkRuns
<1>1. /\ x[0] = Walk0(c, args)
      /\ \A i \in 1 .. n : Step(x[i - 1], x[i], w, letters[i])
      /\ set_channel_mode(c, w, letters, args, known) = x[n]
  BY <1>0 DEF Walking
<1>2. n \in Nat
  OBVIOUS
<1> HIDE DEF n
<1> DEFINE A == {i \in 0 .. n : Walks(x[0], x[i])}
<1>3. 0 \in A
  BY <1>2 DEF Walks, SameRoom, CacheKept
<1>4. ASSUME NEW i \in 1 .. n, i - 1 \in A
      PROVE  i \in A
  <2>1. i \in 0 .. n /\ i - 1 \in 0 .. n /\ 0 \in 0 .. n
    BY <1>2
  <2>2. x[0] \in WalkRecords /\ x[i - 1] \in WalkRecords /\ x[i] \in WalkRecords
    BY <2>1
  <2>3. Walks(x[0], x[i - 1])
    BY <1>4
  <2>4. Walks(x[i - 1], x[i])
    BY <1>1 DEF Step
  <2>5. Walks(x[0], x[i])
    BY <2>2, <2>3, <2>4, WalksOn
  <2> QED BY <2>1, <2>5
<1> HIDE DEF A
<1>5. 0 .. n \subseteq A
  BY <1>2, <1>3, <1>4, UpTo
<1>6. n \in 0 .. n
  BY <1>2
<1>7. Walks(x[0], x[n]) /\ x[n] \in WalkRecords
  BY <1>5, <1>6 DEF A
<1>8. x[0].chan = c
  BY <1>1, WalkStart
<1>9. /\ SameRoom(c, x[n].chan) /\ CacheKept(c, x[n].chan)
      /\ \A u \in DOMAIN c.members :
            "o" \in x[n].chan.members[u] => "o" \in c.members[u] \/ u \in Opped(x[n].changes)
  BY <1>7, <1>8 DEF Walks
<1> QED BY <1>1, <1>7, <1>9
-----------------------------------------------------------------------------
(* rest[i] are the parameters of the last i changes of line.                *)
Trailing(rest, line) ==
    LET n == Len(line)
    IN  /\ rest[0] = <<>>
        /\ \A i \in 1 .. n : rest[i] = IF line[n + 1 - i].arg = NoArg THEN rest[i - 1]
                                       ELSE <<line[n + 1 - i].arg>> \o rest[i - 1]
        /\ ArgsOf(line) = rest[n]

(* A change has a parameter, which is not empty, or none.                   *)
LEMMA ArgOfChange ==
    ASSUME NEW c \in Changes
    PROVE  /\ c.arg = NoArg \/ c.arg \in Args
           /\ c.arg # NoArg <=> Takes(c.letter, c.dir)
           /\ c.dir \in {"+", "-"} /\ c.arg \in Args /\ c.letter \in ModeLetters
BY DEF Changes, NoArg

(* One word before others.                                                  *)
LEMMA PutBefore ==
    ASSUME NEW S, NEW a \in S, NEW q \in Seq(S)
    PROVE  /\ <<a>> \o q \in Seq(S) /\ <<a>> \o q # <<>>
           /\ Head(<<a>> \o q) = a /\ Tail(<<a>> \o q) = q
OBVIOUS

(* The recursion that defines ArgsOf has a solution.                        *)
LEMMA ArgsRun ==
    ASSUME NEW line \in Seq(Changes)
    PROVE  \E rest \in [0 .. Len(line) -> Seq(Args)] : Trailing(rest, line)
<1> DEFINE n == Len(line)
           a(i) == line[n + 1 - i].arg
           Def(k) == k = [i \in 0 .. n |->
                            IF i = 0 THEN <<>>
                            ELSE IF a(i) = NoArg THEN k[i - 1] ELSE <<a(i)>> \o k[i - 1]]
           rest == CHOOSE k : Def(k)
           F == [i \in 1 .. n |-> [q \in Seq(Args) |-> IF a(i) = NoArg THEN q ELSE <<a(i)>> \o q]]
<1>1. n \in Nat
  OBVIOUS
<1>2. \A i \in 1 .. n : a(i) = NoArg \/ a(i) \in Args
  <2>1. ASSUME NEW i \in 1 .. n
        PROVE  a(i) = NoArg \/ a(i) \in Args
    <3>1. n + 1 - i \in 1 .. n
      BY <1>1
    <3>2. line[n + 1 - i] \in Changes
      BY <3>1
    <3> QED BY <3>2, ArgOfChange
  <2> QED BY <2>1
<1>3. ArgsOf(line) = rest[n]
  BY DEF ArgsOf
<1>4. \A i \in 1 .. n : a(i) = line[n + 1 - i].arg
  OBVIOUS
<1> HIDE DEF n, a
<1>5. ASSUME NEW i \in 1 .. n, NEW q \in Seq(Args)
      PROVE  (IF a(i) = NoArg THEN q ELSE <<a(i)>> \o q) \in Seq(Args)
  BY <1>2, PutBefore
<1>6. F \in [1 .. n -> [Seq(Args) -> Seq(Args)]]
  BY <1>5
<1>7. \A i \in 1 .. n, q \in Seq(Args) : F[i][q] = IF a(i) = NoArg THEN q ELSE <<a(i)>> \o q
  OBVIOUS
<1>8. <<>> \in Seq(Args)
  OBVIOUS
<1> HIDE DEF F
<1>9. PICK k \in [0 .. n -> Seq(Args)] : Runs(k, n, <<>>, F)
  BY <1>1, <1>6, <1>8, LoopRuns
<1>10. k[0] = <<>> /\ \A i \in 1 .. n : k[i] = F[i][k[i - 1]]
  BY <1>9 DEF Runs
<1>11. ASSUME NEW i \in 1 .. n
       PROVE  k[i] = IF a(i) = NoArg THEN k[i - 1] ELSE <<a(i)>> \o k[i - 1]
  <2>1. i - 1 \in 0 .. n
    BY <1>1
  <2>2. k[i - 1] \in Seq(Args)
    BY <2>1
  <2> QED BY <1>7, <1>10, <2>2
<1>12. Def(k)
  <2>1. \A i \in 0 .. n : i # 0 => i \in 1 .. n
    BY <1>1
  <2>2. \A i \in 0 .. n : k[i] = IF i = 0 THEN <<>> ELSE
                                 IF a(i) = NoArg THEN k[i - 1] ELSE <<a(i)>> \o k[i - 1]
    BY <1>10, <1>11, <2>1
  <2> QED BY <2>2
<1>13. Def(rest)
  BY <1>12
<1> HIDE DEF rest
<1>14. rest[0] = <<>>
  BY <1>1, <1>13
<1>15. ASSUME NEW i \in 1 .. n
       PROVE  rest[i] = IF a(i) = NoArg THEN rest[i - 1] ELSE <<a(i)>> \o rest[i - 1]
  <2>1. i \in 0 .. n /\ i # 0
    BY <1>1
  <2>2. \A j \in 0 .. n : rest[j] = IF j = 0 THEN <<>> ELSE
                                    IF a(j) = NoArg THEN rest[j - 1] ELSE <<a(j)>> \o rest[j - 1]
    BY ONLY <1>13
  <2> QED BY <2>1, <2>2
<1> DEFINE A == {i \in 0 .. n : rest[i] \in Seq(Args)}
<1>16. 0 .. n \subseteq A
  <2>1. 0 \in A
    <3>1. 0 \in 0 .. n
      BY <1>1
    <3>2. rest[0] \in Seq(Args)
      BY <1>8, <1>14
    <3> QED BY ONLY <3>1, <3>2
  <2>2. ASSUME NEW i \in 1 .. n, i - 1 \in A
        PROVE  i \in A
    <3>1. rest[i] \in Seq(Args)
      BY <1>5, <1>15, <2>2
    <3>2. i \in 0 .. n
      BY <1>1
    <3> QED BY <3>1, <3>2
  <2> HIDE DEF A
  <2> QED BY <1>1, <2>1, <2>2, UpTo
<1>17. rest \in [0 .. n -> Seq(Args)]
  <2>1. \A i \in 0 .. n : rest[i] \in Seq(Args)
    BY <1>16
  <2>2. rest = [i \in 0 .. n |-> rest[i]]
    BY <1>13
  <2> QED BY <2>1, <2>2
<1>18. Trailing(rest, line)
  <2>1. \A i \in 1 .. n : rest[i] = IF line[n + 1 - i].arg = NoArg THEN rest[i - 1]
                                    ELSE <<line[n + 1 - i].arg>> \o rest[i - 1]
    BY <1>4, <1>15
  <2> QED BY <1>3, <1>14, <2>1 DEF Trailing, n
<1> QED BY <1>17, <1>18 DEF n

(* The walk over what another server says: each letter finds the parameter  *)
(* that was sent with it, so that nobody becomes operator whom the line     *)
(* does not name.                                                           *)
LEMMA RemoteWalk ==
    ASSUME NEW c \in ChannelRecords, NEW w, Remote(w), NEW line \in Seq(Changes), NEW known
    PROVE  LET y == set_channel_mode(c, w, line, ArgsOf(line), known)
           IN  Opped(y.changes) \subseteq Opped(line)
<1> DEFINE n == Len(line)
<1>1. PICK rest \in [0 .. n -> Seq(Args)] : Trailing(rest, line)
  BY ArgsRun
<1>2. n \in Nat
  OBVIOUS
<1>3. \A i \in 1 .. n : line[i] \in Changes
  OBVIOUS
<1>4. /\ rest[0] = <<>>
      /\ \A i \in 1 .. n : rest[i] = IF line[n + 1 - i].arg = NoArg THEN rest[i - 1]
                                     ELSE <<line[n + 1 - i].arg>> \o rest[i - 1]
      /\ ArgsOf(line) = rest[n]
  BY <1>1 DEF Trailing
<1>5. n \in 0 .. n
  BY <1>2
<1>6. ArgsOf(line) \in Seq(Args)
  BY <1>4, <1>5
<1>7. \A m \in Changes : m.dir \in Directions
  BY ArgOfChange DEF Directions
<1>8. PICK x \in [0 .. n -> WalkRecords] : Walking(x, c, w, line, ArgsOf(line), known)
  BY <1>6, <1>7, WalkRuns
<1>9. /\ x[0] = Walk0(c, ArgsOf(line))
      /\ \A i \in 1 .. n : Step(x[i - 1], x[i], w, line[i])
      /\ set_channel_mode(c, w, line, ArgsOf(line), known) = x[n]
  BY <1>8 DEF Walking
<1>10. ASSUME NEW i \in 1 .. n, line[i].letter = "o", line[i].dir = "+"
       PROVE  line[i].arg \in Opped(line)
  <2>1. i \in DOMAIN line
    OBVIOUS
  <2> QED BY <1>10, <2>1 DEF Opped
<1> HIDE DEF n
<1> DEFINE A == {i \in 0 .. n : x[i].args = rest[n - i] /\ Opped(x[i].changes) \subseteq Opped(line)}
<1>11. 0 \in A
  <2> DEFINE r == ArgsOf(line)
             y == Walk0(c, r)
  <2>0. r \in Seq(Args) /\ x[0] = y /\ r = ArgsOf(line)
    BY <1>6, <1>9
  <2> HIDE DEF r
  <2>3. y.args = r /\ Opped(y.changes) = {}
    BY <2>0, WalkStart
  <2> HIDE DEF y
  <2>1. x[0].args = ArgsOf(line) /\ Opped(x[0].changes) = {}
    BY <2>0, <2>3
  <2> QED BY <1>2, <1>4, <2>1
<1>12. ASSUME NEW i \in 1 .. n, i - 1 \in A
       PROVE  i \in A
  <2> DEFINE a == line[i].arg
             old == x[i - 1]
             new == x[i]
             left == rest[n - i]
  <2>1. i \in 0 .. n /\ i - 1 \in 0 .. n /\ n - i \in 0 .. n /\ n - i + 1 \in 1 .. n
    BY <1>2
  <2>2. rest[n - i + 1] = IF a = NoArg THEN left ELSE <<a>> \o left
    <3>1. n + 1 - (n - i + 1) = i /\ n - i + 1 - 1 = n - i
      BY <1>2
    <3> QED BY <1>4, <2>1, <3>1
  <2>3. old.args = IF a = NoArg THEN left ELSE <<a>> \o left
    <3>1. n - (i - 1) = n - i + 1
      BY <1>2
    <3>2. x[i - 1].args = rest[n - (i - 1)]
      BY <1>12
    <3> QED BY <2>2, <3>1, <3>2
  <2>4. Opped(old.changes) \subseteq Opped(line)
    BY <1>12
  <2>5. Step(old, new, w, line[i]) /\ left \in Seq(Args)
    BY <1>9, <2>1
  <2>6. /\ a = NoArg \/ a \in Args
        /\ a # NoArg <=> Takes(line[i].letter, line[i].dir)
        /\ line[i].dir \in {"+", "-"}
    BY <1>3, ArgOfChange
  <2> HIDE DEF old, new, left
  <2>7. Named(old, new, line[i]) /\ Consumed(old, new, line[i])
    BY <2>5, <2>6 DEF Step
  <2>8. line[i].letter = "o" => a # NoArg
    BY <2>6 DEF Takes, Status
  <2>9. ASSUME line[i].letter = "o", line[i].dir = "+"
        PROVE  a \in Opped(line)
    BY <1>10, <2>9
  <2> HIDE DEF a
  <2>10. CASE a = NoArg
    <3>1. new.args = left
      BY <2>3, <2>6, <2>7, <2>10 DEF Consumed
    <3>2. Opped(new.changes) \subseteq Opped(line)
      BY <2>4, <2>7, <2>8, <2>10 DEF Named
    <3> QED BY <2>1, <3>1, <3>2 DEF new, left
  <2>11. CASE a # NoArg
    <3>1. old.args # <<>> /\ Head(old.args) = a /\ Tail(old.args) = left
      BY <2>3, <2>5, <2>6, <2>11, PutBefore
    <3>2. new.args = left
      BY <2>6, <2>7, <2>11, <3>1 DEF Consumed
    <3>3. Opped(new.changes) \subseteq Opped(line)
      BY <2>4, <2>7, <2>9, <3>1 DEF Named
    <3> QED BY <2>1, <3>2, <3>3 DEF new, left
  <2> QED BY <2>10, <2>11
<1> HIDE DEF A
<1>13. 0 .. n \subseteq A
  BY <1>2, <1>11, <1>12, UpTo
<1>14. Opped(x[n].changes) \subseteq Opped(line)
  BY <1>5, <1>13 DEF A
<1> QED BY <1>9, <1>14

(* A change is added to the last line, or to a new one.                     *)
LEMMA AddFacts ==
    ASSUME NEW T, NEW lines \in Seq(Seq(T)), NEW ch \in T
    PROVE  AddToLine(lines, ch) \in Seq(Seq(T))
<1> DEFINE S == Seq(T)
<1>1. <<ch>> \in S
  OBVIOUS
<1>2. \A q \in S : Append(q, ch) \in S
  OBVIOUS
<1>3. lines \in Seq(S)
  OBVIOUS
<1> HIDE DEF S
<1>4. Append(lines, <<ch>>) \in Seq(S)
  BY <1>1, <1>3
<1>5. ASSUME lines # <<>>
      PROVE  [lines EXCEPT ![Len(lines)] = Append(@, ch)] \in Seq(S)
  <2> DEFINE n == Len(lines)
             q == Append(lines[n], ch)
  <2>1. n \in DOMAIN lines /\ n \in Nat
    BY <1>3, <1>5
  <2>2. lines[n] \in S
    BY <1>3, <2>1
  <2>3. q \in S
    BY <1>2, <2>2
  <2> HIDE DEF q
  <2>4. [lines EXCEPT ![n] = q] \in Seq(S)
    BY <1>3, <2>1, <2>3
  <2> QED BY <2>4 DEF q
<1>6. AddToLine(lines, ch) \in Seq(S)
  BY <1>4, <1>5 DEF AddToLine
<1> QED BY <1>6 DEF S

(* The lines of send_mode_changes_server() hold the changes, no others.     *)
LEMMA LinesOf ==
    ASSUME NEW changes \in Seq(Changes)
    PROVE  LET lines == send_mode_changes_server(changes)
           IN  /\ lines \in Seq(Seq(Changes))
               /\ \A i \in DOMAIN lines : Opped(lines[i]) \subseteq Opped(changes)
<1> DEFINE n == Len(changes)
           T == ToSet(changes)
           X == Seq(Seq(T))
           Def(k) == k = [i \in 0 .. n |-> IF i = 0 THEN <<>> ELSE AddToLine(k[i - 1], changes[i])]
           lines == CHOOSE k : Def(k)
           F == [i \in 1 .. n |-> [q \in X |-> AddToLine(q, changes[i])]]
<1>1. n \in Nat
  OBVIOUS
<1>2. \A i \in 1 .. n : changes[i] \in T
  BY DEF ToSet
<1>3. send_mode_changes_server(changes) = lines[n]
  BY DEF send_mode_changes_server
<1>4. T \subseteq Changes
  BY DEF ToSet
<1>5. <<>> \in X
  OBVIOUS
<1> HIDE DEF n, T
<1>6. \A i \in 1 .. n, q \in X : AddToLine(q, changes[i]) \in X
  BY <1>2, AddFacts
<1>7. F \in [1 .. n -> [X -> X]]
  <2> HIDE DEF X
  <2> QED BY <1>6
<1>8. \A i \in 1 .. n, q \in X : F[i][q] = AddToLine(q, changes[i])
  OBVIOUS
<1> HIDE DEF F, X
<1>9. PICK k \in [0 .. n -> X] : Runs(k, n, <<>>, F)
  BY <1>1, <1>5, <1>7, LoopRuns
<1>10. k[0] = <<>> /\ \A i \in 1 .. n : k[i] = F[i][k[i - 1]]
  BY <1>9 DEF Runs
<1>11. ASSUME NEW i \in 1 .. n
       PROVE  k[i] = AddToLine(k[i - 1], changes[i])
  <2>1. i - 1 \in 0 .. n
    BY <1>1
  <2>2. k[i - 1] \in X
    BY <2>1
  <2> QED BY <1>8, <1>10, <2>2
<1>12. Def(k)
  <2>1. \A i \in 0 .. n : i # 0 => i \in 1 .. n
    BY <1>1
  <2>2. \A i \in 0 .. n : k[i] = IF i = 0 THEN <<>> ELSE AddToLine(k[i - 1], changes[i])
    BY <1>10, <1>11, <2>1
  <2> QED BY <2>2
<1>13. Def(lines)
  BY <1>12
<1> HIDE DEF lines
<1>14. \A i \in 0 .. n : lines[i] = IF i = 0 THEN <<>> ELSE AddToLine(lines[i - 1], changes[i])
  BY ONLY <1>13
<1> DEFINE A == {i \in 0 .. n : lines[i] \in X}
<1>15. 0 \in A
  <2>1. 0 \in 0 .. n
    BY <1>1
  <2> QED BY <1>5, <1>14, <2>1
<1>16. ASSUME NEW i \in 1 .. n, i - 1 \in A
       PROVE  i \in A
  <2>1. i \in 0 .. n /\ i # 0
    BY <1>1
  <2>2. lines[i] = AddToLine(lines[i - 1], changes[i])
    BY <1>14, <2>1
  <2>3. lines[i - 1] \in X
    BY <1>16
  <2>4. lines[i] \in X
    BY <1>6, <2>2, <2>3
  <2> QED BY <2>1, <2>4
<1> HIDE DEF A
<1>17. 0 .. n \subseteq A
  BY <1>1, <1>15, <1>16, UpTo
<1>18. n \in 0 .. n
  BY <1>1
<1>19. lines[n] \in Seq(Seq(T))
  BY <1>17, <1>18 DEF A, X
<1> DEFINE r == lines[n]
<1>20. r \in Seq(Seq(T))
  BY <1>19
<1> HIDE DEF r
<1>21. Seq(T) \subseteq Seq(Changes)
  BY <1>4
<1>22. r \in Seq(Seq(Changes))
  BY <1>20, <1>21
<1>23. ASSUME NEW i \in DOMAIN r
       PROVE  Opped(r[i]) \subseteq Opped(changes)
  <2>1. r[i] \in Seq(T)
    BY <1>20
  <2> DEFINE q == r[i]
  <2> HIDE DEF q
  <2>2. ToSet(q) \subseteq T
    <3>1. q \in Seq(T)
      BY <2>1 DEF q
    <3> QED BY <3>1 DEF ToSet
  <2>3. Opped(q) \subseteq Opped(changes)
    <3>1. Opped(q) = {d.arg : d \in {e \in ToSet(q) : e.letter = "o" /\ e.dir = "+"}}
      BY OppedSet
    <3>2. Opped(changes) = {d.arg : d \in {e \in ToSet(changes) : e.letter = "o" /\ e.dir = "+"}}
      BY OppedSet
    <3> QED BY <2>2, <3>1, <3>2 DEF T
  <2> QED BY <2>3 DEF q
<1> QED BY <1>3, <1>22, <1>23 DEF r
=============================================================================
