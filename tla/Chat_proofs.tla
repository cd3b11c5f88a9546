---------------------------- MODULE Chat_proofs ----------------------------
(***************************************************************************)
(* Proofs about chat: the group (GroupChat) and the ratchets of two peers  *)
(* (ChatRatchet).                                                          *)
(***************************************************************************)
EXTENDS Chat, FiniteSetTheorems, TLAPS

-----------------------------------------------------------------------------
(* The group.                                                               *)

\* The two packets that carry a sender key or a number of it: a key goes out as it was when
\* the group was made, and nobody writes to itself.
KeyPacket(x) ==
  /\ x \in [type : {"key"}, from : Members, to : Members, num : {0}]
  /\ x.from # x.to
MessagePacket(x) ==
  /\ x \in [type : {"message"}, from : Members, to : Members, num : 0 .. MaxSent]
  /\ x.from # x.to

PacketTypes ==
  \A x \in packets : (\E q \in Members : x = Invite(q)) \/ KeyPacket(x) \/ MessagePacket(x)

WaitTypes ==
  /\ waitKeys \in [Members -> SUBSET [type : {"key"}, from : Members, to : Members, num : {0}]]
  /\ waitMsgs \in [Members -> SUBSET [type : {"message"}, from : Members, to : Members,
                                      num : 0 .. MaxSent]]
  /\ \A q \in Members : \A x \in waitKeys[q] : KeyPacket(x) /\ x.to = q
  /\ \A q \in Members : \A x \in waitMsgs[q] : MessagePacket(x) /\ x.to = q

KeyRows == [Members -> 0 .. MaxSent + 1]

GroupTypes ==
  /\ joined \in [Members -> BOOLEAN] /\ creating \in [Members -> BOOLEAN]
  /\ saved \in [Members -> KeyRows] /\ held \in [Members -> KeyRows \cup {None}]
  /\ PacketTypes /\ WaitTypes
  /\ got \in [Members -> SUBSET (Members \X (0 .. MaxSent))]
  /\ slips \in 0 .. MaxGroupFaults

\* Nothing of p's sender key is anywhere yet.
KeyFresh(p) ==
  /\ \A q \in Members : held[q][p] \in {NoKey, MaxSent + 2} /\ saved[q][p] = NoKey
  /\ \A x \in packets : x.type # "create" => x.from # p
  /\ \A q \in Members : \A x \in waitKeys[q] \cup waitMsgs[q] : x.from # p

\* Before p has made its key: nobody has one of it, and p has none of the others'.
Before(p) == held[p] = None /\ saved[p] = NoKeys /\ KeyFresh(p)

\* Before the group is made there is nothing.
NoGroup ==
  ~joined[Creator] =>
    /\ packets = {}
    /\ \A q \in Members : ~joined[q] /\ waitKeys[q] = {} /\ waitMsgs[q] = {} /\ Before(q)

\* An invitation is the only one, and comes before the key.
Invitations ==
  /\ ~creating[Creator] /\ Invite(Creator) \notin packets
  /\ \A p \in Members : Invite(p) \in packets => ~joined[p] /\ Before(p)
  /\ \A p \in Members : creating[p] => joined[p] /\ Before(p)

\* The table has the number the owner uses next, in memory or not.  A member that lost the
\* keys before it made its own is deaf and silent.
HasKey(p) == joined[p] /\ ~creating[p] /\ saved[p][p] # NoKey
OwnNumber ==
  \A p \in Members :
    /\ HasKey(p) => held[p] = None \/ held[p][p] = saved[p][p]
    /\ joined[p] /\ ~creating[p] /\ saved[p][p] = NoKey => held[p] = None /\ saved[p] = NoKeys

\* Copies and messages are behind the table of the owner.
Behind ==
  \A p \in Members : HasKey(p) =>
    /\ \A q \in Members : /\ held[q][p] \in {NoKey, MaxSent + 2} \/ held[q][p] <= saved[p][p]
                          /\ saved[q][p] = NoKey \/ saved[q][p] <= saved[p][p]
    /\ \A x \in packets : x.type = "message" /\ x.from = p => x.num < saved[p][p]
    /\ \A q \in Members : \A x \in waitMsgs[q] : x.from = p => x.num < saved[p][p]

GroupInvariant == GroupTypes /\ NoGroup /\ Invitations /\ OwnNumber /\ Behind


\* There is a member, and keys in memory are not none.
LEMMA GroupConstants ==
  /\ Creator \in Members /\ MaxSent \in Nat /\ MaxGroupFaults \in Nat
  /\ NoKeys \in KeyRows
  /\ None \notin KeyRows
  /\ \A p \in Members : NoKeys[p] = NoKey /\ None[p] = MaxSent + 2
<1>1. Creator \in Members /\ MaxSent \in Nat /\ MaxGroupFaults \in Nat
  BY GroupConstantsAssumption
<1>2. None[Creator] = MaxSent + 2
  BY <1>1 DEF None
<1>3. None \notin KeyRows
  <2> SUFFICES ASSUME None \in KeyRows PROVE FALSE
    OBVIOUS
  <2>1. None[Creator] \in 0 .. MaxSent + 1
    BY <1>1 DEF KeyRows
  <2> QED BY <2>1, <1>1, <1>2
<1> QED BY <1>1, <1>3 DEF NoKeys, NoKey, None, KeyRows

\* Before the group is made.
LEMMA GroupInitially == GroupInit => GroupInvariant
<1> SUFFICES ASSUME GroupInit PROVE GroupInvariant
  OBVIOUS
<1>1. GroupTypes
  BY GroupConstants DEF GroupInit, GroupTypes, PacketTypes, WaitTypes
<1>2. NoGroup
  BY GroupConstants DEF GroupInit, NoGroup, Before, KeyFresh
<1>3. Invitations
  BY GroupConstants DEF GroupInit, Invitations
<1>4. OwnNumber /\ Behind
  BY GroupConstants DEF GroupInit, OwnNumber, Behind, HasKey
<1> QED BY <1>1, <1>2, <1>3, <1>4 DEF GroupInvariant

\* The kinds of packets are apart.
LEMMA KindsApart ==
  /\ \A q \in Members : Invite(q).type = "create" /\ Invite(q).to = q
  /\ \A p, q \in Members : \A n \in Nat :
       /\ KeyOf(p, q, n).type = "key" /\ KeyOf(p, q, n).from = p
       /\ KeyOf(p, q, n).to = q /\ KeyOf(p, q, n).num = n
       /\ Group(p, q, n).type = "message" /\ Group(p, q, n).from = p
       /\ Group(p, q, n).to = q /\ Group(p, q, n).num = n
  /\ \A x : KeyPacket(x) => x.type = "key" /\ x.from \in Members /\ x.to \in Members
                              /\ x.num = 0 /\ x.from # x.to
  /\ \A x : MessagePacket(x) => x.type = "message" /\ x.from \in Members /\ x.to \in Members
                              /\ x.num \in 0 .. MaxSent /\ x.from # x.to
  /\ \A p, q \in Members : p # q => KeyPacket(KeyOf(p, q, 0))
  /\ \A p, q \in Members, n \in 0 .. MaxSent : p # q => MessagePacket(Group(p, q, n))
BY GroupConstants DEF Invite, KeyOf, Group, KeyPacket, MessagePacket

\* The group is made: the creator has its key, and the others an invitation.
LEMMA CreateKeeps == GroupInvariant /\ CreateGroup => GroupInvariant'
<1> SUFFICES ASSUME GroupInvariant, CreateGroup PROVE GroupInvariant'
  OBVIOUS
<1> USE GroupConstants, KindsApart
<1>1. /\ \A p \in Members : ~creating[p] /\ ~joined[p] /\ waitKeys[p] = {} /\ waitMsgs[p] = {}
                             /\ held[p] = None /\ saved[p] = NoKeys
      /\ joined \in [Members -> BOOLEAN] /\ held \in [Members -> KeyRows \cup {None}]
      /\ saved \in [Members -> KeyRows]
  BY DEF GroupInvariant, GroupTypes, NoGroup, Invitations, CreateGroup, Before
<1>2. \A x : x \in packets' <=> \E q \in Members \ {Creator} : x = Invite(q) \/ x = KeyOf(Creator, q, 0)
  BY DEF CreateGroup
<1>11. \A x \in packets' : \/ x.type = "create"
                           \/ x.type = "key" /\ x.from = Creator
  BY <1>2
<1>3. /\ joined' = [joined EXCEPT ![Creator] = TRUE]
      /\ held' = [held EXCEPT ![Creator] = OwnKeyOnly(Creator)]
      /\ saved' = [saved EXCEPT ![Creator] = OwnKeyOnly(Creator)]
      /\ UNCHANGED <<creating, waitKeys, waitMsgs, got, slips>>
  BY DEF CreateGroup, AddGroupMember, StoreSenderKeys
<1>4. /\ OwnKeyOnly(Creator) \in KeyRows
      /\ \A p \in Members : OwnKeyOnly(Creator)[p] = IF p = Creator THEN 0 ELSE NoKey
  BY DEF OwnKeyOnly, NoKeys, NoKey, KeyRows
<1>5. /\ \A p \in Members : joined'[p] <=> p = Creator
      /\ joined' \in [Members -> BOOLEAN]
      /\ \A q \in Members \ {Creator} : held'[q] = None /\ saved'[q] = NoKeys
      /\ held'[Creator] = OwnKeyOnly(Creator) /\ saved'[Creator] = OwnKeyOnly(Creator)
      /\ saved' \in [Members -> KeyRows] /\ held' \in [Members -> KeyRows \cup {None}]
  <2>1. /\ \A p \in Members : joined'[p] <=> p = Creator
        /\ joined' \in [Members -> BOOLEAN]
    BY <1>1, <1>3
  <2>2. /\ \A q \in Members \ {Creator} : held'[q] = None /\ saved'[q] = NoKeys
        /\ held'[Creator] = OwnKeyOnly(Creator) /\ saved'[Creator] = OwnKeyOnly(Creator)
    BY <1>1, <1>3
  <2>3. saved' \in [Members -> KeyRows] /\ held' \in [Members -> KeyRows \cup {None}]
    BY <1>1, <1>3, <1>4
  <2> QED BY <2>1, <2>2, <2>3
<1>6. GroupTypes'
  <2>1. PacketTypes'
    BY <1>2 DEF PacketTypes
  <2>2. WaitTypes'
    BY <1>3 DEF WaitTypes, GroupInvariant, GroupTypes
  <2> QED BY <1>3, <1>5, <2>1, <2>2 DEF GroupInvariant, GroupTypes
<1>7. NoGroup'
  BY <1>5 DEF NoGroup
<1>8. Invitations'
  <2>1. ASSUME NEW p \in Members, p # Creator PROVE Before(p)'
    <3>1. \A q \in Members : held'[q][p] \in {NoKey, MaxSent + 2} /\ saved'[q][p] = NoKey
      <4> SUFFICES ASSUME NEW q \in Members PROVE held'[q][p] \in {NoKey, MaxSent + 2} /\ saved'[q][p] = NoKey
        OBVIOUS
      <4>1. None[p] = MaxSent + 2 /\ NoKeys[p] = NoKey /\ OwnKeyOnly(Creator)[p] = NoKey
        BY <1>4, <2>1 DEF None, NoKeys
      <4>2. CASE q = Creator
        BY <1>5, <4>1, <4>2
      <4>3. CASE q # Creator
        BY <1>5, <4>1, <4>3
      <4> QED BY <4>2, <4>3
    <3>2. \A x \in packets' : x.type # "create" => x.from # p
      BY <1>11, <2>1
    <3> QED BY <1>1, <1>3, <1>5, <2>1, <3>1, <3>2 DEF Before, KeyFresh
  <2>2. Invite(Creator) \notin packets'
    BY <1>2, SMTT(30)
  <2>3. \A p \in Members : ~creating'[p]
    BY <1>1, <1>3
  <2>4. \A p \in Members : Invite(p) \in packets' => p # Creator
    BY <2>2
  <2> QED BY <1>5, <2>1, <2>2, <2>3, <2>4 DEF Invitations
<1>9. OwnNumber'
  BY <1>3, <1>4, <1>5 DEF OwnNumber, HasKey, NoKey
<1>10. Behind'
  <2>1. \A p \in Members : HasKey(p)' => p = Creator
    BY <1>5 DEF HasKey
  <2>2. \A q \in Members : /\ held'[q][Creator] \in {NoKey, MaxSent + 2} \/ held'[q][Creator] <= 0
                           /\ saved'[q][Creator] = NoKey \/ saved'[q][Creator] <= 0
    BY <1>4, <1>5
  <2>3. \A x \in packets' : x.type # "message"
    BY <1>11
  <2>4. \A q \in Members : waitMsgs'[q] = {}
    BY <1>1, <1>3
  <2>5. saved'[Creator][Creator] = 0
    BY <1>4, <1>5
  <2> QED BY <2>1, <2>2, <2>3, <2>4, <2>5 DEF Behind
<1> QED BY <1>6, <1>7, <1>8, <1>9, <1>10 DEF GroupInvariant


\* Packets are dropped, or put aside at their receiver.
LEMMA PacketsMove ==
  ASSUME GroupInvariant, UNCHANGED <<joined, creating, held, saved>>,
         packets' \subseteq packets, WaitTypes',
         \A q \in Members : /\ waitKeys'[q] \subseteq waitKeys[q] \cup packets
                            /\ waitMsgs'[q] \subseteq waitMsgs[q] \cup packets,
         got' \in [Members -> SUBSET (Members \X (0 .. MaxSent))],
         slips' \in 0 .. MaxGroupFaults
  PROVE  GroupInvariant'
<1> USE GroupConstants, KindsApart
<1>1. GroupTypes'
  BY DEF GroupInvariant, GroupTypes, PacketTypes
<1>2. ASSUME NEW p \in Members, KeyFresh(p) PROVE KeyFresh(p)'
  <2>1. \A x \in packets : x.type # "create" => x.from # p
    BY <1>2 DEF KeyFresh
  <2>2. ASSUME NEW q \in Members, NEW x \in waitKeys'[q] \cup waitMsgs'[q] PROVE x.from # p
    <3>1. x.type # "create"
      BY DEF WaitTypes
    <3> QED BY <1>2, <2>1, <3>1 DEF KeyFresh
  <2>3. \A x \in packets' : x.type # "create" => x.from # p
    BY <2>1
  <2>4. \A q \in Members : held'[q][p] \in {NoKey, MaxSent + 2} /\ saved'[q][p] = NoKey
    BY <1>2 DEF KeyFresh
  <2> QED BY <2>2, <2>3, <2>4 DEF KeyFresh
<1>3. \A p \in Members : Before(p) => Before(p)'
  BY <1>2 DEF Before
<1>4. NoGroup'
  <2> SUFFICES ASSUME ~joined[Creator] PROVE packets' = {} /\ \A q \in Members :
                                 ~joined'[q] /\ waitKeys'[q] = {} /\ waitMsgs'[q] = {} /\ Before(q)'
    BY DEF NoGroup
  <2>1. packets = {} /\ \A q \in Members :
                                 ~joined[q] /\ waitKeys[q] = {} /\ waitMsgs[q] = {} /\ Before(q)
    BY DEF GroupInvariant, NoGroup
  <2>2. ASSUME NEW q \in Members PROVE waitKeys'[q] = {} /\ waitMsgs'[q] = {}
    <3>1. /\ waitKeys'[q] \subseteq waitKeys[q] \cup packets
          /\ waitMsgs'[q] \subseteq waitMsgs[q] \cup packets
      OBVIOUS
    <3>2. waitKeys[q] = {} /\ waitMsgs[q] = {} /\ packets = {}
      BY <2>1
    <3> QED BY ONLY <3>1, <3>2
  <2>3. \A q \in Members : Before(q)'
    BY <1>3, <2>1
  <2> QED BY <2>1, <2>2, <2>3
<1>5. Invitations'
  BY <1>3 DEF GroupInvariant, Invitations
<1>6. OwnNumber'
  BY DEF GroupInvariant, OwnNumber, HasKey
<1>7. Behind'
  <2> SUFFICES ASSUME NEW p \in Members, HasKey(p)'
               PROVE  /\ \A q \in Members :
                           /\ held'[q][p] \in {NoKey, MaxSent + 2} \/ held'[q][p] <= saved'[p][p]
                           /\ saved'[q][p] = NoKey \/ saved'[q][p] <= saved'[p][p]
                      /\ \A x \in packets' : x.type = "message" /\ x.from = p => x.num < saved'[p][p]
                      /\ \A q \in Members : \A x \in waitMsgs'[q] : x.from = p => x.num < saved'[p][p]
    BY DEF Behind
  <2>1. HasKey(p)
    BY DEF HasKey
  <2>2. \A q \in Members : \A x \in waitMsgs'[q] : x.type = "message"
    BY DEF WaitTypes
  <2> QED BY <2>1, <2>2 DEF GroupInvariant, Behind
<1> QED BY <1>1, <1>4, <1>5, <1>6, <1>7 DEF GroupInvariant

\* A packet that is on its way means that there is a group.
LEMMA PacketsMeanGroup ==
  ASSUME GroupInvariant, NEW x \in packets
  PROVE  joined[Creator]
BY GroupConstants DEF GroupInvariant, NoGroup

\* An invitation is taken: the member is in, and its key is to be made.
LEMMA InvitationKeeps ==
  ASSUME GroupInvariant, NEW packet \in packets, HandleChatGroupCreate(packet)
  PROVE  GroupInvariant'
<1> DEFINE q == packet.to
<1> USE GroupConstants, KindsApart
<1>1. q \in Members /\ packet = Invite(q)
  BY DEF GroupInvariant, GroupTypes, PacketTypes, HandleChatGroupCreate
<1>2. q # Creator /\ joined[Creator] /\ ~joined[q] /\ Before(q)
  BY <1>1, PacketsMeanGroup DEF GroupInvariant, Invitations
<1>3. /\ packets' = packets \ {packet}
      /\ joined' = [joined EXCEPT ![q] = TRUE] /\ creating' = [creating EXCEPT ![q] = TRUE]
      /\ UNCHANGED <<held, saved, waitKeys, waitMsgs, got, slips>>
  BY DEF HandleChatGroupCreate, AddGroupMember
<1>0. /\ joined \in [Members -> BOOLEAN] /\ creating \in [Members -> BOOLEAN]
      /\ saved \in [Members -> KeyRows] /\ held \in [Members -> KeyRows \cup {None}]
  BY DEF GroupInvariant, GroupTypes
<1>4. /\ joined' \in [Members -> BOOLEAN] /\ creating' \in [Members -> BOOLEAN]
      /\ joined'[q] /\ creating'[q]
      /\ \A p \in Members \ {q} : (joined'[p] <=> joined[p]) /\ (creating'[p] <=> creating[p])
  BY <1>0, <1>1, <1>3
<1>5. GroupTypes'
  <2>1. PacketTypes' /\ WaitTypes'
    BY <1>3 DEF GroupInvariant, GroupTypes, PacketTypes, WaitTypes
  <2> QED BY <1>3, <1>4, <2>1 DEF GroupInvariant, GroupTypes
<1>6. \A p \in Members : Before(p) => Before(p)'
  BY <1>3 DEF Before, KeyFresh
<1>7. NoGroup'
  BY <1>2, <1>4 DEF NoGroup
<1>8. Invitations'
  <2>1. Invitations
    BY DEF GroupInvariant
  <2>2. ~creating'[Creator] /\ Invite(Creator) \notin packets'
    BY <1>2, <1>3, <1>4, <2>1 DEF Invitations
  <2>3. ASSUME NEW p \in Members, Invite(p) \in packets' PROVE ~joined'[p] /\ Before(p)'
    <3>1. Invite(p) \in packets /\ p # q
      BY <1>1, <1>3, <2>3
    <3> QED BY <1>4, <1>6, <2>1, <3>1 DEF Invitations
  <2>4. ASSUME NEW p \in Members, creating'[p] PROVE joined'[p] /\ Before(p)'
    <3>1. p = q \/ creating[p]
      BY <1>4, <2>4
    <3> QED BY <1>1, <1>2, <1>4, <1>6, <2>1, <3>1 DEF Invitations
  <2> QED BY <2>2, <2>3, <2>4 DEF Invitations
<1>9. \A p \in Members : HasKey(p)' => HasKey(p)
  BY <1>2, <1>3, <1>4 DEF HasKey
<1>10. OwnNumber'
  BY <1>2, <1>3, <1>4, <1>9 DEF GroupInvariant, OwnNumber, HasKey
<1>11. Behind'
  BY <1>3, <1>9 DEF GroupInvariant, Behind
<1> QED BY <1>5, <1>7, <1>8, <1>10, <1>11 DEF GroupInvariant

\* A member leaves, with its row in memory kept.
LEMMA LeaveKeeps ==
  ASSUME GroupInvariant, NEW q \in Members, LeaveGroup(q)
  PROVE  GroupInvariant'
<1> USE GroupConstants, KindsApart
<1>1. /\ joined[q] /\ ~creating[q] /\ q # Creator /\ slips' = slips + 1 /\ slips < MaxGroupFaults
      /\ joined' = [joined EXCEPT ![q] = FALSE]
      /\ saved' = [saved EXCEPT ![q] = NoKeys]
      /\ packets' = {x \in packets : x.type # "create" \/ x.to # q}
      /\ UNCHANGED <<creating, held, waitKeys, waitMsgs, got>>
  BY DEF LeaveGroup, GroupFault, StoreSenderKeys
<1>0. /\ joined \in [Members -> BOOLEAN] /\ creating \in [Members -> BOOLEAN]
      /\ saved \in [Members -> KeyRows] /\ held \in [Members -> KeyRows \cup {None}]
  BY DEF GroupInvariant, GroupTypes
<1>2. /\ joined' \in [Members -> BOOLEAN] /\ saved' \in [Members -> KeyRows]
      /\ \A p \in Members \ {q} : saved'[p] = saved[p] /\ (joined'[p] <=> joined[p])
      /\ saved'[q] = NoKeys /\ ~joined'[q]
  BY <1>0, <1>1
<1>3. GroupTypes'
  <2>1. PacketTypes' /\ WaitTypes'
    BY <1>1 DEF GroupInvariant, GroupTypes, PacketTypes, WaitTypes
  <2>2. slips' \in 0 .. MaxGroupFaults
    BY <1>1 DEF GroupInvariant, GroupTypes
  <2> QED BY <1>1, <1>2, <2>1, <2>2 DEF GroupInvariant, GroupTypes
<1>4. \A p \in Members : KeyFresh(p) => KeyFresh(p)'
  BY <1>1, <1>2 DEF KeyFresh
<1>5. \A p \in Members : Before(p) => Before(p)'
  BY <1>1, <1>2, <1>4 DEF Before
<1>6. joined[Creator]
  BY <1>1 DEF GroupInvariant, NoGroup
<1>7. NoGroup'
  BY <1>1, <1>2, <1>6 DEF NoGroup
<1>8. Invitations'
  BY <1>1, <1>2, <1>5 DEF GroupInvariant, Invitations
<1>9. \A p \in Members : HasKey(p)' => HasKey(p) /\ p # q
  BY <1>1, <1>2 DEF HasKey
<1>10. OwnNumber'
  BY <1>1, <1>2, <1>9 DEF GroupInvariant, OwnNumber, HasKey
<1>11. Behind'
  <2>1. \A p \in Members : saved'[q][p] = NoKey
    BY <1>2
  <2> QED BY <1>1, <1>2, <1>9, <2>1 DEF GroupInvariant, Behind
<1> QED BY <1>3, <1>7, <1>8, <1>10, <1>11 DEF GroupInvariant

\* A restart: what is in memory is gone.
LEMMA GroupCrashKeeps ==
  ASSUME GroupInvariant, NEW q \in Members, GroupCrash(q)
  PROVE  GroupInvariant'
<1> USE GroupConstants, KindsApart
<1>1. /\ slips' = slips + 1 /\ slips < MaxGroupFaults
      /\ held' = [held EXCEPT ![q] = None]
      /\ creating' = [creating EXCEPT ![q] = FALSE]
      /\ waitKeys' = [waitKeys EXCEPT ![q] = {}]
      /\ waitMsgs' = [waitMsgs EXCEPT ![q] = {}]
      /\ UNCHANGED <<joined, saved, packets, got>>
  BY DEF GroupCrash, GroupFault
<1>0. /\ joined \in [Members -> BOOLEAN] /\ creating \in [Members -> BOOLEAN]
      /\ saved \in [Members -> KeyRows] /\ held \in [Members -> KeyRows \cup {None}]
  BY DEF GroupInvariant, GroupTypes
<1>2. /\ creating' \in [Members -> BOOLEAN] /\ held' \in [Members -> KeyRows \cup {None}]
      /\ \A p \in Members \ {q} : held'[p] = held[p] /\ (creating'[p] <=> creating[p])
      /\ held'[q] = None /\ ~creating'[q]
  BY <1>0, <1>1
<1>3. WaitTypes' /\ \A p \in Members : waitKeys'[p] \subseteq waitKeys[p] /\ waitMsgs'[p] \subseteq waitMsgs[p]
  BY <1>1 DEF GroupInvariant, GroupTypes, WaitTypes
<1>4. GroupTypes'
  <2>1. PacketTypes'
    BY <1>1 DEF GroupInvariant, GroupTypes, PacketTypes
  <2>2. slips' \in 0 .. MaxGroupFaults
    BY <1>1 DEF GroupInvariant, GroupTypes
  <2> QED BY <1>1, <1>2, <1>3, <2>1, <2>2 DEF GroupInvariant, GroupTypes
<1>5. \A p \in Members : KeyFresh(p) => KeyFresh(p)'
  BY <1>1, <1>2, <1>3 DEF KeyFresh
<1>6. \A p \in Members : Before(p) => Before(p)'
  BY <1>1, <1>2, <1>5 DEF Before
<1>7. NoGroup'
  BY <1>1, <1>3, <1>6 DEF GroupInvariant, NoGroup
<1>8. Invitations'
  BY <1>1, <1>2, <1>6 DEF GroupInvariant, Invitations
<1>9. OwnNumber'
  <2>1. ASSUME NEW p \in Members, joined[p], creating[p] PROVE held[p] = None /\ saved[p] = NoKeys
    BY <2>1 DEF GroupInvariant, Invitations, Before
  <2> QED BY <1>1, <1>2, <2>1 DEF GroupInvariant, OwnNumber, HasKey
<1>10. \A p \in Members : HasKey(p)' => HasKey(p)
  <2>1. ASSUME NEW p \in Members, creating[p] PROVE saved[p][p] = NoKey
    BY <2>1 DEF GroupInvariant, Invitations, Before
  <2> QED BY <1>1, <1>2, <2>1 DEF HasKey
<1>11. Behind'
  <2>1. \A p \in Members : held'[q][p] = MaxSent + 2
    BY <1>2
  <2> QED BY <1>1, <1>2, <1>3, <1>10, <2>1 DEF GroupInvariant, Behind
<1> QED BY <1>4, <1>7, <1>8, <1>9, <1>11 DEF GroupInvariant


\* What the member reads its keys from is a row of keys.
LEMMA LoadedKeys ==
  ASSUME GroupInvariant, NEW q \in Members
  PROVE  /\ LoadGroupSenderKey(q) \in KeyRows
         /\ held[q] # None => LoadGroupSenderKey(q) = held[q] /\ held[q] \in KeyRows
         /\ held[q] = None => LoadGroupSenderKey(q) = saved[q]
<1>1. saved[q] \in KeyRows /\ (held[q] \in KeyRows \/ held[q] = None)
  BY DEF GroupInvariant, GroupTypes
<1> QED BY <1>1 DEF LoadGroupSenderKey, GetAllSenderKeys

\* One number of a row changes.
LEMMA RowUpdated ==
  ASSUME NEW row \in KeyRows, NEW f \in Members, NEW n \in 0 .. MaxSent + 1
  PROVE  /\ [row EXCEPT ![f] = n] \in KeyRows
         /\ [row EXCEPT ![f] = n][f] = n
         /\ \A p \in Members \ {f} : [row EXCEPT ![f] = n][p] = row[p]
BY DEF KeyRows

\* One number of a member changes in both places, or only its keys are loaded: what is left
\* to show is that this disturbs nobody's fresh key.
LEMMA RowChanges ==
  ASSUME GroupInvariant, NEW q \in Members, NEW f \in Members, NEW n \in 0 .. MaxSent + 1,
         joined[q], saved[q][q] # NoKey, ~KeyFresh(f),
         held' = [held EXCEPT ![q] = [LoadGroupSenderKey(q) EXCEPT ![f] = n]],
         saved' = [saved EXCEPT ![q][f] = n],
         UNCHANGED <<joined, creating, waitKeys, waitMsgs>>,
         PacketTypes', \A x \in packets' : x \in packets \/ (x.type # "create" /\ x.from = f),
         got' \in [Members -> SUBSET (Members \X (0 .. MaxSent))],
         slips' \in 0 .. MaxGroupFaults,
         f = q => n # NoKey
  PROVE  GroupTypes' /\ NoGroup' /\ Invitations' /\ OwnNumber'
<1> DEFINE known == LoadGroupSenderKey(q)
<1> USE GroupConstants, KindsApart
<1>0. /\ joined \in [Members -> BOOLEAN] /\ creating \in [Members -> BOOLEAN]
      /\ saved \in [Members -> KeyRows] /\ held \in [Members -> KeyRows \cup {None}]
      /\ known \in KeyRows
      /\ held[q] # None => known = held[q]
      /\ held[q] = None => known = saved[q]
  BY LoadedKeys DEF GroupInvariant, GroupTypes
<1> HIDE DEF known
<1>1. /\ \A p \in Members \ {q} : held'[p] = held[p] /\ saved'[p] = saved[p]
      /\ \A p \in Members \ {f} : held'[q][p] = known[p] /\ saved'[q][p] = saved[q][p]
      /\ held'[q][f] = n /\ saved'[q][f] = n
      /\ saved' \in [Members -> KeyRows] /\ held' \in [Members -> KeyRows \cup {None}]
  <2>1. saved[q] \in KeyRows
    BY <1>0
  <2>2. /\ [known EXCEPT ![f] = n] \in KeyRows /\ [known EXCEPT ![f] = n][f] = n
        /\ \A p \in Members \ {f} : [known EXCEPT ![f] = n][p] = known[p]
    BY ONLY <1>0, RowUpdated, f \in Members, n \in 0 .. MaxSent + 1
  <2>7. /\ [saved[q] EXCEPT ![f] = n] \in KeyRows /\ [saved[q] EXCEPT ![f] = n][f] = n
        /\ \A p \in Members \ {f} : [saved[q] EXCEPT ![f] = n][p] = saved[q][p]
    BY ONLY <2>1, RowUpdated, f \in Members, n \in 0 .. MaxSent + 1
  <2>3. held' = [held EXCEPT ![q] = [known EXCEPT ![f] = n]]
    BY DEF known
  <2>4. saved' = [saved EXCEPT ![q] = [saved[q] EXCEPT ![f] = n]]
    BY <1>0
  <2>5. /\ held' \in [Members -> KeyRows \cup {None}] /\ held'[q] = [known EXCEPT ![f] = n]
        /\ \A p \in Members \ {q} : held'[p] = held[p]
    BY ONLY <1>0, <2>2, <2>3, q \in Members
  <2>6. /\ saved' \in [Members -> KeyRows] /\ saved'[q] = [saved[q] EXCEPT ![f] = n]
        /\ \A p \in Members \ {q} : saved'[p] = saved[p]
    BY ONLY <1>0, <2>7, <2>4, q \in Members
  <2> QED BY ONLY <2>2, <2>5, <2>6, <2>7
<1>2. GroupTypes'
  <2>1. WaitTypes'
    BY DEF GroupInvariant, GroupTypes, WaitTypes
  <2> QED BY <1>0, <1>1, <2>1 DEF GroupInvariant, GroupTypes
<1>3. ASSUME NEW p \in Members, KeyFresh(p) PROVE KeyFresh(p)'
  <2>1. p # f
    BY <1>3
  <2>2. /\ \A r \in Members : held[r][p] \in {NoKey, MaxSent + 2} /\ saved[r][p] = NoKey
        /\ \A x \in packets : x.type # "create" => x.from # p
        /\ \A r \in Members : \A x \in waitKeys[r] \cup waitMsgs[r] : x.from # p
    BY <1>3 DEF KeyFresh
  <2>3. known[p] \in {NoKey, MaxSent + 2}
    BY <1>0, <2>2
  <2>4. \A r \in Members : held'[r][p] \in {NoKey, MaxSent + 2} /\ saved'[r][p] = NoKey
    BY <1>1, <2>1, <2>2, <2>3
  <2>5. \A x \in packets' : x.type # "create" => x.from # p
    BY <2>1, <2>2
  <2> QED BY <2>2, <2>4, <2>5 DEF KeyFresh
<1>4. ASSUME NEW p \in Members, Before(p) PROVE Before(p)' /\ p # q
  BY <1>1, <1>3, <1>4 DEF Before
<1>5. NoGroup'
  BY DEF GroupInvariant, NoGroup
<1>6. Invitations'
  <2>1. \A p \in Members : Invite(p).type = "create"
    BY KindsApart
  <2>2. \A p \in Members : Invite(p) \in packets' => Invite(p) \in packets
    BY ONLY <2>1, \A x \in packets' : x \in packets \/ (x.type # "create" /\ x.from = f)
  <2> QED BY <1>4, <2>2 DEF GroupInvariant, Invitations
<1>7. OwnNumber'
  <2>1. OwnNumber /\ (creating[q] => Before(q))
    BY DEF GroupInvariant, Invitations
  <2>2. ~creating[q]
    BY <2>1 DEF Before
  <2>3. known[q] = saved[q][q]
    BY <1>0, <2>1, <2>2 DEF OwnNumber, HasKey
  <2>4. held'[q][q] = saved'[q][q] /\ saved'[q][q] # NoKey
    BY <1>1, <2>2, <2>3
  <2> QED BY <1>1, <2>1, <2>4 DEF OwnNumber, HasKey
<1> QED BY <1>2, <1>5, <1>6, <1>7 DEF GroupInvariant


\* A key is put into the row: it is the first number of its owner.
LEMMA KeyKeeps ==
  ASSUME GroupInvariant, NEW packet \in packets, packet.type = "key",
         joined[packet.to], held[packet.to] # None,
         AddGroupSenderKey(packet.to, packet),
         packets' \subseteq packets, slips' \in 0 .. MaxGroupFaults,
         UNCHANGED <<joined, creating, waitKeys, waitMsgs, got>>
  PROVE  GroupInvariant'
<1> DEFINE q == packet.to
           f == packet.from
<1> USE GroupConstants
<1>1. q \in Members /\ f \in Members /\ f # q /\ packet.num = 0
  <2>1. KeyPacket(packet)
    BY KindsApart DEF GroupInvariant, GroupTypes, PacketTypes
  <2> QED BY <2>1, KindsApart
<1>2. OwnNumber /\ ~Before(q) /\ (creating[q] => Before(q)) /\ GroupTypes
  BY <1>1 DEF GroupInvariant, Invitations, Before
<1>3. saved[q][q] # NoKey
  BY <1>1, <1>2 DEF OwnNumber
<1>4. ~KeyFresh(f)
  BY <1>1 DEF KeyFresh
<1>5. LoadGroupSenderKey(q) = held[q] /\ held[q] \in KeyRows
  BY <1>1, LoadedKeys
<1>6. held' = [held EXCEPT ![q] = [LoadGroupSenderKey(q) EXCEPT ![f] = 0]]
  BY <1>1, <1>5 DEF AddGroupSenderKey
<1>7. saved' = [saved EXCEPT ![q][f] = 0]
  BY <1>1 DEF AddGroupSenderKey, StoreSenderKey
<1>8. GroupTypes' /\ NoGroup' /\ Invitations' /\ OwnNumber'
  <2>1. PacketTypes' /\ 0 \in 0 .. MaxSent + 1
    BY <1>2 DEF GroupTypes, PacketTypes
  <2>2. got' \in [Members -> SUBSET (Members \X (0 .. MaxSent))]
    BY <1>2 DEF GroupTypes
  <2>3. \A x \in packets' : x \in packets \/ (x.type # "create" /\ x.from = f)
    OBVIOUS
  <2> HIDE DEF q, f
  <2> QED BY <1>1, <1>3, <1>4, <1>6, <1>7, <2>1, <2>2, <2>3, RowChanges DEF q, f
<1>9. Behind'
  <2>1. /\ \A r, p \in Members : /\ held'[r][p] = held[r][p] \/ held'[r][p] = 0
                                 /\ saved'[r][p] = saved[r][p] \/ saved'[r][p] = 0
        /\ \A p \in Members : saved'[p][p] = saved[p][p]
    BY <1>1, <1>2, <1>5, <1>6, <1>7 DEF GroupTypes, KeyRows
  <2>2. \A p \in Members : 0 <= saved[p][p]
    BY <1>2 DEF GroupTypes, KeyRows
  <2> QED BY <2>1, <2>2 DEF GroupInvariant, Behind, HasKey
<1> QED BY <1>8, <1>9 DEF GroupInvariant

\* A key arrives, and waits, is dropped or is used.
LEMMA DistributionKeeps ==
  ASSUME GroupInvariant, NEW packet \in packets, HandleChatSenderKeyDistribution(packet)
  PROVE  GroupInvariant'
<1> DEFINE q == packet.to
<1>1. /\ packet.type = "key" /\ packets' = packets \ {packet}
      /\ UNCHANGED <<joined, creating, waitMsgs, got, slips>>
  BY DEF HandleChatSenderKeyDistribution
<1>2. KeyPacket(packet) /\ q \in Members
  <2>1. KeyPacket(packet)
    BY <1>1, KindsApart DEF GroupInvariant, GroupTypes, PacketTypes
  <2> QED BY <2>1, KindsApart
<1>3. GroupTypes /\ WaitTypes
  BY DEF GroupInvariant, GroupTypes
<1>4. CASE UNCHANGED <<waitKeys, held, saved>>
  <2>1. WaitTypes'
    BY <1>1, <1>3, <1>4 DEF WaitTypes
  <2>2. /\ got' \in [Members -> SUBSET (Members \X (0 .. MaxSent))]
        /\ slips' \in 0 .. MaxGroupFaults
    BY <1>1, <1>3 DEF GroupTypes
  <2> QED BY <1>1, <1>4, <2>1, <2>2, PacketsMove
<1>5. CASE waitKeys' = [waitKeys EXCEPT ![q] = @ \cup {packet}] /\ UNCHANGED <<held, saved>>
  <2>1. \A r \in Members : waitKeys'[r] = IF r = q THEN waitKeys[q] \cup {packet} ELSE waitKeys[r]
    BY <1>2, <1>3, <1>5 DEF WaitTypes
  <2>2. waitKeys' \in [Members -> SUBSET [type : {"key"}, from : Members, to : Members, num : {0}]]
    BY <1>2, <1>3, <1>5 DEF WaitTypes, KeyPacket
  <2>3. WaitTypes'
    BY <1>1, <1>2, <1>3, <2>1, <2>2 DEF WaitTypes
  <2>4. /\ got' \in [Members -> SUBSET (Members \X (0 .. MaxSent))]
        /\ slips' \in 0 .. MaxGroupFaults
    BY <1>1, <1>3 DEF GroupTypes
  <2>5. \A r \in Members : /\ waitKeys'[r] \subseteq waitKeys[r] \cup packets
                           /\ waitMsgs'[r] \subseteq waitMsgs[r] \cup packets
    BY <1>1, <2>1
  <2> QED BY <1>1, <1>5, <2>3, <2>4, <2>5, PacketsMove
<1>6. CASE joined[q] /\ held[q] # None /\ AddGroupSenderKey(q, packet) /\ UNCHANGED waitKeys
  <2>1. slips' \in 0 .. MaxGroupFaults
    BY <1>1, <1>3 DEF GroupTypes
  <2> QED BY <1>1, <1>6, <2>1, KeyKeeps
<1> QED BY <1>4, <1>5, <1>6 DEF HandleChatSenderKeyDistribution

\* A key comes twice.
LEMMA RepeatKeeps ==
  ASSUME GroupInvariant, NEW packet \in packets, RepeatKey(packet)
  PROVE  GroupInvariant'
<1>1. slips' \in 0 .. MaxGroupFaults
  BY GroupConstants DEF RepeatKey, GroupFault, GroupInvariant, GroupTypes
<1> QED BY <1>1, KeyKeeps DEF RepeatKey


\* A message that can be read moves the copy of its sender's key.
LEMMA ReadKeeps ==
  ASSUME GroupInvariant, NEW packet \in packets, packet.type = "message",
         joined[packet.to], Readable(LoadGroupSenderKey(packet.to), packet),
         packets' = packets \ {packet},
         held' = [held EXCEPT ![packet.to] =
                    DecryptGroupMessage(LoadGroupSenderKey(packet.to), packet)],
         StoreSenderKey(packet.to, packet.from, packet.num + 1),
         got' = [got EXCEPT ![packet.to] = @ \cup {<<packet.from, packet.num>>}],
         UNCHANGED <<joined, creating, waitKeys, waitMsgs, slips>>
  PROVE  GroupInvariant'
<1> DEFINE q == packet.to
           f == packet.from
           known == LoadGroupSenderKey(q)
<1> USE GroupConstants
<1>1. q \in Members /\ f \in Members /\ f # q /\ packet.num \in 0 .. MaxSent
  <2>1. MessagePacket(packet)
    BY KindsApart DEF GroupInvariant, GroupTypes, PacketTypes
  <2> QED BY <2>1, KindsApart
<1>2. OwnNumber /\ GroupTypes /\ (creating[q] => Before(q))
  BY <1>1 DEF GroupInvariant, Invitations
<1>3. /\ known \in KeyRows /\ (held[q] # None => known = held[q])
      /\ (held[q] = None => known = saved[q])
  BY <1>1, LoadedKeys
<1>4. saved[q] # NoKeys /\ saved[q][q] # NoKey
  <2>1. known[f] # NoKey
    BY DEF Readable
  <2>2. ~(held[q] = None /\ saved[q] = NoKeys)
    BY <1>1, <1>3, <2>1
  <2>3. ~creating[q]
    BY <1>2, <2>2 DEF Before
  <2>4. saved[q][q] # NoKey
    BY <1>1, <1>2, <2>2, <2>3 DEF OwnNumber
  <2> QED BY <1>1, <2>4
<1>5. ~KeyFresh(f)
  BY <1>1 DEF KeyFresh
<1>6. /\ held' = [held EXCEPT ![q] = [LoadGroupSenderKey(q) EXCEPT ![f] = packet.num + 1]]
      /\ saved' = [saved EXCEPT ![q][f] = packet.num + 1]
  BY DEF DecryptGroupMessage, StoreSenderKey
<1>7. GroupTypes' /\ NoGroup' /\ Invitations' /\ OwnNumber'
  <2>1. PacketTypes' /\ packet.num + 1 \in 0 .. MaxSent + 1
    BY <1>1, <1>2 DEF GroupTypes, PacketTypes
  <2>2. /\ got' \in [Members -> SUBSET (Members \X (0 .. MaxSent))]
        /\ slips' \in 0 .. MaxGroupFaults
    BY <1>1, <1>2 DEF GroupTypes
  <2>3. \A x \in packets' : x \in packets \/ (x.type # "create" /\ x.from = f)
    OBVIOUS
  <2>4. UNCHANGED <<joined, creating, waitKeys, waitMsgs>>
    OBVIOUS
  <2> HIDE DEF q, f, known
  <2> QED BY <1>1, <1>4, <1>5, <1>6, <2>1, <2>2, <2>3, <2>4, RowChanges DEF q, f
<1>8. Behind'
  <2>1. /\ \A r, p \in Members : (r # q \/ p # f) =>
                                 /\ held'[r][p] \in {held[r][p], saved[r][p]}
                                 /\ saved'[r][p] = saved[r][p]
        /\ held'[q][f] = packet.num + 1 /\ saved'[q][f] = packet.num + 1
    BY <1>1, <1>2, <1>3, <1>6 DEF GroupTypes, KeyRows
  <2>2. \A p \in Members : saved'[p][p] = saved[p][p] /\ (HasKey(p)' <=> HasKey(p))
    BY <1>1, <2>1 DEF HasKey
  <2>3. HasKey(f) => packet.num + 1 <= saved[f][f]
    <3>1. HasKey(f) => packet.num < saved[f][f]
      BY <1>1 DEF GroupInvariant, Behind
    <3>2. saved[f][f] \in 0 .. MaxSent + 1
      BY <1>1, <1>2 DEF GroupTypes, KeyRows
    <3> QED BY <1>1, <3>1, <3>2
  <2>4. ASSUME NEW p \in Members, HasKey(p), NEW r \in Members
        PROVE  /\ held'[r][p] \in {NoKey, MaxSent + 2} \/ held'[r][p] <= saved[p][p]
               /\ saved'[r][p] = NoKey \/ saved'[r][p] <= saved[p][p]
    <3>1. CASE r = q /\ p = f
      BY <2>1, <2>3, <2>4, <3>1
    <3>2. CASE r # q \/ p # f
      BY <2>1, <2>4, <3>2 DEF GroupInvariant, Behind
    <3> QED BY <3>1, <3>2
  <2>5. ASSUME NEW p \in Members, HasKey(p)
        PROVE  /\ \A x \in packets' : x.type = "message" /\ x.from = p => x.num < saved[p][p]
               /\ \A r \in Members : \A x \in waitMsgs'[r] : x.from = p => x.num < saved[p][p]
    BY <2>5 DEF GroupInvariant, Behind
  <2> QED BY <2>2, <2>4, <2>5 DEF Behind
<1> QED BY <1>7, <1>8 DEF GroupInvariant

\* A message that cannot be read: the keys may have been loaded for it.
LEMMA UnreadKeeps ==
  ASSUME GroupInvariant, NEW packet \in packets, packet.type = "message",
         packets' = packets \ {packet},
         held' = [held EXCEPT ![packet.to] =
                    IF LoadGroupSenderKey(packet.to) = NoKeys
                      THEN None ELSE LoadGroupSenderKey(packet.to)],
         UNCHANGED <<joined, creating, saved, waitKeys, waitMsgs, got, slips>>
  PROVE  GroupInvariant'
<1> DEFINE q == packet.to
           known == LoadGroupSenderKey(q)
<1> USE GroupConstants
<1>1. q \in Members
  <2>1. MessagePacket(packet)
    BY KindsApart DEF GroupInvariant, GroupTypes, PacketTypes
  <2> QED BY <2>1, KindsApart
<1>2. OwnNumber /\ GroupTypes /\ Invitations
  BY <1>1 DEF GroupInvariant
<1>3. /\ known \in KeyRows /\ (held[q] # None => known = held[q])
      /\ (held[q] = None => known = saved[q])
  BY <1>1, LoadedKeys
<1>4. /\ \A p \in Members \ {q} : held'[p] = held[p]
      /\ held'[q] = IF known = NoKeys THEN None ELSE known
      /\ held' \in [Members -> KeyRows \cup {None}]
  BY <1>1, <1>2, <1>3 DEF GroupTypes
<1>5. \A r, p \in Members : held'[r][p] \in {held[r][p], saved[r][p], MaxSent + 2}
  BY <1>1, <1>3, <1>4
<1>6. GroupTypes'
  BY <1>2, <1>4 DEF GroupTypes, PacketTypes, WaitTypes
<1>7. \A p \in Members : KeyFresh(p) => KeyFresh(p)'
  BY <1>5 DEF KeyFresh
<1>8. \A p \in Members : Before(p) => Before(p)'
  BY <1>1, <1>3, <1>4, <1>7 DEF Before
<1>9. NoGroup'
  BY <1>8 DEF GroupInvariant, NoGroup
<1>10. Invitations'
  BY <1>2, <1>8 DEF Invitations
<1>11. OwnNumber'
  BY <1>1, <1>2, <1>3, <1>4 DEF OwnNumber, HasKey
<1>12. Behind'
  BY <1>5 DEF GroupInvariant, Behind, HasKey
<1> QED BY <1>6, <1>9, <1>10, <1>11, <1>12 DEF GroupInvariant

\* A message arrives, and waits, is read or is not.
LEMMA MessageKeeps ==
  ASSUME GroupInvariant, NEW packet \in packets, HandleChatGroupMessage(packet)
  PROVE  GroupInvariant'
<1> DEFINE q == packet.to
           known == LoadGroupSenderKey(q)
<1>1. /\ packet.type = "message" /\ packets' = packets \ {packet}
      /\ UNCHANGED <<joined, creating, waitKeys, slips>>
  BY DEF HandleChatGroupMessage
<1>2. MessagePacket(packet) /\ q \in Members
  <2>1. MessagePacket(packet)
    BY <1>1, KindsApart DEF GroupInvariant, GroupTypes, PacketTypes
  <2> QED BY <2>1, KindsApart
<1>3. GroupTypes /\ WaitTypes
  BY DEF GroupInvariant, GroupTypes
<1>4. CASE waitMsgs' = [waitMsgs EXCEPT ![q] = @ \cup {packet}] /\ UNCHANGED <<held, saved, got>>
  <2>1. \A r \in Members : waitMsgs'[r] = IF r = q THEN waitMsgs[q] \cup {packet} ELSE waitMsgs[r]
    BY <1>2, <1>3, <1>4 DEF WaitTypes
  <2>2. waitMsgs' \in [Members -> SUBSET [type : {"message"}, from : Members, to : Members,
                                          num : 0 .. MaxSent]]
    BY <1>2, <1>3, <1>4 DEF WaitTypes, MessagePacket
  <2>3. WaitTypes'
    BY <1>1, <1>2, <1>3, <2>1, <2>2 DEF WaitTypes
  <2>4. /\ got' \in [Members -> SUBSET (Members \X (0 .. MaxSent))]
        /\ slips' \in 0 .. MaxGroupFaults
    BY <1>1, <1>3, <1>4 DEF GroupTypes
  <2>5. \A r \in Members : /\ waitKeys'[r] \subseteq waitKeys[r] \cup packets
                           /\ waitMsgs'[r] \subseteq waitMsgs[r] \cup packets
    BY <1>1, <2>1
  <2> QED BY <1>1, <1>4, <2>3, <2>4, <2>5, PacketsMove
<1>5. CASE /\ joined[q] /\ Readable(known, packet) /\ UNCHANGED waitMsgs
           /\ held' = [held EXCEPT ![q] = DecryptGroupMessage(known, packet)]
           /\ StoreSenderKey(q, packet.from, packet.num + 1)
           /\ got' = [got EXCEPT ![q] = @ \cup {<<packet.from, packet.num>>}]
  BY <1>1, <1>5, ReadKeeps
<1>6. CASE /\ held' = [held EXCEPT ![q] = IF known = NoKeys THEN None ELSE known]
           /\ UNCHANGED <<saved, got, waitMsgs>>
  BY <1>1, <1>6, UnreadKeeps
<1> QED BY <1>4, <1>5, <1>6 DEF HandleChatGroupMessage


\* A member writes: its number goes up in memory and in the table, and the message has the
\* number before.
LEMMA SendKeeps ==
  ASSUME GroupInvariant, NEW q \in Members, SendGroupMessage(q)
  PROVE  GroupInvariant'
<1> DEFINE known == LoadGroupSenderKey(q)
           k == known[q]
<1> USE GroupConstants
<1>1. /\ joined[q] /\ ~creating[q] /\ k < MaxSent
      /\ held' = [held EXCEPT ![q] = [LoadGroupSenderKey(q) EXCEPT ![q] = k + 1]]
      /\ saved' = [saved EXCEPT ![q][q] = k + 1]
      /\ packets' = packets \cup {Group(q, r, k) : r \in Members \ {q}}
      /\ UNCHANGED <<joined, creating, waitKeys, waitMsgs, got, slips>>
  BY DEF SendGroupMessage, EncryptGroupMessage, persistOurSenderKeyState, StoreSenderKey
<1>2. OwnNumber /\ GroupTypes /\ Invitations
  BY DEF GroupInvariant
<1>3. /\ known \in KeyRows /\ (held[q] # None => known = held[q])
      /\ (held[q] = None => known = saved[q])
  BY LoadedKeys
<1>4. k \in 0 .. MaxSent + 1 /\ k + 1 \in 0 .. MaxSent + 1 /\ k \in 0 .. MaxSent
      /\ k # NoKey /\ k + 1 # NoKey
  <2>1. k \in 0 .. MaxSent + 1
    BY <1>3 DEF KeyRows
  <2> QED BY <1>1, <2>1 DEF NoKey
<1>5. k = saved[q][q] /\ saved[q][q] # NoKey
  <2>1. saved[q][q] # NoKey
    BY <1>1, <1>2, <1>3, <1>4 DEF OwnNumber
  <2> QED BY <1>1, <1>2, <1>3, <2>1 DEF OwnNumber, HasKey
<1>6. ~KeyFresh(q)
  BY <1>5 DEF KeyFresh
<1>7. \A x : x \in packets' <=> x \in packets \/ \E r \in Members \ {q} : x = Group(q, r, k)
  BY <1>1
<1>8. \A x \in packets' : x \in packets \/ /\ x.type = "message" /\ x.from = q /\ x.num = k
                                           /\ MessagePacket(x)
  <2> SUFFICES ASSUME NEW r \in Members \ {q}
               PROVE  /\ Group(q, r, k).type = "message" /\ Group(q, r, k).from = q
                      /\ Group(q, r, k).num = k /\ MessagePacket(Group(q, r, k))
    BY <1>7
  <2>1. k \in Nat
    BY <1>4
  <2> QED BY <1>4, <2>1, KindsApart
<1>9. GroupTypes' /\ NoGroup' /\ Invitations' /\ OwnNumber'
  <2>1. PacketTypes'
    BY <1>2, <1>8 DEF GroupTypes, PacketTypes
  <2>2. /\ got' \in [Members -> SUBSET (Members \X (0 .. MaxSent))]
        /\ slips' \in 0 .. MaxGroupFaults
    BY <1>1, <1>2 DEF GroupTypes
  <2>3. \A x \in packets' : x \in packets \/ (x.type # "create" /\ x.from = q)
    BY <1>8
  <2>4. UNCHANGED <<joined, creating, waitKeys, waitMsgs>>
    BY <1>1
  <2> HIDE DEF k, known
  <2> QED BY <1>1, <1>4, <1>5, <1>6, <2>1, <2>2, <2>3, <2>4, RowChanges
<1>10. Behind'
  <2>1. /\ \A r, p \in Members : (r # q \/ p # q) =>
                                 /\ held'[r][p] \in {held[r][p], saved[r][p]}
                                 /\ saved'[r][p] = saved[r][p]
        /\ held'[q][q] = k + 1 /\ saved'[q][q] = k + 1
    BY <1>1, <1>2, <1>3 DEF GroupTypes, KeyRows
  <2>2. \A p \in Members : HasKey(p)' => HasKey(p)
    BY <1>1, <1>5, <2>1 DEF HasKey
  <2>3. ASSUME NEW p \in Members, HasKey(p)', NEW r \in Members
        PROVE  /\ held'[r][p] \in {NoKey, MaxSent + 2} \/ held'[r][p] <= saved'[p][p]
               /\ saved'[r][p] = NoKey \/ saved'[r][p] <= saved'[p][p]
    <3>1. HasKey(p)
      BY <2>2, <2>3
    <3>2. /\ held[r][p] \in {NoKey, MaxSent + 2} \/ held[r][p] <= saved[p][p]
          /\ saved[r][p] = NoKey \/ saved[r][p] <= saved[p][p]
          /\ saved[r][p] \in Nat /\ (held[r][p] \in Nat)
      <4>1. held[r] \in KeyRows \/ held[r] = None
        BY <1>2 DEF GroupTypes
      <4> QED BY <1>2, <3>1, <4>1 DEF GroupInvariant, Behind, GroupTypes, KeyRows
    <3>3. saved[p][p] <= saved'[p][p]
      <4>1. saved[p][p] \in Nat
        BY <1>2 DEF GroupTypes, KeyRows
      <4> QED BY <1>4, <1>5, <2>1, <4>1
    <3>4. saved[p][p] \in Nat /\ saved'[p][p] \in Nat
      BY <1>2, <1>4, <2>1 DEF GroupTypes, KeyRows
    <3>5. CASE r # q \/ p # q
      BY <2>1, <3>2, <3>3, <3>4, <3>5
    <3>6. CASE r = q /\ p = q
      BY <2>1, <1>4, <3>6
    <3> QED BY <3>5, <3>6
  <2>4. ASSUME NEW p \in Members, HasKey(p)'
        PROVE  /\ \A x \in packets' : x.type = "message" /\ x.from = p => x.num < saved'[p][p]
               /\ \A r \in Members : \A x \in waitMsgs'[r] : x.from = p => x.num < saved'[p][p]
    <3>1. HasKey(p)
      BY <2>2, <2>4
    <3>2. saved[p][p] \in Nat /\ saved'[p][p] \in Nat /\ saved[p][p] <= saved'[p][p]
      <4>1. saved[p][p] \in Nat
        BY <1>2 DEF GroupTypes, KeyRows
      <4> QED BY <1>4, <1>5, <2>1, <4>1
    <3>3. \A r \in Members : \A x \in waitMsgs[r] : x.num \in Nat
      BY <1>2, KindsApart DEF GroupTypes, WaitTypes
    <3>4. \A x \in packets : x.type = "message" => x.num \in Nat
      BY <1>2, KindsApart DEF GroupTypes, PacketTypes
    <3>5. /\ \A x \in packets : x.type = "message" /\ x.from = p => x.num < saved[p][p]
          /\ \A r \in Members : \A x \in waitMsgs[r] : x.from = p => x.num < saved[p][p]
      BY <3>1 DEF GroupInvariant, Behind
    <3>6. ASSUME NEW x \in packets', x.type = "message", x.from = p PROVE x.num < saved'[p][p]
      <4>1. CASE x \in packets
        BY <3>2, <3>4, <3>5, <3>6, <4>1
      <4>2. CASE x.from = q /\ x.num = k
        BY <1>4, <2>1, <3>6, <4>2
      <4> QED BY <1>8, <4>1, <4>2
    <3>7. \A r \in Members : \A x \in waitMsgs[r] : x.from = p => x.num < saved'[p][p]
      BY <3>2, <3>3, <3>5
    <3> QED BY <1>1, <3>6, <3>7
  <2> QED BY <2>3, <2>4 DEF Behind
<1> QED BY <1>9, <1>10 DEF GroupInvariant

\* The member's own key is made, and what came early is used.
LEMMA KeysMadeKeeps ==
  ASSUME GroupInvariant, NEW q \in Members, CreateGroupSenderKeys(q)
  PROVE  GroupInvariant'
<1> USE GroupConstants
<1>1. OwnNumber /\ GroupTypes /\ Invitations /\ Behind /\ WaitTypes /\ PacketTypes
  BY DEF GroupInvariant, GroupTypes
<1>2. /\ creating[q] /\ joined[q] /\ Before(q) /\ q # Creator
      /\ UNCHANGED <<joined, got, slips>>
      /\ creating' = [creating EXCEPT ![q] = FALSE]
      /\ waitKeys' = [waitKeys EXCEPT ![q] = {}]
      /\ waitMsgs' = [waitMsgs EXCEPT ![q] = {}]
      /\ packets' = packets \cup {KeyOf(q, m, 0) : m \in Members \ {q}} \cup waitMsgs[q]
  BY <1>1 DEF CreateGroupSenderKeys, Invitations
<1>3. PICK early :
        /\ early = [m \in Members |->
                      IF m = q THEN 0
                      ELSE IF \E x \in waitKeys[q] : x.from = m
                           THEN (CHOOSE x \in waitKeys[q] : x.from = m).num ELSE NoKey]
        /\ held' = [held EXCEPT ![q] = early] /\ saved' = [saved EXCEPT ![q] = early]
  BY DEF CreateGroupSenderKeys, StoreSenderKeys
<1>4. ASSUME NEW m \in Members
      PROVE  /\ early[m] \in {0, NoKey}
             /\ early[m] = 0 => m = q \/ \E x \in waitKeys[q] : x.from = m
  <2>1. CASE m # q /\ \E x \in waitKeys[q] : x.from = m
    <3>1. (CHOOSE x \in waitKeys[q] : x.from = m) \in waitKeys[q]
      BY <2>1
    <3>2. \A x \in waitKeys[q] : x.num = 0
      BY <1>1, KindsApart DEF WaitTypes
    <3> QED BY <1>3, <2>1, <3>1, <3>2
  <2> QED BY <1>3, <2>1 DEF NoKey
<1>5. early \in KeyRows /\ early[q] = 0
  <2>1. early = [m \in Members |-> early[m]] /\ early[q] = 0
    BY <1>3
  <2>2. \A m \in Members : early[m] \in 0 .. MaxSent + 1
    BY <1>4 DEF NoKey
  <2> QED BY <2>1, <2>2 DEF KeyRows
<1>6. /\ creating' \in [Members -> BOOLEAN]
      /\ saved' \in [Members -> KeyRows] /\ held' \in [Members -> KeyRows \cup {None}]
      /\ \A p \in Members \ {q} : (creating'[p] <=> creating[p])
                                  /\ held'[p] = held[p] /\ saved'[p] = saved[p]
      /\ ~creating'[q] /\ held'[q] = early /\ saved'[q] = early
  <2>1. /\ creating \in [Members -> BOOLEAN]
        /\ saved \in [Members -> KeyRows] /\ held \in [Members -> KeyRows \cup {None}]
    BY <1>1 DEF GroupTypes
  <2>2. /\ saved' \in [Members -> KeyRows] /\ held' \in [Members -> KeyRows \cup {None}]
        /\ \A p \in Members \ {q} : held'[p] = held[p] /\ saved'[p] = saved[p]
        /\ held'[q] = early /\ saved'[q] = early
    BY <1>3, <1>5, <2>1
  <2> QED BY <1>2, <2>1, <2>2
<1>7. \A p \in Members : waitKeys'[p] \subseteq waitKeys[p] /\ waitMsgs'[p] \subseteq waitMsgs[p]
  BY <1>1, <1>2 DEF WaitTypes
<1>8. \A x \in packets' : \/ x \in packets \/ x \in waitMsgs[q]
                          \/ KeyPacket(x) /\ x.type = "key" /\ x.from = q
  <2>1. \A m \in Members \ {q} :
          KeyPacket(KeyOf(q, m, 0)) /\ KeyOf(q, m, 0).type = "key" /\ KeyOf(q, m, 0).from = q
    BY KindsApart
  <2>2. \A x \in packets' : x \in packets \/ x \in waitMsgs[q] \/ \E m \in Members \ {q} : x = KeyOf(q, m, 0)
    BY <1>2
  <2> QED BY <2>1, <2>2
<1>9. GroupTypes'
  <2>1. PacketTypes'
    BY <1>1, <1>8 DEF PacketTypes, WaitTypes
  <2>2. WaitTypes'
    BY <1>1, <1>2 DEF WaitTypes
  <2> QED BY <1>1, <1>2, <1>6, <2>1, <2>2 DEF GroupTypes
<1>10. ASSUME NEW p \in Members, p # q, KeyFresh(p) PROVE KeyFresh(p)'
  <2>1. /\ \A r \in Members : held[r][p] \in {NoKey, MaxSent + 2} /\ saved[r][p] = NoKey
        /\ \A x \in packets : x.type # "create" => x.from # p
        /\ \A r \in Members : \A x \in waitKeys[r] \cup waitMsgs[r] : x.from # p
    BY <1>10 DEF KeyFresh
  <2>2. early[p] = NoKey
    BY <1>4, <1>10, <2>1
  <2>3. \A r \in Members : held'[r][p] \in {NoKey, MaxSent + 2} /\ saved'[r][p] = NoKey
    BY <1>6, <2>1, <2>2
  <2>4. \A x \in packets' : x.type # "create" => x.from # p
    BY <1>8, <1>10, <2>1
  <2>5. \A r \in Members : \A x \in waitKeys'[r] \cup waitMsgs'[r] : x.from # p
    BY <1>7, <2>1
  <2> QED BY <2>3, <2>4, <2>5 DEF KeyFresh
<1>11. ASSUME NEW p \in Members, p # q, Before(p) PROVE Before(p)'
  BY <1>6, <1>10, <1>11 DEF Before
<1>12. NoGroup'
  <2>1. joined[Creator]
    BY <1>2 DEF GroupInvariant, NoGroup
  <2> QED BY <1>2, <2>1 DEF NoGroup
<1>13. Invitations'
  <2>1. ASSUME NEW p \in Members, Invite(p) \in packets' PROVE Invite(p) \in packets /\ p # q
    <3>1. Invite(p).type = "create" /\ \A x \in waitMsgs[q] : x.type = "message"
      BY <1>1, KindsApart DEF WaitTypes
    <3>2. Invite(p) \in packets
      BY <1>8, <2>1, <3>1
    <3> QED BY <1>1, <1>2, <3>2 DEF Invitations
  <2>2. ASSUME NEW p \in Members, Invite(p) \in packets' PROVE ~joined'[p] /\ Before(p)'
    BY <1>1, <1>2, <1>11, <2>1, <2>2 DEF Invitations
  <2>3. ASSUME NEW p \in Members, creating'[p] PROVE joined'[p] /\ Before(p)'
    BY <1>1, <1>2, <1>6, <1>11, <2>3 DEF Invitations
  <2>4. ~creating'[Creator] /\ Invite(Creator) \notin packets'
    BY <1>1, <1>2, <1>6, <2>1 DEF Invitations
  <2> QED BY <2>2, <2>3, <2>4 DEF Invitations
<1>14. OwnNumber'
  BY <1>1, <1>2, <1>5, <1>6 DEF OwnNumber, HasKey, NoKey
<1>15. Behind'
  <2>1. ASSUME NEW p \in Members, HasKey(p)'
        PROVE  /\ \A r \in Members : /\ held'[r][p] \in {NoKey, MaxSent + 2} \/ held'[r][p] <= saved'[p][p]
                                     /\ saved'[r][p] = NoKey \/ saved'[r][p] <= saved'[p][p]
               /\ \A x \in packets' : x.type = "message" /\ x.from = p => x.num < saved'[p][p]
               /\ \A r \in Members : \A x \in waitMsgs'[r] : x.from = p => x.num < saved'[p][p]
    <3>1. CASE p = q
      <4>1. /\ \A r \in Members : held[r][q] \in {NoKey, MaxSent + 2} /\ saved[r][q] = NoKey
            /\ \A x \in packets : x.type # "create" => x.from # q
            /\ \A r \in Members : \A x \in waitKeys[r] \cup waitMsgs[r] : x.from # q
        BY <1>2 DEF Before, KeyFresh
      <4>2. \A r \in Members : /\ held'[r][q] \in {NoKey, MaxSent + 2} \/ held'[r][q] = 0
                               /\ saved'[r][q] = NoKey \/ saved'[r][q] = 0
        BY <1>4, <1>6, <4>1
      <4>3. saved'[q][q] = 0
        BY <1>5, <1>6
      <4>4. \A x \in packets' : x.type = "message" => x.from # q
        BY <1>8, <4>1
      <4>5. \A r \in Members : \A x \in waitMsgs'[r] : x.from # q
        BY <1>7, <4>1
      <4> QED BY <3>1, <4>2, <4>3, <4>4, <4>5
    <3>2. CASE p # q
      <4>1. HasKey(p) /\ saved'[p] = saved[p]
        BY <1>2, <1>6, <2>1, <3>2 DEF HasKey
      <4>2. /\ \A r \in Members : /\ held[r][p] \in {NoKey, MaxSent + 2} \/ held[r][p] <= saved[p][p]
                                  /\ saved[r][p] = NoKey \/ saved[r][p] <= saved[p][p]
            /\ \A x \in packets : x.type = "message" /\ x.from = p => x.num < saved[p][p]
            /\ \A r \in Members : \A x \in waitMsgs[r] : x.from = p => x.num < saved[p][p]
        BY <1>1, <4>1 DEF Behind
      <4>3. early[p] = NoKey \/ early[p] <= saved[p][p]
        <5>1. saved[p][p] \in Nat
          BY <1>1 DEF GroupTypes, KeyRows
        <5> QED BY <1>4, <5>1
      <4>4. \A r \in Members : /\ held'[r][p] \in {NoKey, MaxSent + 2} \/ held'[r][p] <= saved'[p][p]
                               /\ saved'[r][p] = NoKey \/ saved'[r][p] <= saved'[p][p]
        BY <1>6, <4>1, <4>2, <4>3
      <4>5. \A x \in packets' : x.type = "message" /\ x.from = p => x.num < saved'[p][p]
        BY <1>8, <4>1, <4>2
      <4>6. \A r \in Members : \A x \in waitMsgs'[r] : x.from = p => x.num < saved'[p][p]
        BY <1>7, <4>1, <4>2
      <4> QED BY <4>4, <4>5, <4>6
    <3> QED BY <3>1, <3>2
  <2> QED BY <2>1 DEF Behind
<1> QED BY <1>9, <1>12, <1>13, <1>14, <1>15 DEF GroupInvariant

\* Every step of the group.
LEMMA GroupStep == GroupInvariant /\ [GroupNext]_groupVars => GroupInvariant'
<1> SUFFICES ASSUME GroupInvariant, [GroupNext]_groupVars PROVE GroupInvariant'
  OBVIOUS
<1>1. CASE UNCHANGED groupVars
  <2>1. /\ UNCHANGED <<joined, creating, held, saved>> /\ packets' = packets
        /\ waitKeys' = waitKeys /\ waitMsgs' = waitMsgs /\ got' = got /\ slips' = slips
    BY <1>1 DEF groupVars
  <2>2. WaitTypes'
    BY <2>1 DEF GroupInvariant, GroupTypes, WaitTypes
  <2>3. /\ got' \in [Members -> SUBSET (Members \X (0 .. MaxSent))]
        /\ slips' \in 0 .. MaxGroupFaults
    BY <2>1 DEF GroupInvariant, GroupTypes
  <2> QED BY <2>1, <2>2, <2>3, PacketsMove
<1>2. CASE CreateGroup
  BY <1>2, CreateKeeps
<1>3. ASSUME NEW q \in Members,
             CreateGroupSenderKeys(q) \/ SendGroupMessage(q) \/ LeaveGroup(q) \/ GroupCrash(q)
      PROVE  GroupInvariant'
  BY <1>3, KeysMadeKeeps, SendKeeps, LeaveKeeps, GroupCrashKeeps
<1>4. ASSUME NEW packet \in packets,
             \/ HandleChatGroupCreate(packet) \/ HandleChatSenderKeyDistribution(packet)
             \/ HandleChatGroupMessage(packet) \/ RepeatKey(packet)
      PROVE  GroupInvariant'
  BY <1>4, InvitationKeeps, DistributionKeeps, MessageKeeps, RepeatKeeps
<1> QED BY <1>1, <1>2, <1>3, <1>4 DEF GroupNext

\* The invariant of the group holds in every behaviour.
THEOREM GroupHolds == Spec => []GroupInvariant
<1>1. Init => GroupInvariant
  BY GroupInitially DEF Init
<1>2. GroupInvariant /\ [Next]_vars => GroupInvariant'
  <2>1. [Next]_vars => [GroupNext]_groupVars
    BY DEF Next, vars
  <2> QED BY <2>1, GroupStep
<1> QED BY <1>1, <1>2, PTL DEF Spec

\* No member's copy of a sender key is ahead of its owner, whatever the number of members,
\* of messages and of faults.
THEOREM KeysNotAhead == Spec => []KeysAreNotAhead
<1>1. GroupInvariant => KeysAreNotAhead
  <2> SUFFICES ASSUME GroupInvariant, NEW p \in Members, NEW q \in Members,
                      joined[p], ~creating[p], LoadGroupSenderKey(p)[p] # NoKey,
                      LoadGroupSenderKey(q)[p] # NoKey, LoadGroupSenderKey(q)[p] # MaxSent + 2
               PROVE  LoadGroupSenderKey(q)[p] <= LoadGroupSenderKey(p)[p]
    BY DEF KeysAreNotAhead
  <2>1. LoadGroupSenderKey(p)[p] = saved[p][p] /\ saved[p][p] # NoKey
    <3>1. saved[p][p] # NoKey
      BY LoadedKeys, GroupConstants DEF GroupInvariant, OwnNumber
    <3> QED BY <3>1, LoadedKeys DEF GroupInvariant, OwnNumber, HasKey
  <2>2. LoadGroupSenderKey(q)[p] \in {held[q][p], saved[q][p]}
    BY LoadedKeys
  <2> QED BY <2>1, <2>2 DEF GroupInvariant, Behind, HasKey
<1> QED BY <1>1, GroupHolds, PTL


-----------------------------------------------------------------------------
(* The ratchets: every ratchet of a peer counts, in memory or in the table, *)
(* because a crash may bring back the one in the table.                     *)

Chains   == Seq(SUBSET Nat)
Ratchets == [dh : Nat, remote : Nat, root : Chains, send : Chains, recv : Chains,
             sendNum : Nat, recvNum : Nat, skipped : SUBSET (Nat \X (Chains \X Nat))]

R(p) == mem[p] \cup disk[p]

\* A sending chain is not longer than the root it came from; keys are among those made.
RatchetFits(r, k) ==
  r \in Ratchets /\ r.dh <= k /\ r.remote <= k /\ Len(r.send) <= Len(r.root)

ExchangePacket(x, k) ==
  \/ x \in [to : Peers, type : {"exchange", "ack", "deferred"}, dh : Nat] /\ x.dh <= k
  \/ x \in [to : Peers, type : {"lateAck"}, dh : Nat, offered : Nat] /\ x.dh <= k /\ x.offered <= k
ChatPacket(x, k) ==
  /\ x \in [to : Peers, type : {"message"}, dh : Nat, id : Messages, num : Nat, key : Chains \X Nat]
  /\ x.dh <= k /\ x.key[2] = x.num
ConfirmPacket(x) == x \in [to : Peers, type : {"confirm"}, id : Messages]

RatchetTypes ==
  /\ keys \in 2 .. MaxKeys
  /\ mem \in [Peers -> SUBSET Ratchets] /\ disk \in [Peers -> SUBSET Ratchets]
  /\ \A p \in Peers : \A r \in R(p) : RatchetFits(r, keys)
  /\ \A p \in Peers : (\A a, b \in mem[p] : a = b) /\ (\A a, b \in disk[p] : a = b)
  /\ \A p \in Peers : mem[p] # {} => disk[p] # {}
  /\ \A x \in net : ExchangePacket(x, keys) \/ ChatPacket(x, keys) \/ ConfirmPacket(x)

IsChat(x, p) == x \in net /\ x.type = "message" /\ x.to = p

\* The key of number n in the receiving chain is still there, or still to come.
Has(q, n) == n >= q.recvNum \/ <<n, <<q.recv, n>>>> \in q.skipped

\* A public key of the sender goes with chains up to the sender's root, and in the current
\* one with numbers that are used.
SentBefore ==
  \A p \in Peers : \A r \in R(p) : \A x \in net :
    IsChat(x, Other(p)) /\ x.dh = r.dh =>
      Len(x.key[1]) <= Len(r.root) /\ (x.key[1] = r.send => x.num < r.sendNum)

\* A key is used for one message.
OneKeyEach ==
  \A p \in Peers : \A x, y \in net :
    IsChat(x, p) /\ IsChat(y, p) /\ x.dh = y.dh /\ x.key = y.key => x = y

\* What is on its way and not read can be read.
CanBeRead ==
  \A p \in Peers : \A q \in R(p) : \A x \in net :
    IsChat(x, p) /\ x.dh = q.remote /\ x.key[1] = q.recv /\ x.id \notin read => Has(q, x.num)

\* What is sent next can be read.
NextCanBeRead ==
  \A p \in Peers : \A r \in R(Other(p)), q \in R(p) : \A n \in Nat :
    q.remote = r.dh /\ q.recv = r.send /\ n >= r.sendNum => Has(q, n)

\* A key that is used up belongs to a chain the sender had.
UsedIsOld ==
  \A p \in Peers : \A r \in R(Other(p)), q \in R(p) : \A n \in Nat :
    q.remote = r.dh /\ ~Has(q, n) => Len(q.recv) <= Len(r.root)

RatchetInvariant ==
  RatchetTypes /\ SentBefore /\ OneKeyEach /\ CanBeRead /\ NextCanBeRead /\ UsedIsOld

\* The user's SendMessage: it has a message and a row from its first step to its last.
SendingTypes ==
  /\ pc \in [Peers -> {"idle", "exchange", "encrypt", "sent"}]
  /\ sending \in [Peers -> Messages \cup {NoMessage}]
  /\ attempt \in [Peers -> 0 .. MaxAttempts]
  /\ offer \in [Peers -> Nat]
  /\ \A p \in Peers : offer[p] <= keys
  /\ \A p \in Peers : pc[p] # "idle" => sending[p] \in Messages /\ disk[p] # {}

\* The rest: a message that is stored, or about to be, was read.
RowTypes ==
  /\ complete \in [Peers -> BOOLEAN] /\ conv \in [Peers -> BOOLEAN]
  /\ opened \in [Peers -> Messages \cup {NoMessage}]
  /\ \A p \in Peers : opened[p] # NoMessage => opened[p] \in read
  /\ stored \subseteq read /\ read \subseteq Messages
  /\ status \in [Messages -> {"none", "created", "sent", "delivered", "failed"}]
  /\ faults \in 0 .. MaxFaults

\* One peer, s, starts, once, with the key pair k.  One packet of the exchange is on its way
\* at a time; as long as one is, or the sender waits, its ratchet has not been completed, and
\* an answer is that of a ratchet with the chains of the exchange.
Token(x)  == x \in net /\ x.type \in {"exchange", "ack", "deferred", "lateAck"}
Open(s)   == pc[s] = "exchange" \/ \E x \in net : Token(x)
ChainsOf(a, b) == Append(Secret, {a, b})

OneExchange(s, k) ==
  /\ k <= keys
  /\ \A x, y \in net : Token(x) /\ Token(y) => x = y
  /\ \A x \in net : x.type \in {"exchange", "deferred"} => x.to = Other(s) /\ x.dh = k
  /\ \A x \in net : x.type \in {"ack", "lateAck"} => x.to = s
  /\ \A x \in net : x.type = "lateAck" => x.offered = k
  /\ pc[s] = "exchange" => offer[s] = k /\ \A x \in net : x.type \notin {"deferred", "lateAck"}
  /\ pc[Other(s)] # "exchange" /\ (conv[Other(s)] => disk[Other(s)] # {})
  /\ disk[s] = {} => \A x \in net : ~Token(x)
  /\ Open(s) => \A r \in R(s) : r.dh = k => r.root = Secret
  /\ \A x \in net : x.type \in {"ack", "lateAck"} => \A q \in R(Other(s)) :
       q.dh = x.dh => q.remote = k /\ q.send = ChainsOf(k, q.dh) /\ q.recv = ChainsOf(k, q.dh)

InStep(s) ==
  \A r \in R(s), q \in R(Other(s)) :
    r.remote = q.dh /\ q.remote = r.dh => r.send = q.recv /\ q.send = r.recv

ExchangeInvariant(s) == InStep(s) /\ \E k \in Nat : OneExchange(s, k)


\* The constants of the ratchets.
LEMMA RatchetConstants ==
  /\ Starter \in Peers /\ NoMessage \notin Messages
  /\ SenderOf \in [Messages -> Peers]
  /\ MaxAttempts \in Nat \ {0} /\ MaxKeys \in Nat /\ MaxKeys >= 2 /\ MaxFaults \in Nat
BY RatchetConstantsAssumption

\* The other peer.
LEMMA TwoPeers ==
  /\ 1 \in Peers /\ 2 \in Peers /\ Other(1) = 2 /\ Other(2) = 1
  /\ \A p \in Peers : p = 1 \/ p = 2
  /\ \A p \in Peers : Other(p) \in Peers /\ Other(Other(p)) = p /\ Other(p) # p /\ Other(p) \in 1 .. 2
  /\ \A p, q \in Peers : q = p \/ q = Other(p)
BY DEF Peers, Other

\* A root key that is mixed with another pair is longer.
LEMMA ChainGrows ==
  ASSUME NEW c \in Chains, NEW a \in Nat, NEW b \in Nat
  PROVE  Append(c, {a, b}) \in Chains /\ Len(Append(c, {a, b})) = Len(c) + 1 /\ Len(c) \in Nat
BY DEF Chains

\* The shared secret and the chain that was never set.
LEMMA FirstChains == Secret \in Chains /\ NoChain \in Chains /\ Len(NoChain) = 0 /\ Len(Secret) = 1
BY DEF Chains, Secret, NoChain

\* NewDoubleRatchet.
LEMMA NewRatchet ==
  ASSUME NEW d \in Nat, NEW key \in Nat
  PROVE  LET r == NewDoubleRatchet(d, key) IN
         /\ r \in Ratchets /\ r.dh = key /\ r.remote = d /\ r.root = Secret /\ r.send = NoChain
         /\ r.recvNum = 0 /\ Len(r.send) <= Len(r.root)
BY FirstChains DEF NewDoubleRatchet, Ratchets

\* initializeSenderChains and initializeReceiverChains.
LEMMA ChainsStart ==
  ASSUME NEW r \in Ratchets, NEW d \in Nat
  PROVE  LET i == initializeChains(r, d) IN
         /\ i \in Ratchets /\ i.dh = r.dh /\ i.remote = d
         /\ i.root = Append(r.root, {r.dh, d}) /\ i.send = i.root /\ i.recv = i.root
         /\ i.recvNum = 0 /\ i.sendNum = 0
         /\ Len(i.root) = Len(r.root) + 1 /\ Len(i.send) <= Len(i.root)
<1>1. r.root \in Chains /\ r.dh \in Nat
  BY DEF Ratchets
<1>2. Append(r.root, {r.dh, d}) \in Chains /\ Len(Append(r.root, {r.dh, d})) = Len(r.root) + 1
      /\ Len(r.root) \in Nat
  BY <1>1, ChainGrows
<1>3. PICK c : c = Append(r.root, {r.dh, d})
  OBVIOUS
<1>4. c \in Chains /\ Len(c) = Len(r.root) + 1 /\ Len(c) \in Nat
  BY <1>2, <1>3
<1>5. PICK j : j = [r EXCEPT !.remote = d, !.root = c, !.send = c, !.recv = c,
                             !.sendNum = 0, !.recvNum = 0]
  OBVIOUS
<1>6. /\ j \in Ratchets /\ j.dh = r.dh /\ j.remote = d /\ j.root = c /\ j.send = c /\ j.recv = c
      /\ j.recvNum = 0 /\ j.sendNum = 0
  BY <1>4, <1>5 DEF Ratchets
<1>7. initializeChains(r, d) = j
  BY <1>3, <1>5 DEF initializeChains
<1>8. Len(j.root) = Len(r.root) + 1 /\ Len(j.send) <= Len(j.root)
  BY <1>4, <1>6
<1> QED BY <1>3, <1>6, <1>7, <1>8

\* Encrypt.
LEMMA EncryptMoves ==
  ASSUME NEW r \in Ratchets
  PROVE  /\ Encrypt(r) \in Ratchets /\ Encrypt(r).sendNum = r.sendNum + 1
         /\ Encrypt(r).dh = r.dh /\ Encrypt(r).remote = r.remote /\ Encrypt(r).root = r.root
         /\ Encrypt(r).send = r.send /\ Encrypt(r).recv = r.recv
         /\ Encrypt(r).recvNum = r.recvNum /\ Encrypt(r).skipped = r.skipped
BY DEF Encrypt, Ratchets

\* performDHRatchet.
LEMMA DHMoves ==
  ASSUME NEW r \in Ratchets, NEW d \in Nat, NEW key \in Nat
  PROVE  LET a == performDHRatchet(r, d, key) IN
         /\ a \in Ratchets /\ a.dh = key /\ a.remote = d /\ a.recvNum = 0 /\ a.sendNum = 0
         /\ a.send = a.root /\ Len(a.send) <= Len(a.root)
<1>1. r.root \in Chains /\ r.dh \in Nat
  BY DEF Ratchets
<1>2. PICK c : c = Append(r.root, {r.dh, d})
  OBVIOUS
<1>3. c \in Chains
  BY <1>1, <1>2, ChainGrows
<1>4. PICK e : e = Append(c, {key, d})
  OBVIOUS
<1>5. e \in Chains /\ Len(e) \in Nat
  BY <1>3, <1>4, ChainGrows
<1>6. performDHRatchet(r, d, key) =
        [r EXCEPT !.remote = d, !.dh = key, !.root = e, !.recv = c, !.recvNum = 0,
                  !.send = e, !.sendNum = 0]
  BY <1>2, <1>4 DEF performDHRatchet
<1>7. PICK a : a = [r EXCEPT !.remote = d, !.dh = key, !.root = e, !.recv = c, !.recvNum = 0,
                             !.send = e, !.sendNum = 0]
  OBVIOUS
<1>8. /\ a \in Ratchets /\ a.dh = key /\ a.remote = d /\ a.recvNum = 0 /\ a.sendNum = 0
      /\ a.send = e /\ a.root = e
  BY <1>3, <1>5, <1>7 DEF Ratchets
<1> QED BY <1>5, <1>6, <1>7, <1>8

\* SkipTo: no key of the receiving chain is lost, and nothing else of the ratchet changes.
LEMMA SkipKeeps ==
  ASSUME NEW a \in Ratchets, NEW n \in Nat
  PROVE  LET b == Skip(a, n) IN
         /\ b \in Ratchets /\ b.dh = a.dh /\ b.remote = a.remote /\ b.root = a.root
         /\ b.send = a.send /\ b.recv = a.recv /\ b.sendNum = a.sendNum
         /\ b.recvNum \in Nat /\ (n >= a.recvNum => b.recvNum = n)
         /\ \A i \in Nat : Has(a, i) => Has(b, i)
<1>1. CASE n <= a.recvNum
  <2>1. Skip(a, n) = a
    BY <1>1 DEF Skip, SkipTo
  <2> QED BY <1>1, <2>1 DEF Ratchets
<1>2. CASE ~(n <= a.recvNum)
  <2>1. PICK sk : sk = {x \in a.skipped : x[1] \notin a.recvNum .. (n - 1)}
                       \cup {<<i, <<a.recv, i>>>> : i \in a.recvNum .. (n - 1)}
    OBVIOUS
  <2>2. Skip(a, n) = [a EXCEPT !.skipped = sk, !.recvNum = n]
    BY <1>2, <2>1 DEF Skip, SkipTo
  <2>3. a.recvNum \in Nat /\ a.recv \in Chains /\ a.skipped \subseteq Nat \X (Chains \X Nat)
    BY DEF Ratchets
  <2>4. sk \in SUBSET (Nat \X (Chains \X Nat))
    BY <2>1, <2>3
  <2>5. PICK b : b = [a EXCEPT !.skipped = sk, !.recvNum = n]
    OBVIOUS
  <2>6. /\ b \in Ratchets /\ b.dh = a.dh /\ b.remote = a.remote /\ b.root = a.root
        /\ b.send = a.send /\ b.recv = a.recv /\ b.sendNum = a.sendNum
        /\ b.recvNum = n /\ b.skipped = sk
    BY <2>4, <2>5 DEF Ratchets
  <2>7. ASSUME NEW i \in Nat, Has(a, i) PROVE Has(b, i)
    <3>1. CASE i >= n
      BY <2>6, <3>1 DEF Has
    <3>2. CASE i < n /\ i >= a.recvNum
      <4>1. i \in a.recvNum .. (n - 1)
        BY <2>3, <3>2
      <4> QED BY <2>1, <2>6, <4>1 DEF Has
    <3>3. CASE i < a.recvNum
      <4>1. <<i, <<a.recv, i>>>> \in a.skipped
        BY <2>3, <2>7, <3>3 DEF Has
      <4>2. <<i, <<a.recv, i>>>>[1] \notin a.recvNum .. (n - 1)
        BY <2>3, <3>3
      <4> QED BY <2>1, <2>6, <4>1, <4>2 DEF Has
    <3> QED BY <2>3, <3>1, <3>2, <3>3
  <2> QED BY <2>2, <2>5, <2>6, <2>7
<1> QED BY <1>1, <1>2


\* A packet with its number.
LEMMA ChatFields ==
  ASSUME NEW x, NEW k, ChatPacket(x, k)
  PROVE  /\ x.to \in Peers /\ x.type = "message" /\ x.dh \in Nat /\ x.dh <= k /\ x.id \in Messages
         /\ x.num \in Nat /\ x.key[1] \in Chains /\ x.key = <<x.key[1], x.num>>
BY DEF ChatPacket

\* Decrypt: the ratchet before is first moved to the packet's public key; after that only the
\* key of the packet itself is used up, and only if the packet is read.
LEMMA DecryptMoves ==
  ASSUME NEW r \in Ratchets, Len(r.send) <= Len(r.root), NEW y, NEW k, ChatPacket(y, k),
         NEW key \in Nat
  PROVE  LET d == Decrypt(r, y, key) IN
         /\ d.ok \in BOOLEAN /\ d.r \in Ratchets /\ Len(d.r.send) <= Len(d.r.root)
         /\ d.r.remote = y.dh
         /\ y.dh = r.remote =>
              /\ d.r.dh = r.dh /\ d.r.root = r.root /\ d.r.send = r.send /\ d.r.recv = r.recv
              /\ d.r.sendNum = r.sendNum
              /\ \A n \in Nat : Has(r, n) => \/ Has(d.r, n)
                                             \/ d.ok /\ y.key = <<d.r.recv, n>>
         /\ y.dh # r.remote =>
              /\ d.r.dh = key
              /\ \A n \in Nat : Has(d.r, n) \/ (d.ok /\ y.key = <<d.r.recv, n>>)
<1>1. y.dh \in Nat /\ y.num \in Nat /\ y.key[1] \in Chains /\ y.key = <<y.key[1], y.num>>
  BY ChatFields
<1>2. PICK a : a = IF y.dh # r.remote THEN performDHRatchet(r, y.dh, key) ELSE r
  OBVIOUS
<1>3. /\ a \in Ratchets /\ a.remote = y.dh /\ Len(a.send) <= Len(a.root)
      /\ y.dh = r.remote => a = r
      /\ y.dh # r.remote => a.dh = key /\ a.recvNum = 0
  BY <1>1, <1>2, DHMoves
<1>4. PICK b : b = Skip(a, y.num)
  OBVIOUS
<1>5. /\ b \in Ratchets /\ b.dh = a.dh /\ b.remote = a.remote /\ b.root = a.root
      /\ b.send = a.send /\ b.recv = a.recv /\ b.sendNum = a.sendNum
      /\ b.recvNum \in Nat /\ (y.num >= a.recvNum => b.recvNum = y.num)
      /\ \A i \in Nat : Has(a, i) => Has(b, i)
  BY <1>1, <1>3, <1>4, SkipKeeps
<1>6. \A n \in Nat : y.dh # r.remote => Has(a, n)
  BY <1>3 DEF Has
<1>7. SUFFICES LET d == Decrypt(r, y, key) IN
                /\ d.ok \in BOOLEAN /\ d.r \in Ratchets
                /\ d.r.dh = a.dh /\ d.r.remote = a.remote /\ d.r.root = a.root
                /\ d.r.send = a.send /\ d.r.recv = a.recv /\ d.r.sendNum = a.sendNum
                /\ \A n \in Nat : Has(a, n) => Has(d.r, n) \/ (d.ok /\ y.key = <<d.r.recv, n>>)
  BY <1>3, <1>6
<1>8. CASE y.num < a.recvNum
  <2>6. (<<y.num, y.key>> \in a.skipped) \in BOOLEAN
    OBVIOUS
  <2>1. PICK ok \in BOOLEAN : ok = (<<y.num, y.key>> \in a.skipped)
    BY ONLY <2>6, Zenon
  <2>2. PICK c : c = [a EXCEPT !.skipped = a.skipped \ {<<y.num, y.key>>}]
    OBVIOUS
  <2>3. Decrypt(r, y, key) = [ok |-> ok, r |-> c]
    BY <1>2, <1>4, <1>8, <2>1, <2>2 DEF Decrypt
  <2>4. /\ c \in Ratchets /\ c.dh = a.dh /\ c.remote = a.remote /\ c.root = a.root
        /\ c.send = a.send /\ c.recv = a.recv /\ c.sendNum = a.sendNum
        /\ c.recvNum = a.recvNum /\ c.skipped = a.skipped \ {<<y.num, y.key>>}
    BY <1>3, <2>2 DEF Ratchets
  <2>5. ASSUME NEW n \in Nat, Has(a, n), ~Has(c, n) PROVE ok /\ y.key = <<c.recv, n>>
    <3>1. <<n, <<a.recv, n>>>> \in a.skipped /\ <<n, <<a.recv, n>>>> \notin c.skipped
      BY <2>4, <2>5 DEF Has
    <3>2. <<n, <<a.recv, n>>>> = <<y.num, y.key>>
      BY <2>4, <3>1
    <3> QED BY <2>1, <2>4, <3>1, <3>2
  <2> QED BY <2>3, <2>4, <2>5
<1>9. CASE ~(y.num < a.recvNum)
  <2>6. (y.key = <<b.recv, b.recvNum>>) \in BOOLEAN
    OBVIOUS
  <2>1. PICK ok \in BOOLEAN : ok = (y.key = <<b.recv, b.recvNum>>)
    BY ONLY <2>6, Zenon
  <2>2. PICK c : c = IF ok THEN [b EXCEPT !.recvNum = @ + 1] ELSE b
    OBVIOUS
  <2>3. Decrypt(r, y, key) = [ok |-> ok, r |-> c]
    BY <1>2, <1>4, <1>9, <2>1, <2>2 DEF Decrypt
  <2>4. /\ c \in Ratchets /\ c.dh = a.dh /\ c.remote = a.remote /\ c.root = a.root
        /\ c.send = a.send /\ c.recv = a.recv /\ c.sendNum = a.sendNum
        /\ c.recvNum = (IF ok THEN b.recvNum + 1 ELSE b.recvNum) /\ c.skipped = b.skipped
    BY <1>5, <2>2, SMTT(30) DEF Ratchets
  <2>5. ASSUME NEW n \in Nat, Has(b, n), ~Has(c, n) PROVE ok /\ y.key = <<c.recv, n>>
    <3>1. c.recv = b.recv
      BY <1>5, <2>4
    <3>2. n >= b.recvNum /\ n < c.recvNum
      BY <1>5, <2>4, <2>5, <3>1 DEF Has
    <3>3. ok /\ n = b.recvNum
      BY <1>5, <2>4, <3>2
    <3> QED BY <2>1, <3>1, <3>3
  <2> QED BY <1>5, <2>3, <2>4, <2>5
<1> QED BY <1>8, <1>9


\* What a step may do to the sending side of a ratchet of p: a new key pair; or the same key
\* pair with the chain and its numbers kept, or with a chain longer than the root was.
SendSide(p, r) ==
  \/ r.dh > keys
  \/ \E o \in R(p) : /\ r.dh = o.dh /\ Len(o.root) <= Len(r.root)
                     /\ (r.send = o.send /\ r.sendNum >= o.sendNum) \/ Len(r.send) > Len(o.root)

\* The key of number n is used for a message that is gone or read after the step.
UsedUp(p, r, n) ==
  \E y \in net : /\ y.type = "message" /\ y.to = p /\ y.dh = r.remote /\ y.key = <<r.recv, n>>
                 /\ y \notin net' \/ y.id \in read'

\* What a step may do to the receiving side: begin a chain, or use up keys of messages.
RecvSide(p, r) ==
  \/ \A n \in Nat : Has(r, n) \/ UsedUp(p, r, n)
  \/ \E o \in R(p) : /\ r.remote = o.remote /\ r.recv = o.recv
                     /\ \A n \in Nat : Has(o, n) => Has(r, n) \/ UsedUp(p, r, n)

\* A ratchet of a peer, and a message on its way.
LEMMA Fields ==
  ASSUME RatchetTypes
  PROVE  /\ keys \in Nat /\ keys >= 2
         /\ \A p \in Peers : \A r \in R(p) :
              /\ r \in Ratchets /\ r.dh \in Nat /\ r.remote \in Nat /\ r.dh <= keys /\ r.remote <= keys
              /\ r.root \in Chains /\ r.send \in Chains /\ r.recv \in Chains
              /\ Len(r.root) \in Nat /\ Len(r.send) \in Nat /\ Len(r.recv) \in Nat
              /\ Len(r.send) <= Len(r.root)
              /\ r.sendNum \in Nat /\ r.recvNum \in Nat
         /\ \A x \in net : x.type = "message" =>
              /\ ChatPacket(x, keys) /\ x.to \in Peers /\ x.dh \in Nat /\ x.dh <= keys
              /\ x.id \in Messages /\ x.num \in Nat /\ x.key[1] \in Chains
              /\ Len(x.key[1]) \in Nat /\ x.key = <<x.key[1], x.num>>
<1>1. keys \in Nat /\ keys >= 2
  BY RatchetConstants DEF RatchetTypes
<1>2. \A c \in Chains : Len(c) \in Nat
  BY DEF Chains
<1>3. ASSUME NEW p \in Peers, NEW r \in R(p)
      PROVE  /\ r \in Ratchets /\ r.dh \in Nat /\ r.remote \in Nat /\ r.dh <= keys /\ r.remote <= keys
             /\ r.root \in Chains /\ r.send \in Chains /\ r.recv \in Chains
             /\ Len(r.send) <= Len(r.root)
             /\ r.sendNum \in Nat /\ r.recvNum \in Nat
  <2>1. RatchetFits(r, keys)
    BY DEF RatchetTypes
  <2> QED BY <2>1 DEF RatchetFits, Ratchets
<1>4. ASSUME NEW x \in net, x.type = "message" PROVE ChatPacket(x, keys)
  BY <1>4 DEF RatchetTypes, ExchangePacket, ConfirmPacket
<1>5. ASSUME NEW x \in net, x.type = "message"
      PROVE  /\ ChatPacket(x, keys) /\ x.to \in Peers /\ x.dh \in Nat /\ x.dh <= keys
             /\ x.id \in Messages /\ x.num \in Nat /\ x.key[1] \in Chains
             /\ Len(x.key[1]) \in Nat /\ x.key = <<x.key[1], x.num>>
  BY <1>2, <1>4, <1>5, ChatFields
<1> QED BY <1>1, <1>2, <1>3, <1>5

\* The ratchets of one peer move, and no message is written.
LEMMA RatchetsMove ==
  ASSUME RatchetInvariant, NEW p \in Peers, RatchetTypes', read \subseteq read',
         \A x \in net' : x.type = "message" => x \in net,
         \A r \in R(Other(p))' : r \in R(Other(p)),
         \A r \in R(p)' : SendSide(p, r) /\ RecvSide(p, r)
  PROVE  RatchetInvariant'
<1> DEFINE o == Other(p)
<1>1. o \in Peers /\ Other(o) = p /\ o # p /\ \A q \in Peers : q = p \/ q = o
  BY TwoPeers
<1>2. RatchetTypes /\ SentBefore /\ OneKeyEach /\ CanBeRead /\ NextCanBeRead /\ UsedIsOld
  BY DEF RatchetInvariant
<1> HIDE DEF o
<1>3. \A r \in R(o)' : r \in R(o)
  BY DEF o
<1>4. /\ \A r \in R(o), x \in net : x.type = "message" /\ x.to = p /\ x.dh = r.dh =>
           Len(x.key[1]) <= Len(r.root) /\ (x.key[1] = r.send => x.num < r.sendNum)
      /\ \A r \in R(p), x \in net : x.type = "message" /\ x.to = o /\ x.dh = r.dh =>
           Len(x.key[1]) <= Len(r.root) /\ (x.key[1] = r.send => x.num < r.sendNum)
  BY <1>1, <1>2 DEF SentBefore, IsChat, o
<1>5. /\ \A r \in R(o), q \in R(p) : \A n \in Nat :
           q.remote = r.dh => /\ q.recv = r.send /\ n >= r.sendNum => Has(q, n)
                              /\ ~Has(q, n) => Len(q.recv) <= Len(r.root)
      /\ \A r \in R(p), q \in R(o) : \A n \in Nat :
           q.remote = r.dh => /\ q.recv = r.send /\ n >= r.sendNum => Has(q, n)
                              /\ ~Has(q, n) => Len(q.recv) <= Len(r.root)
  BY <1>1, <1>2 DEF NextCanBeRead, UsedIsOld, o
<1>6. keys \in Nat /\ keys >= 2
      /\ (\A r \in R(p) \cup R(o) : r.dh <= keys /\ r.remote <= keys /\ r.dh \in Nat /\ r.remote \in Nat
             /\ Len(r.root) \in Nat /\ Len(r.send) \in Nat /\ Len(r.recv) \in Nat
             /\ Len(r.send) <= Len(r.root) /\ r.sendNum \in Nat)
      /\ (\A x \in net : x.type = "message" => x.dh \in Nat /\ x.dh <= keys /\ x.num \in Nat
             /\ Len(x.key[1]) \in Nat /\ x.key = <<x.key[1], x.num>>)
  BY <1>1, <1>2, Fields
<1>7. \A r \in R(p)' : /\ r.dh \in Nat /\ Len(r.root) \in Nat /\ Len(r.send) \in Nat
                       /\ r.sendNum \in Nat /\ Len(r.recv) \in Nat
  <2>1. \A r \in R(p)' : RatchetFits(r, keys')
    BY DEF RatchetTypes
  <2>2. \A c \in Chains : Len(c) \in Nat
    BY DEF Chains
  <2> QED BY <2>1, <2>2 DEF RatchetFits, Ratchets
<1>8. ASSUME NEW r \in R(p)', NEW x \in net, x.type = "message", x.to = o, x.dh = r.dh
      PROVE  Len(x.key[1]) <= Len(r.root) /\ (x.key[1] = r.send => x.num < r.sendNum)
  <2>1. ~(r.dh > keys)
    BY <1>6, <1>8
  <2>2. PICK a \in R(p) : /\ r.dh = a.dh /\ Len(a.root) <= Len(r.root)
                          /\ (r.send = a.send /\ r.sendNum >= a.sendNum) \/ Len(r.send) > Len(a.root)
    BY <2>1 DEF SendSide
  <2>3. Len(x.key[1]) <= Len(a.root) /\ (x.key[1] = a.send => x.num < a.sendNum)
    BY <1>4, <1>8, <2>2
  <2>4. Len(x.key[1]) \in Nat /\ Len(a.root) \in Nat /\ x.num \in Nat /\ a.sendNum \in Nat
    BY <1>6, <1>8
  <2> QED BY <1>7, <2>2, <2>3, <2>4, SMTT(30)
<1>9. SentBefore'
  <2> SUFFICES ASSUME NEW q \in Peers, NEW r \in R(q)', NEW x \in net', x.type = "message",
                      x.to = Other(q), x.dh = r.dh
               PROVE  Len(x.key[1]) <= Len(r.root) /\ (x.key[1] = r.send => x.num < r.sendNum)
    BY DEF SentBefore, IsChat
  <2>1. CASE q = p
    BY <1>8, <2>1 DEF o
  <2>2. CASE q = o
    BY <1>1, <1>3, <1>4, <2>2
  <2> QED BY <1>1, <2>1, <2>2
<1>10. OneKeyEach'
  BY <1>2 DEF OneKeyEach, IsChat
<1>11. ASSUME NEW q \in R(p)', NEW n \in Nat, ~Has(q, n), UsedUp(p, q, n)
       PROVE  \A r \in R(o) : q.remote = r.dh =>
                Len(q.recv) <= Len(r.root) /\ (q.recv = r.send => n < r.sendNum)
  <2>1. PICK y \in net : /\ y.type = "message" /\ y.to = p /\ y.dh = q.remote
                         /\ y.key = <<q.recv, n>>
    BY <1>11 DEF UsedUp
  <2>2. y.key[1] = q.recv /\ y.num = n
    <3>1. <<y.key[1], y.num>> = <<q.recv, n>>
      BY <1>6, <2>1
    <3> QED BY <3>1
  <2> QED BY <1>4, <2>1, <2>2
<1>12. ASSUME NEW q \in R(p)', NEW r \in R(o), NEW n \in Nat, q.remote = r.dh
       PROVE  /\ q.recv = r.send /\ n >= r.sendNum => Has(q, n)
              /\ ~Has(q, n) => Len(q.recv) <= Len(r.root)
  <2>1. SUFFICES ASSUME ~Has(q, n), ~UsedUp(p, q, n)
                 PROVE  ~(q.recv = r.send /\ n >= r.sendNum) /\ Len(q.recv) <= Len(r.root)
    <3>1. r.sendNum \in Nat
      BY <1>6
    <3> QED BY <1>11, <1>12, <3>1
  <2>2. PICK a \in R(p) : /\ q.remote = a.remote /\ q.recv = a.recv
                          /\ \A i \in Nat : Has(a, i) => Has(q, i) \/ UsedUp(p, q, i)
    BY <2>1 DEF RecvSide
  <2>3. ~Has(a, n)
    BY <2>1, <2>2
  <2> QED BY <1>5, <1>12, <2>2, <2>3
<1>13. ASSUME NEW q \in R(o), NEW r \in R(p)', NEW n \in Nat, q.remote = r.dh
       PROVE  /\ q.recv = r.send /\ n >= r.sendNum => Has(q, n)
              /\ ~Has(q, n) => Len(q.recv) <= Len(r.root)
  <2>1. ~(r.dh > keys)
    BY <1>6, <1>13
  <2>2. PICK a \in R(p) : /\ r.dh = a.dh /\ Len(a.root) <= Len(r.root)
                          /\ (r.send = a.send /\ r.sendNum >= a.sendNum) \/ Len(r.send) > Len(a.root)
    BY <2>1 DEF SendSide
  <2>3. /\ q.recv = a.send /\ n >= a.sendNum => Has(q, n)
        /\ ~Has(q, n) => Len(q.recv) <= Len(a.root)
    BY <1>5, <1>13, <2>2
  <2>4. /\ Len(q.recv) \in Nat /\ Len(a.root) \in Nat /\ a.sendNum \in Nat
        /\ Len(r.root) \in Nat /\ r.sendNum \in Nat /\ Len(r.send) \in Nat
    BY <1>6, <1>7
  <2>5. ~Has(q, n) => Len(q.recv) <= Len(r.root)
    BY <2>2, <2>3, <2>4
  <2>6. CASE r.send = a.send /\ r.sendNum >= a.sendNum
    BY <2>3, <2>4, <2>5, <2>6
  <2>7. CASE Len(r.send) > Len(a.root)
    BY <2>3, <2>4, <2>5, <2>7
  <2> QED BY <2>2, <2>6, <2>7
<1>14. NextCanBeRead' /\ UsedIsOld'
  <2>1. \A q \in R(p)', r \in R(Other(p))', n \in Nat : q.remote = r.dh =>
              /\ q.recv = r.send /\ n >= r.sendNum => Has(q, n)
              /\ ~Has(q, n) => Len(q.recv) <= Len(r.root)
    BY <1>3, <1>12 DEF o
  <2>2. \A q \in R(o)', r \in R(Other(o))', n \in Nat : q.remote = r.dh =>
              /\ q.recv = r.send /\ n >= r.sendNum => Has(q, n)
              /\ ~Has(q, n) => Len(q.recv) <= Len(r.root)
    BY <1>1, <1>3, <1>13
  <2>3. ASSUME NEW s \in Peers
        PROVE  \A r \in R(Other(s))', q \in R(s)' : \A n \in Nat : q.remote = r.dh =>
                 /\ q.recv = r.send /\ n >= r.sendNum => Has(q, n)
                 /\ ~Has(q, n) => Len(q.recv) <= Len(r.root)
    BY <1>1, <2>1, <2>2
  <2>4. NextCanBeRead'
    BY <2>3 DEF NextCanBeRead
  <2>5. UsedIsOld'
    BY <2>3 DEF UsedIsOld
  <2> QED BY <2>4, <2>5
<1>15. CanBeRead'
  <2> SUFFICES ASSUME NEW s \in Peers, NEW q \in R(s)', NEW x \in net', x.type = "message", x.to = s,
                      x.dh = q.remote, x.key[1] = q.recv, x.id \notin read'
               PROVE  Has(q, x.num)
    BY DEF CanBeRead, IsChat
  <2>1. x \in net /\ x.id \notin read /\ x.num \in Nat /\ x.key = <<x.key[1], x.num>>
    BY <1>6
  <2>2. CASE s = o
    BY <1>1, <1>2, <1>3, <2>1, <2>2 DEF CanBeRead, IsChat
  <2>3. CASE s = p
    <3>1. ~UsedUp(p, q, x.num)
      <4> SUFFICES ASSUME NEW y \in net, y.type = "message", y.to = p, y.dh = q.remote,
                          y.key = <<q.recv, x.num>>, y \notin net' \/ y.id \in read'
                   PROVE  FALSE
        BY DEF UsedUp
      <4>1. y = x
        BY <1>2, <2>1, <2>3 DEF OneKeyEach, IsChat
      <4> QED BY <4>1
    <3>2. CASE \A n \in Nat : Has(q, n) \/ UsedUp(p, q, n)
      BY <2>1, <3>1, <3>2
    <3>3. CASE \E a \in R(p) : /\ q.remote = a.remote /\ q.recv = a.recv
                               /\ \A n \in Nat : Has(a, n) => Has(q, n) \/ UsedUp(p, q, n)
      <4>1. PICK a \in R(p) : /\ q.remote = a.remote /\ q.recv = a.recv
                              /\ \A n \in Nat : Has(a, n) => Has(q, n) \/ UsedUp(p, q, n)
        BY <3>3
      <4>2. Has(a, x.num)
        BY <1>2, <2>1, <2>3, <4>1 DEF CanBeRead, IsChat
      <4> QED BY <2>1, <3>1, <4>1, <4>2
    <3> QED BY <2>3, <3>2, <3>3 DEF RecvSide
  <2> QED BY <1>1, <2>2, <2>3
<1> QED BY <1>9, <1>10, <1>14, <1>15 DEF RatchetInvariant


NetTypes(k) == \A x \in net : ExchangePacket(x, k) \/ ChatPacket(x, k) \/ ConfirmPacket(x)

\* More key pairs do not harm a packet or a ratchet.
LEMMA MoreKeys ==
  ASSUME NEW k \in Nat, NEW j \in Nat, k <= j
  PROVE  /\ \A r : RatchetFits(r, k) => RatchetFits(r, j)
         /\ \A x : ExchangePacket(x, k) => ExchangePacket(x, j)
         /\ \A x : ChatPacket(x, k) => ChatPacket(x, j)
<1>1. \A r : RatchetFits(r, k) => RatchetFits(r, j)
  BY DEF RatchetFits, Ratchets
<1>2. \A x : ExchangePacket(x, k) => ExchangePacket(x, j)
  BY DEF ExchangePacket
<1>3. \A x : ChatPacket(x, k) => ChatPacket(x, j)
  BY DEF ChatPacket
<1> QED BY <1>1, <1>2, <1>3

\* One peer's ratchets are replaced.
LEMMA RatchetsReplaced ==
  ASSUME RatchetTypes, NEW p \in Peers, NEW M, NEW D,
         mem' = [mem EXCEPT ![p] = M], disk' = [disk EXCEPT ![p] = D],
         keys' \in {keys, keys + 1}, keys' <= MaxKeys,
         \A r \in M \cup D : RatchetFits(r, keys'),
         \A a, b \in M : a = b, \A a, b \in D : a = b, M # {} => D # {},
         NetTypes(keys)'
  PROVE  RatchetTypes' /\ R(p)' = M \cup D /\ R(Other(p))' = R(Other(p))
<1>1. keys \in Nat /\ keys >= 2 /\ keys' \in Nat /\ keys <= keys' /\ keys' \in 2 .. MaxKeys
  BY Fields, RatchetConstants
<1>2. /\ mem'[p] = M /\ disk'[p] = D
      /\ \A q \in Peers : q # p => mem'[q] = mem[q] /\ disk'[q] = disk[q]
      /\ mem' \in [Peers -> SUBSET Ratchets] /\ disk' \in [Peers -> SUBSET Ratchets]
  <2>1. M \in SUBSET Ratchets /\ D \in SUBSET Ratchets
    BY DEF RatchetFits
  <2>2. mem \in [Peers -> SUBSET Ratchets] /\ disk \in [Peers -> SUBSET Ratchets]
    BY DEF RatchetTypes
  <2> HIDE DEF RatchetTypes
  <2> QED BY ONLY <2>1, <2>2, p \in Peers, mem' = [mem EXCEPT ![p] = M], disk' = [disk EXCEPT ![p] = D]
<1>3. R(p)' = M \cup D /\ R(Other(p))' = R(Other(p))
  BY <1>2, TwoPeers DEF R
<1>4. ASSUME NEW q \in Peers, NEW r \in R(q)' PROVE RatchetFits(r, keys')
  <2>1. CASE q = p
    BY <1>3, <2>1
  <2>2. CASE q # p
    BY <1>1, <1>2, <2>2, MoreKeys DEF RatchetTypes, R
  <2> QED BY <2>1, <2>2
<1>5. /\ \A q \in Peers : (\A a, b \in mem'[q] : a = b) /\ (\A a, b \in disk'[q] : a = b)
      /\ \A q \in Peers : mem'[q] # {} => disk'[q] # {}
  BY <1>2 DEF RatchetTypes
<1>6. RatchetTypes'
  BY <1>1, <1>2, <1>4, <1>5 DEF RatchetTypes, NetTypes
<1> QED BY <1>3, <1>6

\* A ratchet that was there.
LEMMA OldSides ==
  ASSUME RatchetTypes, NEW p \in Peers, NEW r \in R(p)
  PROVE  SendSide(p, r) /\ RecvSide(p, r)
BY Fields DEF SendSide, RecvSide

\* A ratchet with a new key pair that has received nothing.
LEMMA FreshSides ==
  ASSUME RatchetTypes, NEW p \in Peers, NEW r, r.dh = keys + 1, r.recvNum = 0
  PROVE  SendSide(p, r) /\ RecvSide(p, r)
BY Fields DEF SendSide, RecvSide, Has

\* A ratchet that was completed.
LEMMA CompleteSides ==
  ASSUME RatchetTypes, NEW p \in Peers, NEW a \in R(p), NEW d \in Nat
  PROVE  /\ SendSide(p, initializeChains(a, d)) /\ RecvSide(p, initializeChains(a, d))
         /\ d <= keys => RatchetFits(initializeChains(a, d), keys)
<1>1. a \in Ratchets /\ Len(a.root) \in Nat /\ a.dh <= keys
  BY Fields
<1>2. PICK i : i = initializeChains(a, d)
  OBVIOUS
<1>3. /\ i \in Ratchets /\ i.dh = a.dh /\ i.remote = d /\ i.send = i.root
      /\ i.recvNum = 0 /\ Len(i.root) = Len(a.root) + 1 /\ Len(i.send) <= Len(i.root)
  BY <1>1, <1>2, ChainsStart
<1>4. SendSide(p, i)
  BY <1>1, <1>3 DEF SendSide
<1>5. RecvSide(p, i)
  BY <1>3 DEF RecvSide, Has
<1>6. d <= keys => RatchetFits(i, keys)
  BY <1>1, <1>3 DEF RatchetFits
<1> QED BY <1>2, <1>4, <1>5, <1>6

\* A ratchet that has tried a message.
LEMMA DecryptSides ==
  ASSUME RatchetTypes, NEW p \in Peers, NEW a \in R(p), NEW y \in net, y.type = "message", y.to = p,
         NEW d, d = Decrypt1on1Message(a, y), d.ok => y \notin net' \/ y.id \in read'
  PROVE  /\ SendSide(p, d.r) /\ RecvSide(p, d.r) /\ d.ok \in BOOLEAN
         /\ RatchetFits(d.r, IF y.dh # a.remote THEN keys + 1 ELSE keys)
         /\ y.dh = a.remote => d.r.dh = a.dh /\ d.r.remote = a.remote /\ d.r.send = a.send
                                /\ d.r.recv = a.recv /\ d.r.root = a.root
         /\ y.dh # a.remote => d.r.dh = keys + 1
<1>1. /\ a \in Ratchets /\ Len(a.send) <= Len(a.root) /\ Len(a.root) \in Nat /\ a.sendNum \in Nat
      /\ ChatPacket(y, keys) /\ y.dh <= keys /\ y.dh \in Nat /\ keys \in Nat /\ keys + 1 \in Nat
      /\ a.dh <= keys /\ a.dh \in Nat
  BY Fields
<1>2. d = Decrypt(a, y, keys + 1)
  BY DEF Decrypt1on1Message, NewKey
<1>3. /\ d.ok \in BOOLEAN /\ d.r \in Ratchets /\ Len(d.r.send) <= Len(d.r.root)
      /\ d.r.remote = y.dh
      /\ y.dh = a.remote =>
              /\ d.r.dh = a.dh /\ d.r.root = a.root /\ d.r.send = a.send /\ d.r.recv = a.recv
              /\ d.r.sendNum = a.sendNum
              /\ \A n \in Nat : Has(a, n) => \/ Has(d.r, n)
                                             \/ d.ok /\ y.key = <<d.r.recv, n>>
      /\ y.dh # a.remote =>
              /\ d.r.dh = keys + 1
              /\ \A n \in Nat : Has(d.r, n) \/ (d.ok /\ y.key = <<d.r.recv, n>>)
  BY <1>1, <1>2, DecryptMoves, SMTT(30)
<1>4. \A n \in Nat : d.ok /\ y.key = <<d.r.recv, n>> => UsedUp(p, d.r, n)
  BY <1>3 DEF UsedUp
<1>5. SendSide(p, d.r)
  BY <1>1, <1>3 DEF SendSide
<1>6. RecvSide(p, d.r)
  BY <1>3, <1>4 DEF RecvSide
<1>7. RatchetFits(d.r, IF y.dh # a.remote THEN keys + 1 ELSE keys)
  BY <1>1, <1>3 DEF RatchetFits
<1> QED BY <1>3, <1>5, <1>6, <1>7


\* The ratchets rest; packets other than messages come and go, and messages go.
LEMMA RatchetsRest ==
  ASSUME RatchetInvariant, UNCHANGED <<mem, disk, keys>>, read \subseteq read', NetTypes(keys)',
         \A x \in net' : x.type = "message" => x \in net
  PROVE  RatchetInvariant'
<1>1. RatchetTypes /\ RatchetTypes' /\ \A p \in Peers : R(p)' = R(p)
  BY DEF RatchetInvariant, RatchetTypes, NetTypes, R
<1>2. \A r \in R(1)' : SendSide(1, r) /\ RecvSide(1, r)
  BY <1>1, OldSides, TwoPeers
<1> QED BY <1>1, <1>2, RatchetsMove, TwoPeers

\* The packets that there were are packets of more key pairs.
LEMMA NetGrows ==
  ASSUME RatchetTypes, keys' \in {keys, keys + 1},
         \A x \in net' : x \in net \/ ExchangePacket(x, keys') \/ ChatPacket(x, keys') \/ ConfirmPacket(x)
  PROVE  NetTypes(keys)' /\ keys \in Nat
<1>1. keys \in Nat /\ keys' \in Nat /\ keys <= keys'
  BY Fields
<1> QED BY <1>1, MoreKeys DEF NetTypes, RatchetTypes

\* Packets of the exchange and confirmations.
LEMMA PacketKinds ==
  ASSUME NEW p \in Peers, NEW a \in Nat, NEW b \in Nat, NEW k \in Nat
  PROVE  /\ \A t \in {"exchange", "ack"} :
              /\ Exchange(p, t, a).type = t /\ Exchange(p, t, a).to = Other(p) /\ Exchange(p, t, a).dh = a
              /\ a <= k => ExchangePacket(Exchange(p, t, a), k)
         /\ Deferred(p, a).type = "deferred" /\ Deferred(p, a).to = Other(p) /\ Deferred(p, a).dh = a
         /\ a <= k => ExchangePacket(Deferred(p, a), k)
         /\ LateAck(p, a, b).type = "lateAck" /\ LateAck(p, a, b).to = Other(p)
         /\ LateAck(p, a, b).dh = a /\ LateAck(p, a, b).offered = b
         /\ a <= k /\ b <= k => ExchangePacket(LateAck(p, a, b), k)
BY TwoPeers DEF Exchange, Deferred, LateAck, ExchangePacket

\* The packets of an exchange that are on their way.
LEMMA ExchangeFields ==
  ASSUME RatchetTypes
  PROVE  \A x \in net : x.type \in {"exchange", "ack", "deferred", "lateAck"} =>
           /\ x.to \in Peers /\ x.dh \in Nat /\ x.dh <= keys
           /\ x.type = "lateAck" => x.offered \in Nat /\ x.offered <= keys
BY DEF RatchetTypes, ExchangePacket, ChatPacket, ConfirmPacket

\* A new ratchet waits for the answer.
LEMMA InitiateFits ==
  ASSUME RatchetInvariant, NEW p \in Peers, NEW m \in Messages, InitiateKeyExchange(p, m)
  PROVE  /\ RatchetInvariant' /\ keys' = keys + 1 /\ R(Other(p))' = R(Other(p))
         /\ R(p)' = {NewDoubleRatchet(Other(p), keys + 1)}
<1> DEFINE r == NewDoubleRatchet(Other(p), keys + 1)
<1>1. RatchetTypes /\ keys \in Nat /\ keys >= 2 /\ keys + 1 \in Nat
  BY Fields DEF RatchetInvariant
<1>2. Other(p) \in Nat /\ Other(p) <= keys + 1
  BY <1>1, TwoPeers
<1>3. /\ r \in Ratchets /\ r.dh = keys + 1 /\ r.remote = Other(p) /\ r.recvNum = 0
      /\ Len(r.send) <= Len(r.root)
  BY <1>1, <1>2, NewRatchet
<1> HIDE DEF r
<1>4. /\ keys' = keys + 1 /\ keys + 1 <= MaxKeys
      /\ mem' = [mem EXCEPT ![p] = {r}] /\ mem'[p] = {r} /\ disk' = [disk EXCEPT ![p] = {r}]
      /\ read' = read /\ net' = net \cup {Exchange(p, "exchange", keys + 1)}
  <2>1. keys' = keys + 1 /\ keys + 1 <= MaxKeys /\ mem' = [mem EXCEPT ![p] = {r}]
    BY <1>1, RatchetConstants DEF InitiateKeyExchange, NewKey, r
  <2>2. mem'[p] = {r}
    BY <1>1, <2>1 DEF RatchetTypes
  <2> QED BY <2>1, <2>2 DEF InitiateKeyExchange, NewKey, StoreRatchetState
<1>5. RatchetFits(r, keys')
  BY <1>1, <1>2, <1>3, <1>4 DEF RatchetFits
<1>6. NetTypes(keys)' /\ \A x \in net' : x.type = "message" => x \in net
  BY <1>1, <1>4, NetGrows, PacketKinds
<1>7. RatchetTypes' /\ R(p)' = {r} \cup {r} /\ R(Other(p))' = R(Other(p))
  <2>1. PICK M : M = {r}
    OBVIOUS
  <2>2. (\A x \in M \cup M : RatchetFits(x, keys')) /\ (\A c, b \in M : c = b) /\ M # {}
    BY <1>5, <2>1
  <2>3. /\ keys' \in {keys, keys + 1} /\ keys' <= MaxKeys
        /\ mem' = [mem EXCEPT ![p] = M] /\ disk' = [disk EXCEPT ![p] = M]
    BY <1>4, <2>1
  <2>4. RatchetTypes' /\ R(p)' = M \cup M /\ R(Other(p))' = R(Other(p))
    BY ONLY <1>1, <1>2, <1>6, <2>2, <2>3, RatchetsReplaced, p \in Peers
  <2> QED BY <2>1, <2>4
<1>8. SendSide(p, r) /\ RecvSide(p, r)
  BY <1>1, <1>3, FreshSides
<1>9. RatchetInvariant'
  BY <1>4, <1>6, <1>7, <1>8, RatchetsMove
<1> QED BY <1>4, <1>7, <1>9 DEF r

\* An exchange is accepted.
LEMMA AcceptFits ==
  ASSUME RatchetInvariant, NEW packet \in net, HandleChatKeyExchange(packet)
  PROVE  /\ RatchetInvariant' /\ keys' = keys + 1 /\ packet.to \in Peers
         /\ R(Other(packet.to))' = R(Other(packet.to))
         /\ R(packet.to)' = {initializeChains(NewDoubleRatchet(packet.dh, keys + 1), packet.dh)}
<1> DEFINE p == packet.to
           a == NewDoubleRatchet(packet.dh, keys + 1)
           r == initializeChains(a, packet.dh)
<1>1. RatchetTypes /\ keys \in Nat /\ keys >= 2 /\ keys + 1 \in Nat
  BY Fields DEF RatchetInvariant
<1>2. p \in Peers /\ packet.dh \in Nat /\ packet.dh <= keys
  BY <1>1, ExchangeFields DEF HandleChatKeyExchange
<1>3. a \in Ratchets /\ a.dh = keys + 1
  BY <1>1, <1>2, NewRatchet
<1>4. /\ r \in Ratchets /\ r.dh = keys + 1 /\ r.remote = packet.dh /\ r.recvNum = 0
      /\ Len(r.send) <= Len(r.root)
  BY <1>2, <1>3, ChainsStart
<1>5. /\ keys' = keys + 1 /\ keys + 1 <= MaxKeys
      /\ mem' = [mem EXCEPT ![p] = {r}] /\ disk' = [disk EXCEPT ![p] = {r}]
      /\ read' = read
      /\ \A x \in net' : x \in net \/ x = Exchange(p, "ack", keys + 1) \/ x = LateAck(p, keys + 1, packet.dh)
  BY <1>1, RatchetConstants
     DEF HandleChatKeyExchange, NewKey, AcceptKeyExchange, saveRatchetStateComplete, StoreRatchetState
<1> HIDE DEF r, a, p
<1>6. RatchetFits(r, keys')
  BY <1>1, <1>2, <1>4, <1>5 DEF RatchetFits
<1>7. NetTypes(keys)' /\ \A x \in net' : x.type = "message" => x \in net
  <2>1. /\ ExchangePacket(Exchange(p, "ack", keys + 1), keys')
        /\ ExchangePacket(LateAck(p, keys + 1, packet.dh), keys')
        /\ Exchange(p, "ack", keys + 1).type # "message"
        /\ LateAck(p, keys + 1, packet.dh).type # "message"
    BY <1>1, <1>2, <1>5, PacketKinds
  <2> QED BY <1>1, <1>5, <2>1, NetGrows
<1>8. RatchetTypes' /\ R(p)' = {r} \cup {r} /\ R(Other(p))' = R(Other(p))
  <2>1. PICK M : M = {r}
    OBVIOUS
  <2>2. (\A x \in M \cup M : RatchetFits(x, keys')) /\ (\A c, b \in M : c = b) /\ M # {}
    BY <1>6, <2>1
  <2>3. /\ keys' \in {keys, keys + 1} /\ keys' <= MaxKeys
        /\ mem' = [mem EXCEPT ![p] = M] /\ disk' = [disk EXCEPT ![p] = M]
    BY <1>5, <2>1
  <2>4. RatchetTypes' /\ R(p)' = M \cup M /\ R(Other(p))' = R(Other(p))
    BY ONLY <1>1, <1>2, <1>7, <2>2, <2>3, RatchetsReplaced
  <2> QED BY <2>1, <2>4
<1>9. SendSide(p, r) /\ RecvSide(p, r)
  BY <1>1, <1>2, <1>4, FreshSides
<1>10. RatchetInvariant'
  BY <1>2, <1>5, <1>7, <1>8, <1>9, RatchetsMove
<1> QED BY <1>2, <1>5, <1>8, <1>10 DEF r, p, a

\* An answer completes the ratchet in memory, and the table gets the same one.
LEMMA CompleteFits ==
  ASSUME RatchetInvariant, NEW packet \in net, packet.type \in {"ack", "lateAck"},
         mem' = [mem EXCEPT ![packet.to] = CompleteKeyExchange(packet.to, packet.dh)],
         disk' = [disk EXCEPT ![packet.to] =
                    IF mem[packet.to] = {} THEN disk[packet.to] ELSE mem'[packet.to]],
         net' = net \ {packet}, UNCHANGED <<keys, read>>
  PROVE  /\ RatchetInvariant' /\ packet.to \in Peers
         /\ R(Other(packet.to))' = R(Other(packet.to))
         /\ \A r \in R(packet.to)' :
              \/ mem[packet.to] = {} /\ r \in R(packet.to)
              \/ \E a \in R(packet.to) : r = initializeChains(a, packet.dh)
         /\ disk'[packet.to] = {} => disk[packet.to] = {}
<1> DEFINE p == packet.to
           M == CompleteKeyExchange(p, packet.dh)
           D == IF mem[p] = {} THEN disk[p] ELSE M
<1>1. RatchetTypes /\ keys \in Nat /\ keys >= 2 /\ keys <= MaxKeys
  BY Fields, RatchetConstants DEF RatchetInvariant, RatchetTypes
<1>2. p \in Peers /\ packet.dh \in Nat /\ packet.dh <= keys
  BY <1>1, ExchangeFields
<1>3. \A r \in M : \E a \in mem[p] : r = initializeChains(a, packet.dh)
  BY DEF CompleteKeyExchange
<1>4. mem' = [mem EXCEPT ![p] = M] /\ mem'[p] = M /\ disk' = [disk EXCEPT ![p] = D] /\ disk'[p] = D
  <2>1. mem' = [mem EXCEPT ![p] = M] /\ mem'[p] = M
    BY <1>1, <1>2 DEF RatchetTypes
  <2>2. disk' = [disk EXCEPT ![p] = D]
    BY <2>1
  <2> QED BY <1>1, <1>2, <2>1, <2>2 DEF RatchetTypes
<1>5. /\ \A a, b \in mem[p] : a = b
      /\ \A a, b \in disk[p] : a = b
      /\ mem[p] # {} => disk[p] # {}
  BY <1>1, <1>2 DEF RatchetTypes
<1>6. (\A a, b \in M : a = b) /\ (M = {} <=> mem[p] = {})
  BY <1>5 DEF CompleteKeyExchange
<1> HIDE DEF M
<1>7. (\A a, b \in D : a = b) /\ (M # {} => D # {}) /\ (D = {} => disk[p] = {})
  BY <1>5, <1>6
<1>8. \A r \in M \cup D : \/ mem[p] = {} /\ r \in R(p)
                          \/ \E a \in R(p) : r = initializeChains(a, packet.dh)
  BY <1>3, <1>6 DEF R
<1> HIDE DEF D, p
<1>9. \A r \in M \cup D : RatchetFits(r, keys') /\ SendSide(p, r) /\ RecvSide(p, r)
  <2> SUFFICES ASSUME NEW r \in M \cup D
               PROVE  RatchetFits(r, keys) /\ SendSide(p, r) /\ RecvSide(p, r)
    OBVIOUS
  <2>1. CASE r \in R(p)
    BY <1>1, <1>2, <2>1, OldSides DEF RatchetTypes
  <2>2. CASE \E a \in R(p) : r = initializeChains(a, packet.dh)
    BY <1>1, <1>2, <2>2, CompleteSides
  <2> QED BY <1>8, <2>1, <2>2
<1>10. NetTypes(keys)' /\ \A x \in net' : x.type = "message" => x \in net
  BY <1>1, NetGrows
<1>11. RatchetTypes' /\ R(p)' = M \cup D /\ R(Other(p))' = R(Other(p))
  <2>1. \A r \in M \cup D : RatchetFits(r, keys')
    BY <1>9
  <2>2. keys' \in {keys, keys + 1} /\ keys' <= MaxKeys
    BY <1>1
  <2> QED BY ONLY <1>1, <1>2, <1>4, <1>6, <1>7, <1>10, <2>1, <2>2, RatchetsReplaced
<1>12. RatchetInvariant'
  BY <1>2, <1>9, <1>10, <1>11, RatchetsMove
<1> QED BY <1>2, <1>4, <1>7, <1>8, <1>11, <1>12 DEF p


\* What is loaded is one of the peer's ratchets.
LEMMA Loaded ==
  ASSUME NEW p
  PROVE  /\ loadRatchetState(p) \subseteq R(p) /\ (loadRatchetState(p) = {} <=> R(p) = {})
         /\ mem[p] # {} => loadRatchetState(p) = mem[p]
BY DEF loadRatchetState, R

\* A message is encrypted with the next key of the chain and put on its way.
LEMMA SendFits ==
  ASSUME RatchetInvariant, NEW p \in Peers, NEW m \in Messages, NEW r \in loadRatchetState(p),
         mem' = [mem EXCEPT ![p] = {Encrypt(r)}],
         disk' = [disk EXCEPT ![p] = mem'[p]],
         net' = net \cup {Chat(p, m, r.dh, r.sendNum, <<r.send, r.sendNum>>)},
         UNCHANGED <<keys, read>>
  PROVE  /\ RatchetInvariant' /\ R(Other(p))' = R(Other(p)) /\ R(p)' = {Encrypt(r)}
<1> DEFINE o == Other(p)
           x == Chat(p, m, r.dh, r.sendNum, <<r.send, r.sendNum>>)
           e == Encrypt(r)
<1>1. o \in Peers /\ Other(o) = p /\ o # p /\ \A q \in Peers : q = p \/ q = o
  BY TwoPeers
<1>2. RatchetTypes /\ SentBefore /\ OneKeyEach /\ CanBeRead /\ NextCanBeRead /\ UsedIsOld
      /\ r \in R(p)
  BY Loaded DEF RatchetInvariant
<1>3. /\ keys \in Nat /\ keys <= MaxKeys
      /\ r \in Ratchets /\ r.dh \in Nat /\ r.remote \in Nat /\ r.dh <= keys /\ r.remote <= keys
      /\ r.send \in Chains /\ Len(r.send) <= Len(r.root) /\ r.sendNum \in Nat
  BY <1>2, Fields, RatchetConstants DEF RatchetTypes
<1>4. /\ e \in Ratchets /\ e.sendNum = r.sendNum + 1 /\ e.dh = r.dh /\ e.remote = r.remote
      /\ e.root = r.root /\ e.send = r.send /\ e.recv = r.recv
      /\ e.recvNum = r.recvNum /\ e.skipped = r.skipped
  BY <1>3, EncryptMoves
<1>5. /\ x.type = "message" /\ x.to = o /\ x.dh = r.dh /\ x.num = r.sendNum /\ x.key = <<r.send, r.sendNum>>
      /\ x.key[1] = r.send /\ x.id = m /\ ChatPacket(x, keys)
  BY <1>1, <1>3 DEF Chat, ChatPacket
<1>6. \A n \in Nat : Has(e, n) <=> Has(r, n)
  BY <1>4 DEF Has
<1>7. /\ mem' = [mem EXCEPT ![p] = {e}] /\ disk' = [disk EXCEPT ![p] = {e}] /\ net' = net \cup {x}
  BY <1>2 DEF RatchetTypes
<1> HIDE DEF e, x, o
<1>8. RatchetTypes' /\ R(p)' = {e} /\ R(Other(p))' = R(Other(p))
  <2>1. PICK M : M = {e}
    OBVIOUS
  <2>2. (\A a \in M \cup M : RatchetFits(a, keys')) /\ (\A c, b \in M : c = b) /\ M # {}
    BY <1>3, <1>4, <2>1 DEF RatchetFits
  <2>3. /\ keys' \in {keys, keys + 1} /\ keys' <= MaxKeys
        /\ mem' = [mem EXCEPT ![p] = M] /\ disk' = [disk EXCEPT ![p] = M]
    BY <1>3, <1>7, <2>1
  <2>4. NetTypes(keys)'
    BY <1>2, <1>5, <1>7, NetGrows
  <2>5. RatchetTypes' /\ R(p)' = M \cup M /\ R(Other(p))' = R(Other(p))
    BY ONLY <1>2, <2>2, <2>3, <2>4, RatchetsReplaced, p \in Peers
  <2> QED BY <2>1, <2>5
<1>9. R(o)' = R(o) /\ R(p)' = {e}
  BY <1>8 DEF o
<1>10. \A y \in net : y.type = "message" /\ y.to = o /\ y.dh = r.dh =>
         /\ Len(y.key[1]) <= Len(r.root) /\ (y.key[1] = r.send => y.num < r.sendNum)
         /\ y.num \in Nat /\ y.key = <<y.key[1], y.num>>
  BY <1>2, Fields DEF SentBefore, IsChat, o
<1>11. SentBefore'
  <2> SUFFICES ASSUME NEW q \in Peers, NEW a \in R(q)', NEW y \in net', y.type = "message",
                      y.to = Other(q), y.dh = a.dh
               PROVE  Len(y.key[1]) <= Len(a.root) /\ (y.key[1] = a.send => y.num < a.sendNum)
    BY DEF SentBefore, IsChat
  <2>1. CASE q = o
    <3>1. y \in net
      BY <1>1, <1>5, <1>7, <2>1
    <3> QED BY <1>1, <1>2, <1>9, <2>1, <3>1 DEF SentBefore, IsChat
  <2>2. CASE q = p
    <3>1. a = e /\ y.to = o
      BY <1>9, <2>2 DEF o
    <3>2. CASE y \in net
      BY <1>3, <1>4, <1>10, <3>1, <3>2
    <3>3. CASE y = x
      BY <1>3, <1>4, <1>5, <3>1, <3>3
    <3> QED BY <1>7, <3>2, <3>3
  <2> QED BY <1>1, <2>1, <2>2
<1>12. OneKeyEach'
  <2>1. ASSUME NEW y \in net, y.type = "message", y.to = o, y.dh = x.dh, y.key = x.key PROVE FALSE
    <3>1. y.key = <<y.key[1], y.num>> /\ (y.key[1] = r.send => y.num < r.sendNum) /\ y.num \in Nat
      BY <1>5, <1>10, <2>1
    <3>2. <<y.key[1], y.num>> = <<r.send, r.sendNum>>
      BY <1>5, <2>1, <3>1
    <3> QED BY <1>3, <3>1, <3>2
  <2> SUFFICES ASSUME NEW q \in Peers, NEW y \in net', NEW z \in net', y.type = "message",
                      z.type = "message", y.to = q, z.to = q, y.dh = z.dh, y.key = z.key
               PROVE  y = z
    BY DEF OneKeyEach, IsChat
  <2>2. CASE y \in net /\ z \in net
    BY <1>2, <2>2 DEF OneKeyEach, IsChat
  <2> QED BY <1>5, <1>7, <2>1, <2>2
<1>13. CanBeRead'
  <2> SUFFICES ASSUME NEW s \in Peers, NEW q \in R(s)', NEW y \in net', y.type = "message", y.to = s,
                      y.dh = q.remote, y.key[1] = q.recv, y.id \notin read
               PROVE  Has(q, y.num)
    BY DEF CanBeRead, IsChat
  <2>1. CASE s = p
    <3>1. q = e /\ y \in net
      BY <1>1, <1>5, <1>7, <1>9, <2>1
    <3>2. Has(r, y.num) /\ y.num \in Nat
      BY <1>2, <1>4, <2>1, <3>1, Fields DEF CanBeRead, IsChat
    <3> QED BY <1>6, <3>1, <3>2
  <2>2. CASE s = o /\ y \in net
    BY <1>1, <1>2, <1>9, <2>2 DEF CanBeRead, IsChat
  <2>3. CASE s = o /\ y = x
    BY <1>1, <1>2, <1>3, <1>5, <1>9, <2>3 DEF NextCanBeRead, o
  <2> QED BY <1>1, <1>7, <2>1, <2>2, <2>3
<1>14. NextCanBeRead' /\ UsedIsOld'
  <2>1. ASSUME NEW q \in R(p)', NEW a \in R(o)', NEW n \in Nat, q.remote = a.dh
        PROVE  /\ q.recv = a.send /\ n >= a.sendNum => Has(q, n)
               /\ ~Has(q, n) => Len(q.recv) <= Len(a.root)
    BY <1>1, <1>2, <1>4, <1>6, <1>9, <2>1 DEF NextCanBeRead, UsedIsOld, o
  <2>2. ASSUME NEW q \in R(o)', NEW a \in R(p)', NEW n \in Nat, q.remote = a.dh
        PROVE  /\ q.recv = a.send /\ n >= a.sendNum => Has(q, n)
               /\ ~Has(q, n) => Len(q.recv) <= Len(a.root)
    <3>1. a = e /\ q \in R(o) /\ q.remote = r.dh
      BY <1>4, <1>9, <2>2
    <3>2. /\ q.recv = r.send /\ n >= r.sendNum => Has(q, n)
          /\ ~Has(q, n) => Len(q.recv) <= Len(r.root)
      BY <1>1, <1>2, <3>1 DEF NextCanBeRead, UsedIsOld
    <3> QED BY <1>3, <1>4, <3>1, <3>2
  <2>3. ASSUME NEW s \in Peers
        PROVE  \A a \in R(Other(s))', q \in R(s)' : \A n \in Nat : q.remote = a.dh =>
                 /\ q.recv = a.send /\ n >= a.sendNum => Has(q, n)
                 /\ ~Has(q, n) => Len(q.recv) <= Len(a.root)
    BY <1>1, <2>1, <2>2 DEF o
  <2>4. NextCanBeRead'
    BY <2>3 DEF NextCanBeRead
  <2>5. UsedIsOld'
    BY <2>3 DEF UsedIsOld
  <2> QED BY <2>4, <2>5
<1> QED BY <1>8, <1>11, <1>12, <1>13, <1>14 DEF RatchetInvariant, e

\* A message is tried: the ratchet in memory moves; the table follows if it was read.
LEMMA ReceiveFits ==
  ASSUME RatchetInvariant, NEW y \in net, y.type = "message", NEW r \in loadRatchetState(y.to),
         NEW d, d = Decrypt1on1Message(r, y),
         y.dh # r.remote => keys < MaxKeys,
         keys' = IF y.dh # r.remote THEN keys + 1 ELSE keys,
         mem' = [mem EXCEPT ![y.to] = {d.r}],
         \/ disk' = [disk EXCEPT ![y.to] = {d.r}] /\ y.id \in read'
         \/ ~d.ok /\ disk' = disk,
         read \subseteq read', net' \subseteq net
  PROVE  /\ RatchetInvariant' /\ y.to \in Peers /\ R(Other(y.to))' = R(Other(y.to))
         /\ \A a \in R(y.to)' : a \in R(y.to) \/ a = d.r
         /\ disk'[y.to] # {}
<1> DEFINE p == y.to
<1>1. RatchetTypes /\ keys \in Nat /\ keys >= 2 /\ keys <= MaxKeys /\ p \in Peers
  BY Fields, RatchetConstants DEF RatchetInvariant, RatchetTypes
<1>2. r \in R(p)
  BY Loaded
<1>3. d.ok => y \notin net' \/ y.id \in read'
  OBVIOUS
<1>4. SendSide(p, d.r) /\ RecvSide(p, d.r) /\ RatchetFits(d.r, keys')
  BY <1>1, <1>2, <1>3, DecryptSides
<1>5. keys' \in {keys, keys + 1} /\ keys' <= MaxKeys /\ keys' \in Nat /\ keys <= keys'
  BY <1>1, RatchetConstants
<1>6. NetTypes(keys)'
  BY <1>1, <1>5, NetGrows
<1>7. PICK D : disk' = [disk EXCEPT ![p] = D] /\ (D = {d.r} \/ D = disk[p])
  BY <1>1 DEF RatchetTypes
<1>8. /\ \A a, b \in disk[p] : a = b
      /\ disk[p] # {}
      /\ \A a \in disk[p] : RatchetFits(a, keys')
  <2>1. /\ \A a, b \in disk[p] : a = b
        /\ disk[p] # {}
    BY <1>1, <1>2 DEF RatchetTypes, R
  <2>2. \A a \in disk[p] : RatchetFits(a, keys)
    BY <1>1 DEF RatchetTypes, R
  <2> QED BY <1>1, <1>5, <2>1, <2>2, MoreKeys
<1>9. (\A a, b \in D : a = b) /\ D # {} /\ \A a \in D : a = d.r \/ a \in disk[p]
  BY <1>7, <1>8
<1> HIDE DEF p
<1>10. RatchetTypes' /\ R(p)' = {d.r} \cup D /\ R(Other(p))' = R(Other(p))
  <2>1. PICK M : M = {d.r}
    OBVIOUS
  <2>2. (\A a \in M \cup D : RatchetFits(a, keys')) /\ (\A c, b \in M : c = b)
    BY <1>4, <1>8, <1>9, <2>1
  <2>3. mem' = [mem EXCEPT ![p] = M]
    BY <2>1 DEF p
  <2>4. RatchetTypes' /\ R(p)' = M \cup D /\ R(Other(p))' = R(Other(p))
    BY ONLY <1>1, <1>5, <1>6, <1>7, <1>9, <2>2, <2>3, RatchetsReplaced
  <2> QED BY <2>1, <2>4
<1>11. \A a \in R(p)' : a \in R(p) \/ a = d.r
  BY <1>9, <1>10 DEF R
<1>12. \A a \in R(p)' : SendSide(p, a) /\ RecvSide(p, a)
  <2>1. \A a \in R(p) : SendSide(p, a) /\ RecvSide(p, a)
    BY <1>1, OldSides
  <2> QED BY <1>4, <1>11, <2>1
<1>13. RatchetInvariant'
  BY <1>1, <1>10, <1>12, RatchetsMove
<1>14. disk'[p] # {}
  BY <1>1, <1>7, <1>9 DEF RatchetTypes
<1> QED BY <1>1, <1>10, <1>11, <1>13, <1>14 DEF p

\* A crash.
LEMMA CrashFits ==
  ASSUME RatchetInvariant, NEW p \in Peers, Crash(p)
  PROVE  /\ RatchetInvariant' /\ R(Other(p))' = R(Other(p)) /\ R(p)' \subseteq R(p)
<1>1. RatchetTypes /\ keys \in Nat /\ keys >= 2 /\ keys <= MaxKeys
  BY Fields, RatchetConstants DEF RatchetInvariant, RatchetTypes
<1>2. /\ mem' = [mem EXCEPT ![p] = {}] /\ disk' = [disk EXCEPT ![p] = disk[p]]
      /\ keys' = keys /\ read' = read
  BY <1>1 DEF Crash, RatchetTypes
<1>3. \A x \in net' : x \in net \/ (x.type = "deferred" /\ ExchangePacket(x, keys))
  <2>1. \A x \in net' : x \in net \/ \E y \in net : y.type = "lateAck" /\ x = Deferred(p, y.offered)
    BY DEF Crash
  <2>2. \A y \in net : y.type = "lateAck" => y.offered \in Nat /\ y.offered <= keys
    BY <1>1, ExchangeFields
  <2> QED BY <1>1, <2>1, <2>2, PacketKinds
<1>4. NetTypes(keys)' /\ \A x \in net' : x.type = "message" => x \in net
  BY <1>1, <1>2, <1>3, NetGrows
<1>5. RatchetTypes' /\ R(p)' = {} \cup disk[p] /\ R(Other(p))' = R(Other(p))
  <2>1. PICK M, D : M = {} /\ D = disk[p]
    OBVIOUS
  <2>2. /\ \A a \in M \cup D : RatchetFits(a, keys')
        /\ \A a, b \in D : a = b
        /\ \A a, b \in M : a = b
        /\ M = {}
        /\ keys' \in {keys, keys + 1} /\ keys' <= MaxKeys
    BY <1>1, <1>2, <2>1 DEF RatchetTypes, R
  <2>3. mem' = [mem EXCEPT ![p] = M] /\ disk' = [disk EXCEPT ![p] = D]
    BY <1>2, <2>1
  <2>4. RatchetTypes' /\ R(p)' = M \cup D /\ R(Other(p))' = R(Other(p))
    BY ONLY <1>1, <1>4, <2>2, <2>3, RatchetsReplaced, p \in Peers
  <2> QED BY <2>1, <2>4
<1>6. \A a \in R(p)' : SendSide(p, a) /\ RecvSide(p, a) /\ a \in R(p)
  BY <1>1, <1>5, OldSides DEF R
<1> QED BY <1>2, <1>4, <1>5, <1>6, RatchetsMove


\* What every step keeps: key pairs are not unmade, messages not unread, rows not dropped.
Grows ==
  /\ keys \in Nat /\ keys' \in Nat /\ keys <= keys' /\ read \subseteq read'
  /\ \A q \in Peers : disk[q] # {} => disk'[q] # {}

\* SendMessage rests.
LEMMA SendingRests ==
  ASSUME SendingTypes, Grows, UNCHANGED <<pc, sending, attempt, offer>>
  PROVE  SendingTypes'
<1>1. \A p \in Peers : offer[p] \in Nat /\ offer[p] <= keys
  BY DEF SendingTypes
<1>2. \A p \in Peers : offer'[p] <= keys'
  BY <1>1 DEF Grows
<1> QED BY <1>2 DEF SendingTypes, Grows

\* SendMessage ends.
LEMMA SendingEnds ==
  ASSUME SendingTypes, Grows, NEW p \in Peers,
         pc' = [pc EXCEPT ![p] = "idle"],
         sending' = [sending EXCEPT ![p] = NoMessage],
         attempt' = [attempt EXCEPT ![p] = 0],
         offer' = [offer EXCEPT ![p] = 0]
  PROVE  SendingTypes'
<1>1. \A q \in Peers : offer[q] \in Nat /\ offer[q] <= keys
  BY DEF SendingTypes
<1>2. \A q \in Peers : offer'[q] <= keys'
  BY <1>1 DEF Grows, SendingTypes
<1>3. 0 \in 0 .. MaxAttempts
  BY RatchetConstants
<1>4. /\ pc' \in [Peers -> {"idle", "exchange", "encrypt", "sent"}]
      /\ sending' \in [Peers -> Messages \cup {NoMessage}]
      /\ attempt' \in [Peers -> 0 .. MaxAttempts]
      /\ offer' \in [Peers -> Nat]
  BY <1>3 DEF SendingTypes
<1>5. \A q \in Peers : pc'[q] # "idle" => sending'[q] \in Messages /\ disk'[q] # {}
  BY DEF SendingTypes, Grows
<1> QED BY <1>2, <1>4, <1>5 DEF SendingTypes

\* The next step of SendMessage, with a message and a row.
LEMMA SendingGoesOn ==
  ASSUME SendingTypes, Grows, NEW p \in Peers, NEW s \in {"exchange", "encrypt", "sent"},
         pc' = [pc EXCEPT ![p] = s], sending' \in [Peers -> Messages \cup {NoMessage}],
         sending'[p] \in Messages, disk'[p] # {},
         \A q \in Peers : q # p => sending'[q] = sending[q],
         attempt' \in [Peers -> 0 .. MaxAttempts], offer' \in [Peers -> Nat],
         \A q \in Peers : offer'[q] <= keys'
  PROVE  SendingTypes'
<1>1. pc' \in [Peers -> {"idle", "exchange", "encrypt", "sent"}]
  BY DEF SendingTypes
<1>2. \A q \in Peers : pc'[q] # "idle" => sending'[q] \in Messages /\ disk'[q] # {}
  BY DEF SendingTypes, Grows
<1> QED BY <1>1, <1>2 DEF SendingTypes

\* The offers that there were.
LEMMA OffersStay ==
  ASSUME SendingTypes, Grows, offer' = offer
  PROVE  offer' \in [Peers -> Nat] /\ \A q \in Peers : offer'[q] <= keys'
BY DEF SendingTypes, Grows

\* The rows rest.
LEMMA RowsRest ==
  ASSUME RowTypes, UNCHANGED <<conv, opened, read, stored, status>>,
         complete' \in [Peers -> BOOLEAN], faults' \in 0 .. MaxFaults
  PROVE  RowTypes'
BY DEF RowTypes

UserInvariant == SendingTypes /\ RowTypes

\* A fault.
LEMMA FaultCounts == RowTypes /\ Fault => faults' \in 0 .. MaxFaults
BY RatchetConstants DEF RowTypes, Fault

\* InitiateKeyExchange.
LEMMA InitiateStep ==
  ASSUME RatchetInvariant, UserInvariant, NEW p \in Peers, NEW m \in Messages,
         InitiateKeyExchange(p, m)
  PROVE  RatchetInvariant' /\ UserInvariant' /\ Grows
<1>1. RatchetInvariant' /\ keys' = keys + 1 /\ keys \in Nat /\ R(p)' # {} /\ R(Other(p))' = R(Other(p))
  BY InitiateFits, Fields DEF RatchetInvariant
<1>2. /\ disk' = [disk EXCEPT ![p] = mem'[p]] /\ disk[p] = {}
      /\ pc' = [pc EXCEPT ![p] = "exchange"]
      /\ sending' = [sending EXCEPT ![p] = m]
      /\ attempt' = [attempt EXCEPT ![p] = 1]
      /\ offer' = [offer EXCEPT ![p] = keys + 1]
      /\ UNCHANGED <<complete, conv, opened, read, stored, status, faults>>
  BY DEF InitiateKeyExchange, StoreRatchetState, NewKey
<1>3. SendingTypes /\ RowTypes /\ disk \in [Peers -> SUBSET Ratchets]
  BY DEF UserInvariant, RatchetInvariant, RatchetTypes
<1>4. disk'[p] # {} /\ Grows
  <2>1. disk'[p] # {}
    BY <1>1, <1>2, <1>3 DEF R
  <2> QED BY <1>1, <1>2, <1>3, <2>1 DEF Grows
<1>5. 1 \in 0 .. MaxAttempts
  BY RatchetConstants
<1>6. /\ sending' \in [Peers -> Messages \cup {NoMessage}] /\ sending'[p] \in Messages
      /\ \A q \in Peers : q # p => sending'[q] = sending[q]
      /\ attempt' \in [Peers -> 0 .. MaxAttempts] /\ offer' \in [Peers -> Nat]
      /\ \A q \in Peers : offer'[q] <= keys'
  <2>1. \A q \in Peers : offer[q] \in Nat /\ offer[q] <= keys
    BY <1>3 DEF SendingTypes
  <2>2. \A q \in Peers : offer'[q] <= keys'
    BY <1>1, <1>2, <1>3, <2>1 DEF SendingTypes
  <2> QED BY <1>1, <1>2, <1>3, <1>5, <2>2 DEF SendingTypes
<1>7. SendingTypes'
  BY <1>2, <1>3, <1>4, <1>6, SendingGoesOn
<1>8. RowTypes'
  BY <1>2, <1>3, RowsRest DEF RowTypes
<1> QED BY <1>1, <1>4, <1>7, <1>8 DEF UserInvariant

\* SendMessage of a conversation that has a row.
LEMMA StartStep ==
  ASSUME RatchetInvariant, UserInvariant, NEW p \in Peers, NEW m \in Messages, SendMessage(p, m)
  PROVE  RatchetInvariant' /\ UserInvariant' /\ Grows
<1>1. /\ disk[p] # {} /\ pc' = [pc EXCEPT ![p] = "encrypt"] /\ sending' = [sending EXCEPT ![p] = m]
      /\ UNCHANGED <<mem, disk, complete, conv, keys, net, attempt, offer, opened, read, stored, status, faults>>
  BY DEF SendMessage, ratchets
<1>2. SendingTypes /\ RowTypes /\ RatchetTypes
  BY DEF UserInvariant, RatchetInvariant
<1>3. Grows
  BY <1>1, <1>2, Fields DEF Grows
<1>4. NetTypes(keys)'
  BY <1>1, <1>2, NetGrows
<1>5. RatchetInvariant'
  BY <1>1, <1>4, RatchetsRest
<1>6. /\ sending' \in [Peers -> Messages \cup {NoMessage}] /\ sending'[p] \in Messages
      /\ \A q \in Peers : q # p => sending'[q] = sending[q]
      /\ attempt' \in [Peers -> 0 .. MaxAttempts]
  BY <1>1, <1>2 DEF SendingTypes
<1>7. SendingTypes'
  BY <1>1, <1>2, <1>3, <1>6, OffersStay, SendingGoesOn
<1>8. RowTypes'
  BY <1>1, <1>2, RowsRest DEF RowTypes
<1> QED BY <1>3, <1>5, <1>7, <1>8 DEF UserInvariant

\* Packets go, or one of an exchange comes.
LEMMA ExchangePacketsMove ==
  ASSUME RatchetInvariant, UNCHANGED <<mem, disk, keys, read>>,
         \A x \in net' : x \in net \/ ((ExchangePacket(x, keys) \/ ConfirmPacket(x)) /\ x.type # "message")
  PROVE  RatchetInvariant' /\ Grows
<1>1. RatchetTypes /\ keys \in Nat
  BY Fields DEF RatchetInvariant
<1>2. NetTypes(keys)'
  BY <1>1, NetGrows
<1> QED BY <1>1, <1>2, RatchetsRest DEF Grows

\* sendKeyExchangeWithRetry.
LEMMA RetryStep ==
  ASSUME RatchetInvariant, UserInvariant, NEW p \in Peers, sendKeyExchangeWithRetry(p)
  PROVE  RatchetInvariant' /\ UserInvariant' /\ Grows
<1>1. /\ pc[p] = "exchange" /\ Fault
      /\ UNCHANGED <<mem, disk, complete, conv, keys, opened, read, stored, status>>
      /\ \A x \in net' : x \in net \/ x = Exchange(p, "exchange", offer[p])
      /\ \/ /\ attempt[p] < MaxAttempts /\ attempt' = [attempt EXCEPT ![p] = @ + 1]
            /\ UNCHANGED <<pc, sending, offer>>
         \/ /\ attempt' = [attempt EXCEPT ![p] = 0] /\ offer' = [offer EXCEPT ![p] = 0]
            /\ pc' = [pc EXCEPT ![p] = "idle"] /\ sending' = [sending EXCEPT ![p] = NoMessage]
  BY DEF sendKeyExchangeWithRetry, ratchets
<1>2. SendingTypes /\ RowTypes /\ offer[p] \in Nat /\ offer[p] <= keys /\ keys \in Nat
  BY Fields DEF UserInvariant, SendingTypes, RatchetInvariant
<1>3. RatchetInvariant' /\ Grows
  <2>1. /\ ExchangePacket(Exchange(p, "exchange", offer[p]), keys)
        /\ Exchange(p, "exchange", offer[p]).type # "message"
    BY <1>2, PacketKinds
  <2> QED BY <1>1, <2>1, ExchangePacketsMove
<1>4. SendingTypes'
  <2>1. CASE /\ attempt[p] < MaxAttempts /\ attempt' = [attempt EXCEPT ![p] = @ + 1]
             /\ UNCHANGED <<pc, sending, offer>>
    <3>1. attempt[p] + 1 \in 0 .. MaxAttempts
      BY <1>2, <2>1, RatchetConstants DEF SendingTypes
    <3>2. attempt' \in [Peers -> 0 .. MaxAttempts]
      BY <1>2, <2>1, <3>1 DEF SendingTypes
    <3> QED BY <1>2, <1>3, <2>1, <3>2, OffersStay DEF SendingTypes, Grows
  <2>2. CASE /\ attempt' = [attempt EXCEPT ![p] = 0] /\ offer' = [offer EXCEPT ![p] = 0]
             /\ pc' = [pc EXCEPT ![p] = "idle"] /\ sending' = [sending EXCEPT ![p] = NoMessage]
    BY <1>2, <1>3, <2>2, SendingEnds
  <2> QED BY <1>1, <2>1, <2>2
<1>5. RowTypes'
  BY <1>1, <1>2, RowsRest, FaultCounts DEF RowTypes
<1> QED BY <1>3, <1>4, <1>5 DEF UserInvariant


\* StoreExchange.
LEMMA DeferStep ==
  ASSUME RatchetInvariant, UserInvariant, NEW p \in Peers, StoreExchange(p)
  PROVE  RatchetInvariant' /\ UserInvariant' /\ Grows
<1>1. /\ pc[p] = "exchange" /\ Fault /\ pc' = [pc EXCEPT ![p] = "encrypt"]
      /\ UNCHANGED <<mem, disk, complete, conv, keys, sending, attempt, offer, opened, read, stored, status>>
      /\ \A x \in net' : x \in net \/ x = Deferred(p, offer[p])
  BY DEF StoreExchange, ratchets
<1>2. SendingTypes /\ RowTypes /\ offer[p] \in Nat /\ offer[p] <= keys /\ keys \in Nat
  BY Fields DEF UserInvariant, SendingTypes, RatchetInvariant
<1>3. RatchetInvariant' /\ Grows
  <2>1. /\ ExchangePacket(Deferred(p, offer[p]), keys) /\ Deferred(p, offer[p]).type # "message"
    BY <1>2, PacketKinds
  <2> QED BY <1>1, <2>1, ExchangePacketsMove
<1>4. sending[p] \in Messages /\ disk[p] # {}
  BY <1>1, <1>2 DEF SendingTypes
<1>5. /\ sending' \in [Peers -> Messages \cup {NoMessage}] /\ sending'[p] \in Messages /\ disk'[p] # {}
      /\ \A q \in Peers : q # p => sending'[q] = sending[q]
      /\ attempt' \in [Peers -> 0 .. MaxAttempts]
  BY <1>1, <1>2, <1>4 DEF SendingTypes
<1>6. SendingTypes'
  BY <1>1, <1>2, <1>3, <1>5, OffersStay, SendingGoesOn
<1>7. RowTypes'
  BY <1>1, <1>2, RowsRest, FaultCounts DEF RowTypes
<1> QED BY <1>3, <1>6, <1>7 DEF UserInvariant

\* SendChatMessageWithRetry.
LEMMA SendStep ==
  ASSUME RatchetInvariant, UserInvariant, NEW p \in Peers, SendChatMessageWithRetry(p)
  PROVE  /\ RatchetInvariant' /\ UserInvariant' /\ Grows /\ R(Other(p))' = R(Other(p))
         /\ \E r \in R(p) : R(p)' = {Encrypt(r)}
         /\ \A x \in net' : x \in net \/ x.type = "message"
<1>1. SendingTypes /\ RowTypes /\ keys \in Nat /\ RatchetTypes
  BY Fields DEF UserInvariant, RatchetInvariant
<1>2. /\ pc[p] = "encrypt" /\ pc' = [pc EXCEPT ![p] = "sent"]
      /\ disk' = [disk EXCEPT ![p] = mem'[p]]
      /\ status' = [status EXCEPT ![sending[p]] = "created"]
      /\ UNCHANGED <<complete, conv, keys, sending, attempt, offer, opened, read, stored, faults>>
  BY DEF SendChatMessageWithRetry, saveRatchetState, StoreRatchetState, SetMessageStatus
<1>3. PICK r \in loadRatchetState(p) :
        /\ mem' = [mem EXCEPT ![p] = {Encrypt(r)}]
        /\ net' = net \cup {Chat(p, sending[p], r.dh, r.sendNum, <<r.send, r.sendNum>>)}
  BY DEF SendChatMessageWithRetry
<1>4. sending[p] \in Messages
  BY <1>1, <1>2 DEF SendingTypes
<1>5. RatchetInvariant' /\ R(Other(p))' = R(Other(p)) /\ R(p)' = {Encrypt(r)}
  BY <1>2, <1>3, <1>4, SendFits
<1>6. mem'[p] = {Encrypt(r)} /\ disk'[p] = {Encrypt(r)}
  BY <1>1, <1>2, <1>3 DEF RatchetTypes
<1>7. Grows /\ disk'[p] # {}
  BY <1>1, <1>2, <1>6 DEF Grows, RatchetTypes
<1>8. /\ sending' \in [Peers -> Messages \cup {NoMessage}] /\ sending'[p] \in Messages
      /\ \A q \in Peers : q # p => sending'[q] = sending[q]
      /\ attempt' \in [Peers -> 0 .. MaxAttempts]
  BY <1>1, <1>2, <1>4 DEF SendingTypes
<1>9. SendingTypes'
  BY <1>1, <1>2, <1>7, <1>8, OffersStay, SendingGoesOn
<1>10. RowTypes'
  <2>1. status' \in [Messages -> {"none", "created", "sent", "delivered", "failed"}]
    BY <1>1, <1>2, <1>4 DEF RowTypes
  <2> QED BY <1>1, <1>2, <2>1 DEF RowTypes
<1>11. \A x \in net' : x \in net \/ x.type = "message"
  BY <1>3 DEF Chat
<1> QED BY <1>3, <1>5, <1>7, <1>9, <1>10, <1>11, Loaded DEF UserInvariant

\* StoreAndConfirm.
LEMMA StoreStep ==
  ASSUME RatchetInvariant, UserInvariant, NEW p \in Peers, StoreAndConfirm(p)
  PROVE  RatchetInvariant' /\ UserInvariant' /\ Grows
<1>1. /\ opened[p] # NoMessage /\ opened' = [opened EXCEPT ![p] = NoMessage]
      /\ stored' = stored \cup {opened[p]}
      /\ UNCHANGED <<mem, disk, complete, conv, keys, pc, sending, attempt, offer, read, status, faults>>
      /\ \A x \in net' : x \in net \/ x = [to |-> Other(p), type |-> "confirm", id |-> opened[p]]
  BY DEF StoreAndConfirm, StoreMessage, SendDeliveryConfirmation, ratchets
<1>2. SendingTypes /\ RowTypes
  BY DEF UserInvariant
<1>3. opened[p] \in read /\ opened[p] \in Messages
  BY <1>1, <1>2 DEF RowTypes
<1>4. RatchetInvariant' /\ Grows
  <2>1. \A x \in net' : x \in net \/ (ConfirmPacket(x) /\ x.type # "message")
    BY <1>1, <1>3, TwoPeers DEF ConfirmPacket
  <2> QED BY <1>1, <2>1, ExchangePacketsMove
<1>5. SendingTypes'
  BY <1>1, <1>2, <1>4, SendingRests
<1>6. RowTypes'
  BY <1>1, <1>2, <1>3 DEF RowTypes
<1> QED BY <1>4, <1>5, <1>6 DEF UserInvariant

\* A crash.
LEMMA CrashStep ==
  ASSUME RatchetInvariant, UserInvariant, NEW p \in Peers, Crash(p)
  PROVE  RatchetInvariant' /\ UserInvariant' /\ Grows
<1>1. /\ Fault /\ pc' = [pc EXCEPT ![p] = "idle"] /\ sending' = [sending EXCEPT ![p] = NoMessage]
      /\ attempt' = [attempt EXCEPT ![p] = 0] /\ offer' = [offer EXCEPT ![p] = 0]
      /\ opened' = [opened EXCEPT ![p] = NoMessage]
      /\ UNCHANGED <<disk, complete, conv, keys, read, stored, status>>
  BY DEF Crash
<1>2. SendingTypes /\ RowTypes /\ keys \in Nat
  BY Fields DEF UserInvariant, RatchetInvariant
<1>3. RatchetInvariant'
  BY CrashFits
<1>4. Grows
  BY <1>1, <1>2 DEF Grows
<1>5. SendingTypes'
  BY <1>1, <1>2, <1>4, SendingEnds
<1>6. RowTypes'
  <2>1. faults' \in 0 .. MaxFaults
    BY <1>1, <1>2, FaultCounts
  <2> QED BY <1>1, <1>2, <2>1 DEF RowTypes
<1> QED BY <1>3, <1>4, <1>5, <1>6 DEF UserInvariant

\* UpdateMessageStatus.
LEMMA StatusStep ==
  ASSUME RatchetInvariant, UserInvariant, NEW p \in Peers, NEW s \in {"sent", "delivered", "failed"},
         UpdateMessageStatus(p, s)
  PROVE  /\ RatchetInvariant' /\ UserInvariant' /\ Grows /\ UNCHANGED <<mem, disk, conv>>
         /\ net' \subseteq net /\ \A x \in net : x.type # "message" => x \in net'
         /\ pc' = [pc EXCEPT ![p] = "idle"] /\ pc[p] = "sent" /\ offer' = [offer EXCEPT ![p] = 0]
<1>1. /\ pc[p] = "sent" /\ pc' = [pc EXCEPT ![p] = "idle"]
      /\ sending' = [sending EXCEPT ![p] = NoMessage]
      /\ attempt' = [attempt EXCEPT ![p] = 0] /\ offer' = [offer EXCEPT ![p] = 0]
      /\ status' = [status EXCEPT ![sending[p]] = s]
      /\ UNCHANGED <<mem, disk, complete, conv, keys, opened, read, stored>>
      /\ net' \subseteq net /\ (\A x \in net : x.type # "message" => x \in net')
      /\ faults' = faults \/ Fault
  BY DEF UpdateMessageStatus, SetMessageStatus, ratchets
<1>2. SendingTypes /\ RowTypes
  BY DEF UserInvariant
<1>3. RatchetInvariant' /\ Grows
  BY <1>1, ExchangePacketsMove
<1>4. SendingTypes'
  BY <1>1, <1>2, <1>3, SendingEnds
<1>5. RowTypes'
  <2>1. sending[p] \in Messages
    BY <1>1, <1>2 DEF SendingTypes
  <2>2. status' \in [Messages -> {"none", "created", "sent", "delivered", "failed"}]
    BY <1>1, <1>2, <2>1 DEF RowTypes
  <2>3. faults' \in 0 .. MaxFaults
    BY <1>1, <1>2, FaultCounts DEF RowTypes
  <2> QED BY <1>1, <1>2, <2>2, <2>3 DEF RowTypes
<1> QED BY <1>1, <1>3, <1>4, <1>5 DEF UserInvariant

\* HandleChatKeyExchange.
LEMMA AcceptStep ==
  ASSUME RatchetInvariant, UserInvariant, NEW packet \in net, HandleChatKeyExchange(packet)
  PROVE  RatchetInvariant' /\ UserInvariant' /\ Grows /\ disk'[packet.to] # {}
<1> DEFINE p == packet.to
<1>1. RatchetInvariant' /\ keys' = keys + 1 /\ keys \in Nat /\ p \in Peers
  BY AcceptFits, Fields DEF RatchetInvariant
<1>2. PICK r : disk' = [disk EXCEPT ![p] = {r}]
  BY DEF HandleChatKeyExchange, saveRatchetStateComplete, StoreRatchetState
<1>3. /\ complete' = [complete EXCEPT ![p] = TRUE] /\ conv' = [conv EXCEPT ![p] = TRUE]
      /\ UNCHANGED <<pc, sending, attempt, offer, opened, read, stored, status, faults>>
  BY DEF HandleChatKeyExchange, saveRatchetStateComplete
<1>4. SendingTypes /\ RowTypes /\ disk \in [Peers -> SUBSET Ratchets]
  BY DEF UserInvariant, RatchetInvariant, RatchetTypes
<1>5. Grows /\ disk'[p] # {}
  BY <1>1, <1>2, <1>3, <1>4 DEF Grows
<1>6. SendingTypes'
  BY <1>3, <1>4, <1>5, SendingRests
<1>7. RowTypes'
  <2>1. complete \in [Peers -> BOOLEAN] /\ conv \in [Peers -> BOOLEAN]
    BY <1>4 DEF RowTypes
  <2>2. complete' \in [Peers -> BOOLEAN] /\ conv' \in [Peers -> BOOLEAN]
    BY <1>3, <2>1
  <2> QED BY <1>3, <1>4, <2>2 DEF RowTypes
<1> QED BY <1>1, <1>5, <1>6, <1>7 DEF UserInvariant

\* The answer on the stream of the exchange.
LEMMA FinishStep ==
  ASSUME RatchetInvariant, UserInvariant, NEW packet \in net, FinishExchange(packet)
  PROVE  /\ RatchetInvariant' /\ UserInvariant' /\ Grows
         /\ packet.to \in Peers /\ R(Other(packet.to))' = R(Other(packet.to))
         /\ \A r \in R(packet.to)' : \E a \in R(packet.to) : r = initializeChains(a, packet.dh)
<1> DEFINE p == packet.to
<1>1. /\ packet.type = "ack" /\ pc[p] = "exchange" /\ mem[p] # {}
      /\ mem' = [mem EXCEPT ![p] = CompleteKeyExchange(p, packet.dh)]
      /\ disk' = [disk EXCEPT ![p] = mem'[p]] /\ complete' = [complete EXCEPT ![p] = TRUE]
      /\ pc' = [pc EXCEPT ![p] = "encrypt"] /\ net' = net \ {packet}
      /\ UNCHANGED <<conv, keys, sending, attempt, offer, opened, read, stored, status, faults>>
  BY DEF FinishExchange, saveRatchetStateComplete, StoreRatchetState
<1>2. disk' = [disk EXCEPT ![p] = IF mem[p] = {} THEN disk[p] ELSE mem'[p]]
  <2>1. (IF mem[p] = {} THEN disk[p] ELSE mem'[p]) = mem'[p]
    BY <1>1
  <2> QED BY ONLY <1>1, <2>1
<1>3. /\ RatchetInvariant' /\ p \in Peers
      /\ R(Other(p))' = R(Other(p))
      /\ \A r \in R(p)' : \/ mem[p] = {} /\ r \in R(p)
                          \/ \E a \in R(p) : r = initializeChains(a, packet.dh)
      /\ disk'[p] = {} => disk[p] = {}
  BY <1>1, <1>2, CompleteFits
<1>4. SendingTypes /\ RowTypes /\ disk \in [Peers -> SUBSET Ratchets] /\ keys \in Nat
  BY Fields DEF UserInvariant, RatchetInvariant, RatchetTypes
<1>5. Grows
  BY <1>1, <1>3, <1>4 DEF Grows
<1>6. sending[p] \in Messages /\ disk[p] # {}
  BY <1>1, <1>3, <1>4 DEF SendingTypes
<1>7. /\ sending' \in [Peers -> Messages \cup {NoMessage}] /\ sending'[p] \in Messages /\ disk'[p] # {}
      /\ \A q \in Peers : q # p => sending'[q] = sending[q]
      /\ attempt' \in [Peers -> 0 .. MaxAttempts]
  BY <1>1, <1>3, <1>4, <1>6 DEF SendingTypes
<1>8. SendingTypes'
  BY <1>1, <1>3, <1>4, <1>5, <1>7, OffersStay, SendingGoesOn
<1>9. RowTypes'
  <2>1. complete \in [Peers -> BOOLEAN]
    BY <1>4 DEF RowTypes
  <2>2. complete' \in [Peers -> BOOLEAN]
    BY <1>1, <1>3, <2>1
  <2> QED BY <1>1, <1>4, <2>2 DEF RowTypes
<1> QED BY <1>1, <1>3, <1>5, <1>8, <1>9 DEF UserInvariant

\* HandleKeyExchangeAck.
LEMMA LateAckStep ==
  ASSUME RatchetInvariant, UserInvariant, NEW packet \in net, HandleKeyExchangeAck(packet)
  PROVE  /\ RatchetInvariant' /\ UserInvariant' /\ Grows
         /\ packet.to \in Peers /\ R(Other(packet.to))' = R(Other(packet.to))
         /\ \A r \in R(packet.to)' : \/ r \in R(packet.to)
                                     \/ \E a \in R(packet.to) : r = initializeChains(a, packet.dh)
<1> DEFINE p == packet.to
<1>1. /\ packet.type = "lateAck"
      /\ mem' = [mem EXCEPT ![p] = CompleteKeyExchange(p, packet.dh)]
      /\ disk' = [disk EXCEPT ![p] = IF mem[p] = {} THEN disk[p] ELSE mem'[p]]
      /\ complete' = [complete EXCEPT ![p] = @ \/ mem[p] # {}]
      /\ net' = net \ {packet}
      /\ UNCHANGED <<conv, keys, pc, sending, attempt, offer, opened, read, stored, status, faults>>
  BY DEF HandleKeyExchangeAck
<1>2. /\ RatchetInvariant' /\ p \in Peers
      /\ R(Other(p))' = R(Other(p))
      /\ \A r \in R(p)' : \/ mem[p] = {} /\ r \in R(p)
                          \/ \E a \in R(p) : r = initializeChains(a, packet.dh)
      /\ disk'[p] = {} => disk[p] = {}
  BY <1>1, CompleteFits
<1>3. SendingTypes /\ RowTypes /\ disk \in [Peers -> SUBSET Ratchets] /\ keys \in Nat
  BY Fields DEF UserInvariant, RatchetInvariant, RatchetTypes
<1>4. Grows
  BY <1>1, <1>2, <1>3 DEF Grows
<1>5. SendingTypes'
  BY <1>1, <1>3, <1>4, SendingRests
<1>6. RowTypes'
  <2>1. complete \in [Peers -> BOOLEAN]
    BY <1>3 DEF RowTypes
  <2>2. (complete[p] \/ mem[p] # {}) \in BOOLEAN
    OBVIOUS
  <2>3. complete' \in [Peers -> BOOLEAN]
    BY <1>1, <1>2, <2>1, <2>2
  <2> QED BY <1>1, <1>3, <2>3 DEF RowTypes
<1> QED BY <1>2, <1>4, <1>5, <1>6 DEF UserInvariant


\* HandleChatMessage and a message that comes twice: a ratchet of the receiver tries it.
LEMMA ReceiveStep ==
  ASSUME RatchetInvariant, UserInvariant, NEW y \in net, HandleChatMessage(y) \/ Repeated(y)
  PROVE  /\ RatchetInvariant' /\ UserInvariant' /\ Grows /\ y.to \in Peers
         /\ R(Other(y.to))' = R(Other(y.to)) /\ net' \subseteq net
         /\ \A x \in net : x.type # "message" => x \in net'
         /\ \A a \in R(y.to)' :
              \/ a \in R(y.to) \/ a.dh = keys + 1
              \/ \E r \in R(y.to) : /\ a.dh = r.dh /\ a.remote = r.remote /\ a.send = r.send
                                    /\ a.recv = r.recv /\ a.root = r.root
         /\ UNCHANGED <<pc, conv, offer>>
<1> DEFINE p == y.to
<1>1. /\ y.type = "message" /\ UNCHANGED <<conv, pc, sending, attempt, offer, stored, status>>
      /\ net' \subseteq net /\ (\A x \in net : x.type # "message" => x \in net')
      /\ faults' = faults \/ Fault
  BY DEF HandleChatMessage, Repeated
<1>2. SendingTypes /\ RowTypes /\ RatchetTypes /\ keys \in Nat /\ p \in Peers /\ y.id \in Messages
  BY <1>1, Fields DEF UserInvariant, RatchetInvariant
<1>3. CASE UNCHANGED <<mem, disk, complete, keys, opened, read>>
  <2>1. RatchetInvariant' /\ Grows
    BY <1>1, <1>3, ExchangePacketsMove
  <2>2. SendingTypes'
    BY <1>1, <1>2, <2>1, SendingRests
  <2>3. faults' \in 0 .. MaxFaults
    BY <1>1, <1>2, FaultCounts DEF RowTypes
  <2>4. RowTypes'
    BY <1>1, <1>2, <1>3, <2>3 DEF RowTypes
  <2>5. R(p)' = R(p) /\ R(Other(p))' = R(Other(p))
    BY <1>3 DEF R
  <2> QED BY <1>1, <1>2, <2>1, <2>2, <2>4, <2>5 DEF UserInvariant
<1>4. ASSUME NEW r \in loadRatchetState(p), NEW d, d = Decrypt1on1Message(r, y),
             y.dh # r.remote => keys < MaxKeys,
             keys' = IF y.dh # r.remote THEN keys + 1 ELSE keys,
             mem' = [mem EXCEPT ![p] = {d.r}],
             \/ /\ disk' = [disk EXCEPT ![p] = {d.r}] /\ complete' = [complete EXCEPT ![p] = FALSE]
                /\ opened' = [opened EXCEPT ![p] = y.id] /\ read' = read \cup {y.id}
             \/ ~d.ok /\ UNCHANGED <<disk, complete, opened, read>>
      PROVE  /\ RatchetInvariant' /\ UserInvariant' /\ Grows /\ R(Other(p))' = R(Other(p))
             /\ \A a \in R(p)' :
                  \/ a \in R(p) \/ a.dh = keys + 1
                  \/ \E c \in R(p) : /\ a.dh = c.dh /\ a.remote = c.remote /\ a.send = c.send
                                     /\ a.recv = c.recv /\ a.root = c.root
  <2>1. \/ disk' = [disk EXCEPT ![p] = {d.r}] /\ y.id \in read'
        \/ ~d.ok /\ disk' = disk
    BY <1>4
  <2>2. read \subseteq read'
    BY <1>4
  <2>3. /\ RatchetInvariant' /\ R(Other(p))' = R(Other(p)) /\ disk'[p] # {}
        /\ \A a \in R(p)' : a \in R(p) \/ a = d.r
    BY <1>1, <1>4, <2>1, <2>2, ReceiveFits
  <2>4. Grows
    <3>1. \A q \in Peers : disk[q] # {} => disk'[q] # {}
      BY <1>2, <2>1, <2>3 DEF RatchetTypes
    <3> QED BY <1>2, <1>4, <2>2, <3>1 DEF Grows
  <2>5. SendingTypes'
    BY <1>1, <1>2, <2>4, SendingRests
  <2>6. RowTypes'
    <3>1. faults' \in 0 .. MaxFaults
      BY <1>1, <1>2, FaultCounts DEF RowTypes
    <3>2. CASE UNCHANGED <<disk, complete, opened, read>>
      BY <1>1, <1>2, <3>1, <3>2 DEF RowTypes
    <3>3. CASE /\ complete' = [complete EXCEPT ![p] = FALSE]
               /\ opened' = [opened EXCEPT ![p] = y.id] /\ read' = read \cup {y.id}
      <4>1. complete \in [Peers -> BOOLEAN] /\ opened \in [Peers -> Messages \cup {NoMessage}]
        BY <1>2 DEF RowTypes
      <4>2. complete' \in [Peers -> BOOLEAN]
        BY <3>3, <4>1
      <4>3. /\ opened' \in [Peers -> Messages \cup {NoMessage}] /\ opened'[p] = y.id
            /\ \A q \in Peers : q # p => opened'[q] = opened[q]
        BY <1>2, <3>3, <4>1
      <4>4. \A q \in Peers : opened'[q] # NoMessage => opened'[q] \in read'
        BY <1>2, <3>3, <4>3 DEF RowTypes
      <4> QED BY <1>1, <1>2, <3>1, <3>3, <4>2, <4>3, <4>4 DEF RowTypes
    <3> QED BY <1>4, <3>2, <3>3
  <2>7. r \in R(p)
    BY Loaded
  <2>8. /\ y.dh = r.remote => d.r.dh = r.dh /\ d.r.remote = r.remote /\ d.r.send = r.send
                                /\ d.r.recv = r.recv /\ d.r.root = r.root
        /\ y.dh # r.remote => d.r.dh = keys + 1
    <3>1. d.ok => y \notin net' \/ y.id \in read'
      BY <2>1
    <3> QED BY <1>1, <1>2, <1>4, <2>7, <3>1, DecryptSides
  <2> QED BY <2>3, <2>4, <2>5, <2>6, <2>7, <2>8 DEF UserInvariant
<1>5. CASE HandleChatMessage(y)
  <2>1. CASE loadRatchetState(p) = {} /\ UNCHANGED <<ratchets, keys, opened, read>>
    BY <1>3, <2>1 DEF ratchets
  <2>2. ASSUME NEW r \in loadRatchetState(p), NEW d, d = Decrypt1on1Message(r, y),
               y.dh # r.remote => keys < MaxKeys,
               keys' = IF y.dh # r.remote THEN NewKey ELSE keys,
               mem' = [mem EXCEPT ![p] = {d.r}],
               \/ d.ok /\ saveRatchetStateComplete(p, {d.r}, FALSE)
                  /\ opened' = [opened EXCEPT ![p] = y.id] /\ read' = read \cup {y.id}
               \/ ~d.ok /\ UNCHANGED <<disk, complete, opened, read>>
        PROVE  /\ RatchetInvariant' /\ UserInvariant' /\ Grows /\ R(Other(p))' = R(Other(p))
               /\ \A a \in R(p)' :
                    \/ a \in R(p) \/ a.dh = keys + 1
                    \/ \E c \in R(p) : /\ a.dh = c.dh /\ a.remote = c.remote /\ a.send = c.send
                                       /\ a.recv = c.recv /\ a.root = c.root
    <3>1. keys' = IF y.dh # r.remote THEN keys + 1 ELSE keys
      BY <2>2 DEF NewKey
    <3>2. \/ /\ disk' = [disk EXCEPT ![p] = {d.r}] /\ complete' = [complete EXCEPT ![p] = FALSE]
             /\ opened' = [opened EXCEPT ![p] = y.id] /\ read' = read \cup {y.id}
          \/ ~d.ok /\ UNCHANGED <<disk, complete, opened, read>>
      BY <2>2 DEF saveRatchetStateComplete, StoreRatchetState
    <3> HIDE DEF p
    <3> QED BY ONLY <1>4, <2>2, <3>1, <3>2
  <2>3. CASE \E r \in loadRatchetState(p) : \E d :
               /\ d = Decrypt1on1Message(r, y)
               /\ y.dh # r.remote => keys < MaxKeys
               /\ keys' = IF y.dh # r.remote THEN NewKey ELSE keys
               /\ mem' = [mem EXCEPT ![p] = {d.r}]
               /\ \/ d.ok /\ saveRatchetStateComplete(p, {d.r}, FALSE)
                     /\ opened' = [opened EXCEPT ![p] = y.id] /\ read' = read \cup {y.id}
                  \/ ~d.ok /\ UNCHANGED <<disk, complete, opened, read>>
    <3> HIDE DEF p
    <3>1. /\ RatchetInvariant' /\ UserInvariant' /\ Grows /\ R(Other(p))' = R(Other(p))
          /\ \A a \in R(p)' :
                    \/ a \in R(p) \/ a.dh = keys + 1
                    \/ \E c \in R(p) : /\ a.dh = c.dh /\ a.remote = c.remote /\ a.send = c.send
                                       /\ a.recv = c.recv /\ a.root = c.root
      BY <2>2, <2>3
    <3> QED BY <1>1, <1>2, <3>1 DEF p
  <2> QED BY <1>5, <2>1, <2>3 DEF HandleChatMessage
<1>6. CASE Repeated(y)
  <2>a. PICK r \in loadRatchetState(p) : \E d :
          /\ d = Decrypt1on1Message(r, y)
          /\ y.dh = r.remote /\ d.ok
          /\ mem' = [mem EXCEPT ![p] = {d.r}]
          /\ saveRatchetStateComplete(p, {d.r}, FALSE)
          /\ opened' = [opened EXCEPT ![p] = y.id]
    BY <1>6 DEF Repeated
  <2>1. PICK d :
          /\ r \in loadRatchetState(p)
          /\ d = Decrypt1on1Message(r, y)
          /\ y.dh = r.remote /\ d.ok
          /\ mem' = [mem EXCEPT ![p] = {d.r}]
          /\ saveRatchetStateComplete(p, {d.r}, FALSE)
          /\ opened' = [opened EXCEPT ![p] = y.id]
    BY <2>a
  <2>2. /\ disk' = [disk EXCEPT ![p] = {d.r}] /\ complete' = [complete EXCEPT ![p] = FALSE]
        /\ read' = read \cup {y.id} /\ keys' = keys
    BY <1>6, <2>1 DEF Repeated, saveRatchetStateComplete, StoreRatchetState
  <2>3. /\ y.dh # r.remote => keys < MaxKeys
        /\ keys' = IF y.dh # r.remote THEN keys + 1 ELSE keys
    BY <2>1, <2>2
  <2>4. /\ RatchetInvariant' /\ UserInvariant' /\ Grows /\ R(Other(p))' = R(Other(p))
        /\ \A a \in R(p)' :
                    \/ a \in R(p) \/ a.dh = keys + 1
                    \/ \E c \in R(p) : /\ a.dh = c.dh /\ a.remote = c.remote /\ a.send = c.send
                                       /\ a.recv = c.recv /\ a.root = c.root
    BY ONLY <1>4, <2>1, <2>2, <2>3
  <2> QED BY <1>1, <1>2, <2>4
<1> QED BY <1>5, <1>6

\* HandleChatDeliveryConfirmation.
LEMMA ConfirmStep ==
  ASSUME RatchetInvariant, UserInvariant, NEW packet \in net, HandleChatDeliveryConfirmation(packet)
  PROVE  RatchetInvariant' /\ UserInvariant' /\ Grows
<1>1. /\ packet.type = "confirm" /\ net' = net \ {packet}
      /\ status' = [status EXCEPT ![packet.id] = "delivered"]
      /\ UNCHANGED <<mem, disk, complete, conv, keys, pc, sending, attempt, offer, opened, read, stored, faults>>
  BY DEF HandleChatDeliveryConfirmation, SetMessageStatus, ratchets
<1>2. SendingTypes /\ RowTypes /\ RatchetTypes
  BY DEF UserInvariant, RatchetInvariant
<1>3. RatchetInvariant' /\ Grows
  BY <1>1, ExchangePacketsMove
<1>4. SendingTypes'
  BY <1>1, <1>2, <1>3, SendingRests
<1>5. RowTypes'
  <2>1. packet.id \in Messages
    BY <1>1, <1>2 DEF RatchetTypes, ExchangePacket, ChatPacket, ConfirmPacket
  <2>2. status' \in [Messages -> {"none", "created", "sent", "delivered", "failed"}]
    BY <1>1, <1>2, <2>1 DEF RowTypes
  <2> QED BY <1>1, <1>2, <2>2 DEF RowTypes
<1> QED BY <1>3, <1>4, <1>5 DEF UserInvariant

\* Before the first step.
LEMMA RatchetInitially == RatchetInit => RatchetInvariant /\ UserInvariant
<1> SUFFICES ASSUME RatchetInit PROVE RatchetInvariant /\ UserInvariant
  OBVIOUS
<1>1. \A p \in Peers : R(p) = {} /\ mem[p] = {} /\ disk[p] = {}
  BY DEF RatchetInit, R
<1>2. RatchetTypes
  <2>1. keys \in 2 .. MaxKeys /\ net = {}
    BY RatchetConstants DEF RatchetInit
  <2>2. mem \in [Peers -> SUBSET Ratchets] /\ disk \in [Peers -> SUBSET Ratchets]
    BY DEF RatchetInit
  <2> QED BY <1>1, <2>1, <2>2 DEF RatchetTypes
<1>3. RatchetInvariant
  BY <1>1, <1>2, TwoPeers
     DEF RatchetInit, RatchetInvariant, SentBefore, OneKeyEach, CanBeRead, NextCanBeRead, UsedIsOld
<1>4. SendingTypes
  <2>1. 0 \in 0 .. MaxAttempts
    BY RatchetConstants
  <2> QED BY <2>1 DEF RatchetInit, SendingTypes
<1>5. RowTypes
  <2>1. 0 \in 0 .. MaxFaults
    BY RatchetConstants
  <2>2. complete \in [Peers -> BOOLEAN] /\ conv \in [Peers -> BOOLEAN]
    BY DEF RatchetInit
  <2> QED BY <2>1, <2>2 DEF RatchetInit, RowTypes
<1> QED BY <1>3, <1>4, <1>5 DEF UserInvariant

\* Every step of the two peers.
LEMMA RatchetStep ==
  RatchetInvariant /\ UserInvariant /\ [RatchetNext]_ratchetVars => RatchetInvariant' /\ UserInvariant'
<1> SUFFICES ASSUME RatchetInvariant, UserInvariant, [RatchetNext]_ratchetVars
             PROVE  RatchetInvariant' /\ UserInvariant'
  OBVIOUS
<1>1. CASE UNCHANGED ratchetVars
  <2>1. UNCHANGED <<mem, disk, complete, conv, keys, net, pc, sending, attempt, offer, opened, read,
                    stored, status, faults>>
    BY <1>1 DEF ratchetVars, ratchets
  <2>2. RatchetInvariant' /\ Grows
    BY <2>1, ExchangePacketsMove
  <2> QED BY <2>1, <2>2, SendingRests, RowsRest DEF UserInvariant, RowTypes
<1>2. ASSUME NEW p \in Peers, NEW m \in Messages, InitiateKeyExchange(p, m) \/ SendMessage(p, m)
      PROVE  RatchetInvariant' /\ UserInvariant'
  BY <1>2, InitiateStep, StartStep
<1>3. ASSUME NEW p \in Peers,
             \/ sendKeyExchangeWithRetry(p) \/ StoreExchange(p)
             \/ SendChatMessageWithRetry(p) \/ StoreAndConfirm(p) \/ Crash(p)
      PROVE  RatchetInvariant' /\ UserInvariant'
  BY <1>3, RetryStep, DeferStep, SendStep, StoreStep, CrashStep
<1>4. ASSUME NEW p \in Peers, sendChatMessageDirect(p) \/ sendChatMessageViaRelay(p) \/ SendFails(p)
      PROVE  RatchetInvariant' /\ UserInvariant'
  BY <1>4, StatusStep DEF sendChatMessageDirect, sendChatMessageViaRelay, SendFails
<1>5. ASSUME NEW packet \in net,
             \/ HandleChatKeyExchange(packet) \/ HandleKeyExchangeAck(packet)
             \/ sendKeyExchangeDirect(packet) \/ sendKeyExchangeViaRelay(packet)
      PROVE  RatchetInvariant' /\ UserInvariant'
  BY <1>5, AcceptStep, LateAckStep, FinishStep DEF sendKeyExchangeDirect, sendKeyExchangeViaRelay
<1>6. ASSUME NEW packet \in net,
             HandleChatMessage(packet) \/ HandleChatDeliveryConfirmation(packet) \/ Repeated(packet)
      PROVE  RatchetInvariant' /\ UserInvariant'
  BY <1>6, ReceiveStep, ConfirmStep
<1> QED BY <1>1, <1>2, <1>3, <1>4, <1>5, <1>6 DEF RatchetNext

\* The invariant of the ratchets holds in every behaviour.
THEOREM RatchetsHold == Spec => [](RatchetInvariant /\ UserInvariant)
<1>1. Init => RatchetInvariant /\ UserInvariant
  BY RatchetInitially DEF Init
<1>2. RatchetInvariant /\ UserInvariant /\ [Next]_vars => RatchetInvariant' /\ UserInvariant'
  <2>1. [Next]_vars => [RatchetNext]_ratchetVars
    BY DEF Next, vars
  <2> QED BY <2>1, RatchetStep
<1> QED BY <1>1, <1>2, PTL DEF Spec

\* Every message has a key of its own and its receiver can derive it: for any number of
\* messages, key pairs and faults.
THEOREM KeysFit == Spec => []RatchetKeysFit
<1>1. RatchetInvariant => RatchetKeysFit
  <2> SUFFICES ASSUME RatchetInvariant PROVE NumbersAreUsedOnce /\ KeysAreKept
    BY DEF RatchetKeysFit
  <2>1. NumbersAreUsedOnce
    BY Loaded, TwoPeers DEF RatchetInvariant, SentBefore, IsChat, NumbersAreUsedOnce
  <2>2. KeysAreKept
    <3> SUFFICES ASSUME NEW x \in net, x.type = "message", NEW r \in loadRatchetState(x.to),
                        x.dh = r.remote, x.key[1] = r.recv, x.id \notin read
                 PROVE  x.num >= r.recvNum \/ <<x.num, x.key>> \in r.skipped
      BY DEF KeysAreKept
    <3>1. x.to \in Peers /\ x.key = <<x.key[1], x.num>>
      BY Fields DEF RatchetInvariant
    <3>2. Has(r, x.num)
      BY <3>1, Loaded DEF RatchetInvariant, CanBeRead, IsChat
    <3> QED BY <3>1, <3>2 DEF Has
  <2> QED BY <2>1, <2>2
<1> QED BY <1>1, RatchetsHold, PTL


-----------------------------------------------------------------------------
(* One peer starts: the exchange, and the chains it leaves.                 *)

\* A ratchet of a peer after a step has a new key pair, or the keys of one it had.
Alike(a, c) ==
  a.dh = c.dh /\ a.remote = c.remote /\ a.root = c.root /\ a.send = c.send /\ a.recv = c.recv
Like(p, a) == a.dh = keys + 1 \/ \E c \in R(p) : Alike(a, c)

\* The ratchets of one peer keep their keys, or get new ones the other has not seen.
LEMMA InStepStays ==
  ASSUME RatchetTypes, NEW s \in Peers, InStep(s), NEW p \in Peers, R(Other(p))' = R(Other(p)),
         \A a \in R(p)' : Like(p, a)
  PROVE  InStep(s)'
<1> SUFFICES ASSUME NEW r \in R(s)', NEW q \in R(Other(s))', r.remote = q.dh, q.remote = r.dh
             PROVE  r.send = q.recv /\ q.send = r.recv
  BY DEF InStep
<1>1. keys \in Nat /\ Other(s) \in Peers /\ Other(Other(s)) = s
      /\ \A x \in Peers : \A c \in R(x) : c.dh \in Nat /\ c.remote \in Nat /\ c.dh <= keys /\ c.remote <= keys
  BY Fields, TwoPeers
<1>2. CASE p = s
  <2>1. q \in R(Other(s)) /\ q.remote # keys + 1
    BY <1>1, <1>2
  <2>2. PICK c \in R(s) : Alike(r, c)
    BY <1>2, <2>1 DEF Like
  <2> QED BY <2>1, <2>2 DEF Alike, InStep
<1>3. CASE p = Other(s)
  <2>1. r \in R(s) /\ r.remote # keys + 1
    BY <1>1, <1>3
  <2>2. PICK c \in R(Other(s)) : Alike(q, c)
    BY <1>3, <2>1 DEF Like
  <2> QED BY <2>1, <2>2 DEF Alike, InStep
<1> QED BY <1>2, <1>3, TwoPeers

\* What a step that completes nothing leaves as it was.
LEMMA RatchetsAlike ==
  ASSUME RatchetTypes, NEW s \in Peers, NEW k \in Nat, OneExchange(s, k),
         NEW p \in Peers, R(Other(p))' = R(Other(p)), \A a \in R(p)' : Like(p, a)
  PROVE  /\ Open(s) => \A r \in R(s)' : r.dh = k => r.root = Secret
         /\ \A x \in net : x.type \in {"ack", "lateAck"} => \A q \in R(Other(s))' :
              q.dh = x.dh => q.remote = k /\ q.send = ChainsOf(k, q.dh) /\ q.recv = ChainsOf(k, q.dh)
<1>1. keys \in Nat /\ keys + 1 # k /\ \A x \in net : x.type \in {"ack", "lateAck"} => x.dh # keys + 1
  BY Fields, ExchangeFields DEF OneExchange
<1>2. ASSUME NEW q \in Peers, NEW a \in R(q)', a.dh # keys + 1 PROVE \E c \in R(q) : Alike(a, c)
  <2>1. CASE q = p
    BY <1>2, <2>1 DEF Like
  <2>2. CASE q = Other(p)
    BY <1>2, <2>2 DEF Alike
  <2> QED BY <2>1, <2>2, TwoPeers
<1>3. ASSUME Open(s), NEW r \in R(s)', r.dh = k PROVE r.root = Secret
  <2>1. PICK c \in R(s) : Alike(r, c)
    BY <1>1, <1>2, <1>3
  <2> QED BY <1>3, <2>1 DEF Alike, OneExchange
<1>4. ASSUME NEW x \in net, x.type \in {"ack", "lateAck"}, NEW q \in R(Other(s))', q.dh = x.dh
      PROVE  q.remote = k /\ q.send = ChainsOf(k, q.dh) /\ q.recv = ChainsOf(k, q.dh)
  <2>1. PICK c \in R(Other(s)) : Alike(q, c)
    BY <1>1, <1>2, <1>4, TwoPeers
  <2>2. c.dh = x.dh /\ c.remote = k /\ c.send = ChainsOf(k, c.dh) /\ c.recv = ChainsOf(k, c.dh)
    BY <1>4, <2>1 DEF Alike, OneExchange
  <2> QED BY <2>1, <2>2 DEF Alike
<1> QED BY <1>3, <1>4

\* A step that begins, moves and completes no exchange.
LEMMA ExchangeRests ==
  ASSUME RatchetTypes, NEW s \in Peers, ExchangeInvariant(s), NEW p \in Peers, Grows,
         R(Other(p))' = R(Other(p)), \A a \in R(p)' : Like(p, a),
         \A x \in net' : x.type \in {"exchange", "ack", "deferred", "lateAck"} => x \in net,
         pc'[s] = "exchange" => pc[s] = "exchange" /\ offer'[s] = offer[s],
         pc'[Other(s)] # "exchange", conv' = conv
  PROVE  ExchangeInvariant(s)'
<1>1. PICK k \in Nat : OneExchange(s, k)
  BY DEF ExchangeInvariant
<1>2. InStep(s)'
  BY InStepStays DEF ExchangeInvariant
<1>3. /\ Open(s)' => Open(s)
      /\ Open(s) => \A r \in R(s)' : r.dh = k => r.root = Secret
      /\ \A x \in net : x.type \in {"ack", "lateAck"} => \A q \in R(Other(s))' :
           q.dh = x.dh => q.remote = k /\ q.send = ChainsOf(k, q.dh) /\ q.recv = ChainsOf(k, q.dh)
  <2>1. Open(s)' => Open(s)
    BY DEF Open, Token
  <2> QED BY <1>1, <2>1, RatchetsAlike
<1>4. /\ k <= keys' /\ (disk'[s] = {} => disk[s] = {})
      /\ conv'[Other(s)] => disk'[Other(s)] # {}
  BY <1>1, TwoPeers DEF Grows, OneExchange
<1>5. OneExchange(s, k)'
  BY <1>1, <1>3, <1>4 DEF OneExchange, Token
<1> QED BY <1>2, <1>5 DEF ExchangeInvariant

\* The exchange is on its way again, or in the local store.
LEMMA ExchangeMoves ==
  ASSUME RatchetTypes, NEW s \in Peers, ExchangeInvariant(s), Grows, Open(s), disk[s] # {},
         NEW k \in Nat, OneExchange(s, k), NEW t,
         R(Other(s))' = R(Other(s)), R(s)' \subseteq R(s),
         \A x \in net' : x.type \in {"exchange", "ack", "deferred", "lateAck"} => x = t,
         t.type \in {"exchange", "deferred"} /\ t.to = Other(s) /\ t.dh = k,
         pc'[s] = "exchange" => pc[s] = "exchange" /\ offer'[s] = offer[s] /\ t.type = "exchange",
         pc'[Other(s)] # "exchange", conv' = conv
  PROVE  ExchangeInvariant(s)'
<1>1. \A a \in R(s)' : Like(s, a)
  BY DEF Like, Alike
<1>2. InStep(s)'
  BY <1>1, InStepStays DEF ExchangeInvariant
<1>3. \A r \in R(s)' : r.dh = k => r.root = Secret
  BY DEF OneExchange
<1>4. /\ k <= keys' /\ disk'[s] # {}
      /\ conv'[Other(s)] => disk'[Other(s)] # {}
  BY TwoPeers DEF Grows, OneExchange
<1>5. \A x \in net' : x.type \notin {"ack", "lateAck"}
  BY Zenon
<1>6. pc'[s] = "exchange" => offer'[s] = k /\ \A x \in net' : x.type \notin {"deferred", "lateAck"}
  BY <1>5 DEF OneExchange
<1>7. OneExchange(s, k)'
  BY <1>3, <1>4, <1>5, <1>6 DEF OneExchange, Token
<1> QED BY <1>2, <1>7 DEF ExchangeInvariant

\* InitiateKeyExchange: only the starter's, and only when no exchange has been.
LEMMA InitiateInStep ==
  ASSUME RatchetInvariant, UserInvariant, NEW s \in Peers, ExchangeInvariant(s),
         NEW p \in Peers, NEW m \in Messages, InitiateKeyExchange(p, m)
  PROVE  ExchangeInvariant(s)'
<1>1. RatchetTypes /\ keys \in Nat /\ keys + 1 \in Nat /\ SendingTypes
  BY Fields DEF RatchetInvariant, UserInvariant
<1>2. /\ conv[p] /\ disk[p] = {} /\ pc' = [pc EXCEPT ![p] = "exchange"] /\ conv' = conv
      /\ offer' = [offer EXCEPT ![p] = keys + 1]
      /\ net' = net \cup {Exchange(p, "exchange", keys + 1)}
  BY DEF InitiateKeyExchange, NewKey
<1>3. PICK j \in Nat : OneExchange(s, j)
  BY DEF ExchangeInvariant
<1>4. p = s
  BY <1>2, <1>3, TwoPeers DEF OneExchange
<1>5. /\ keys' = keys + 1 /\ R(Other(s))' = R(Other(s))
      /\ R(s)' = {NewDoubleRatchet(Other(s), keys + 1)}
  BY <1>4, InitiateFits
<1>6. \A r \in R(s)' : r.dh = keys + 1 /\ r.root = Secret
  <2>1. Other(s) \in Nat
    BY TwoPeers
  <2>2. NewDoubleRatchet(Other(s), keys + 1).dh = keys + 1 /\ NewDoubleRatchet(Other(s), keys + 1).root = Secret
    BY <1>1, <2>1, NewRatchet, ZenonT(30)
  <2> QED BY <1>5, <2>2
<1>7. InStep(s)'
  BY <1>1, <1>5, <1>6, InStepStays DEF ExchangeInvariant, Like
<1>8. /\ \A x \in net' : x.type \in {"exchange", "ack", "deferred", "lateAck"} => x = Exchange(s, "exchange", keys + 1)
      /\ Exchange(s, "exchange", keys + 1).type = "exchange"
      /\ Exchange(s, "exchange", keys + 1).to = Other(s) /\ Exchange(s, "exchange", keys + 1).dh = keys + 1
  <2>1. \A x \in net : x.type \notin {"exchange", "ack", "deferred", "lateAck"}
    BY <1>2, <1>3, <1>4 DEF OneExchange, Token
  <2> QED BY <1>2, <1>4, <2>1 DEF Exchange
<1>9. /\ offer'[s] = keys + 1 /\ pc'[Other(s)] # "exchange" /\ disk'[s] # {}
      /\ conv'[Other(s)] => disk'[Other(s)] # {}
  <2>1. /\ mem'[s] = {NewDoubleRatchet(Other(s), keys + 1)} /\ disk' = [disk EXCEPT ![s] = mem'[s]]
    BY <1>1, <1>4 DEF InitiateKeyExchange, StoreRatchetState, NewKey, RatchetTypes
  <2>2. disk'[s] # {} /\ disk'[Other(s)] = disk[Other(s)]
    BY <1>1, <2>1, TwoPeers DEF RatchetTypes
  <2> QED BY <1>1, <1>2, <1>3, <1>4, <2>2, TwoPeers DEF OneExchange, SendingTypes
<1>10. \E k \in Nat : OneExchange(s, k)'
  <2>1. PICK k \in Nat : k = keys + 1
    BY <1>1
  <2>2. PICK t : t = Exchange(s, "exchange", k)
    OBVIOUS
  <2>3. \A x \in net' : x.type \in {"exchange", "ack", "deferred", "lateAck"} => x = t /\ x.type = "exchange" /\ x.to = Other(s) /\ x.dh = k
    BY <1>8, <2>1, <2>2
  <2>4. OneExchange(s, k)'
    BY <1>1, <1>5, <1>6, <1>9, <2>1, <2>3 DEF OneExchange, Token
  <2> QED BY <2>4
<1> QED BY <1>7, <1>10 DEF ExchangeInvariant


\* sendKeyExchangeWithRetry, StoreExchange and a crash of the starter: the same key pair is
\* offered again, and the answer that was on its way is lost.
LEMMA OfferedAgain ==
  ASSUME RatchetInvariant, UserInvariant, NEW s \in Peers, ExchangeInvariant(s),
         NEW p \in Peers, sendKeyExchangeWithRetry(p) \/ StoreExchange(p) \/ Crash(p)
  PROVE  ExchangeInvariant(s)'
<1>1. RatchetTypes /\ SendingTypes
  BY DEF RatchetInvariant, UserInvariant
<1>2. PICK k \in Nat : OneExchange(s, k)
  BY DEF ExchangeInvariant
<1>3. Other(s) \in Peers /\ Other(s) # s /\ pc[Other(s)] # "exchange"
  BY <1>2, TwoPeers DEF OneExchange
<1>4. \A x \in net : x.type \in {"exchange", "deferred"} =>
        x \in {Exchange(s, "exchange", k), Deferred(s, k)} /\ (x.type = "exchange" => x = Exchange(s, "exchange", k))
        /\ (x.type = "deferred" => x = Deferred(s, k))
  <2> SUFFICES ASSUME NEW x \in net, x.type \in {"exchange", "deferred"}
               PROVE  /\ x.type = "exchange" => x = Exchange(s, "exchange", k)
                      /\ x.type = "deferred" => x = Deferred(s, k)
    BY DEF Exchange
  <2>1. x \in [to : Peers, type : {"exchange", "ack", "deferred"}, dh : Nat] /\ x.to = Other(s) /\ x.dh = k
    BY <1>1, <1>2 DEF RatchetTypes, ExchangePacket, ChatPacket, ConfirmPacket, OneExchange
  <2> QED BY <2>1 DEF Exchange, Deferred
<1>5. /\ Exchange(s, "exchange", k).type = "exchange" /\ Exchange(s, "exchange", k).to = Other(s)
      /\ Exchange(s, "exchange", k).dh = k
      /\ Deferred(s, k).type = "deferred" /\ Deferred(s, k).to = Other(s) /\ Deferred(s, k).dh = k
  BY DEF Exchange, Deferred
<1>6. CASE sendKeyExchangeWithRetry(p)
  <2>1. /\ pc[p] = "exchange" /\ UNCHANGED <<mem, disk, conv>>
        /\ \/ /\ UNCHANGED <<pc, offer>>
              /\ net' = {x \in net : ~(x.to = p /\ x.type = "ack")} \cup {Exchange(p, "exchange", offer[p])}
           \/ pc' = [pc EXCEPT ![p] = "idle"] /\ net' = {x \in net : ~(x.to = p /\ x.type = "ack")}
    BY <1>6 DEF sendKeyExchangeWithRetry, ratchets
  <2>2. p = s /\ Open(s) /\ disk[s] # {} /\ offer[s] = k
    BY <1>1, <1>2, <1>3, <2>1, TwoPeers DEF Open, OneExchange, SendingTypes
  <2>3. Grows /\ R(s)' = R(s) /\ R(Other(s))' = R(Other(s))
    BY <1>6, <2>1, RetryStep DEF R
  <2>4. pc'[Other(s)] # "exchange" /\ (pc'[s] = "exchange" => offer'[s] = offer[s])
    BY <1>1, <1>3, <2>1, <2>2 DEF SendingTypes
  <2>5. \A x \in net' : x.type \in {"exchange", "ack", "deferred", "lateAck"} => x = Exchange(s, "exchange", k)
    <3>1. \A x \in net' : x.type \in {"exchange", "ack", "deferred", "lateAck"} =>
            x = Exchange(s, "exchange", k) \/ (x \in net /\ x.type # "ack")
      BY <1>2, <2>1, <2>2 DEF OneExchange
    <3> QED BY <1>2, <1>4, <2>1, <2>2, <3>1 DEF OneExchange
  <2> QED BY <1>1, <1>2, <1>5, <2>1, <2>2, <2>3, <2>4, <2>5, ExchangeMoves
<1>7. CASE StoreExchange(p)
  <2>1. /\ pc[p] = "exchange" /\ UNCHANGED <<mem, disk, conv, offer>> /\ pc' = [pc EXCEPT ![p] = "encrypt"]
        /\ Exchange(p, "exchange", offer[p]) \in net
        /\ net' = (net \ {Exchange(p, "exchange", offer[p])}) \cup {Deferred(p, offer[p])}
    BY <1>7 DEF StoreExchange, ratchets
  <2>2. p = s /\ Open(s) /\ disk[s] # {} /\ offer[s] = k
    BY <1>1, <1>2, <1>3, <2>1, TwoPeers DEF Open, OneExchange, SendingTypes
  <2>3. Grows /\ R(s)' = R(s) /\ R(Other(s))' = R(Other(s))
    BY <1>7, <2>1, DeferStep DEF R
  <2>4. pc'[Other(s)] # "exchange" /\ pc'[s] # "exchange"
    BY <1>1, <1>3, <2>1, <2>2 DEF SendingTypes
  <2>5. \A x \in net' : x.type \in {"exchange", "ack", "deferred", "lateAck"} => x = Deferred(s, k)
    BY <1>2, <1>5, <2>1, <2>2 DEF OneExchange, Token
  <2> QED BY <1>1, <1>2, <1>5, <2>1, <2>2, <2>3, <2>4, <2>5, ExchangeMoves
<1>8. CASE Crash(p)
  <2>1. /\ pc' = [pc EXCEPT ![p] = "idle"] /\ offer' = [offer EXCEPT ![p] = 0] /\ UNCHANGED <<disk, conv>>
        /\ \A x \in net' : \/ x \in net /\ ~(x.to = p /\ x.type \in {"ack", "lateAck"})
                           \/ \E y \in net : y.to = p /\ y.type = "lateAck" /\ x = Deferred(p, y.offered)
    BY <1>8 DEF Crash
  <2>2. Grows /\ R(p)' \subseteq R(p) /\ R(Other(p))' = R(Other(p))
    BY <1>8, CrashStep, CrashFits
  <2>3. \A a \in R(p)' : Like(p, a)
    BY <2>2 DEF Like, Alike
  <2>4. /\ pc'[Other(s)] # "exchange"
        /\ pc'[s] = "exchange" => p # s /\ pc[s] = "exchange" /\ offer'[s] = offer[s]
    BY <1>1, <1>3, <2>1 DEF SendingTypes
  <2>5. CASE \A y \in net : ~(y.to = p /\ y.type = "lateAck")
    <3>1. \A x \in net' : x \in net
      BY <2>1, <2>5
    <3> QED BY <1>1, <2>1, <2>2, <2>3, <2>4, <3>1, ExchangeRests
  <2>6. ASSUME NEW y \in net, y.to = p, y.type = "lateAck" PROVE ExchangeInvariant(s)'
    <3>1. p = s /\ y.offered = k /\ Open(s) /\ disk[s] # {}
      BY <1>2, <2>6 DEF OneExchange, Open, Token
    <3>2. \A x \in net' : x.type \in {"exchange", "ack", "deferred", "lateAck"} => x = Deferred(s, k)
      BY <1>2, <2>1, <2>6, <3>1 DEF OneExchange, Token
    <3> QED BY <1>1, <1>2, <1>5, <2>1, <2>2, <2>4, <3>1, <3>2, ExchangeMoves
  <2> QED BY <2>5, <2>6
<1> QED BY <1>6, <1>7, <1>8

\* HandleChatKeyExchange: the other peer's, with chains of the key pair that was offered.
LEMMA AcceptInStep ==
  ASSUME RatchetInvariant, UserInvariant, NEW s \in Peers, ExchangeInvariant(s),
         NEW packet \in net, HandleChatKeyExchange(packet)
  PROVE  ExchangeInvariant(s)'
<1>1. RatchetTypes /\ SendingTypes /\ keys \in Nat /\ keys + 1 \in Nat
  BY Fields DEF RatchetInvariant, UserInvariant
<1>2. PICK k \in Nat : OneExchange(s, k)
  BY DEF ExchangeInvariant
<1>3. /\ packet.type \in {"exchange", "deferred"} /\ UNCHANGED <<pc, offer>>
      /\ conv' = [conv EXCEPT ![packet.to] = TRUE]
      /\ net' = (net \ {packet}) \cup {IF packet.type = "exchange" THEN Exchange(packet.to, "ack", keys + 1)
                                       ELSE LateAck(packet.to, keys + 1, packet.dh)}
  BY DEF HandleChatKeyExchange, NewKey
<1>4. packet.to = Other(s) /\ packet.dh = k /\ Token(packet) /\ Open(s) /\ disk[s] # {}
  BY <1>2, <1>3 DEF OneExchange, Token, Open
<1>5. /\ keys' = keys + 1 /\ Grows /\ disk'[Other(s)] # {} /\ R(s)' = R(s)
      /\ R(Other(s))' = {initializeChains(NewDoubleRatchet(k, keys + 1), k)}
  BY <1>4, AcceptFits, AcceptStep, TwoPeers
<1>6. \A q \in R(Other(s))' : q.dh = keys + 1 /\ q.remote = k
                              /\ q.send = ChainsOf(k, q.dh) /\ q.recv = ChainsOf(k, q.dh)
  <2> DEFINE a == NewDoubleRatchet(k, keys + 1)
  <2>1. a \in Ratchets /\ a.dh = keys + 1 /\ a.root = Secret
    BY <1>1, NewRatchet
  <2> HIDE DEF a
  <2>2. /\ initializeChains(a, k).dh = a.dh /\ initializeChains(a, k).remote = k
        /\ initializeChains(a, k).root = Append(a.root, {a.dh, k})
        /\ initializeChains(a, k).send = initializeChains(a, k).root
        /\ initializeChains(a, k).recv = initializeChains(a, k).root
    BY <2>1, ChainsStart
  <2>3. {a.dh, k} = {k, keys + 1}
    BY <2>1
  <2> QED BY <1>5, <2>1, <2>2, <2>3 DEF ChainsOf, a
<1>7. InStep(s)'
  <2>1. Other(s) \in Peers /\ Other(Other(s)) = s
    BY TwoPeers
  <2>2. \A a \in R(Other(s))' : Like(Other(s), a)
    BY <1>6 DEF Like
  <2> QED BY <1>1, <1>5, <2>1, <2>2, InStepStays DEF ExchangeInvariant
<1>8. PICK t : \/ packet.type = "exchange" /\ t = Exchange(Other(s), "ack", keys + 1)
               \/ packet.type = "deferred" /\ t = LateAck(Other(s), keys + 1, k)
  BY <1>3
<1>9. /\ t.to = s /\ t.dh = keys + 1 /\ t.type = IF packet.type = "exchange" THEN "ack" ELSE "lateAck"
      /\ t.type = "lateAck" => t.offered = k
      /\ \A x \in net' : x.type \in {"exchange", "ack", "deferred", "lateAck"} => x = t
  <2>1. /\ t.to = s /\ t.dh = keys + 1 /\ t.type = IF packet.type = "exchange" THEN "ack" ELSE "lateAck"
        /\ t.type = "lateAck" => t.offered = k
    BY <1>3, <1>8, TwoPeers DEF Exchange, LateAck
  <2>2. net' = (net \ {packet}) \cup {t}
    BY <1>3, <1>4, <1>8
  <2> QED BY <1>2, <1>4, <2>1, <2>2 DEF OneExchange, Token
<1>10. /\ pc[s] = "exchange" => packet.type = "exchange" /\ offer[s] = k
       /\ pc[Other(s)] # "exchange" /\ disk'[s] # {} /\ k <= keys'
  BY <1>1, <1>2, <1>3, <1>4, <1>5 DEF OneExchange, Grows
<1>11. \A r \in R(s)' : r.dh = k => r.root = Secret
  BY <1>2, <1>4, <1>5 DEF OneExchange
<1>12. OneExchange(s, k)'
  BY <1>1, <1>3, <1>5, <1>6, <1>9, <1>10, <1>11 DEF OneExchange, Token
<1> QED BY <1>7, <1>12 DEF ExchangeInvariant


\* The answer, on the stream or from the local store: the ratchet of the starter is completed
\* once, and its chains are those the other peer has for this pair of keys.
LEMMA AnswerInStep ==
  ASSUME RatchetInvariant, UserInvariant, NEW s \in Peers, ExchangeInvariant(s),
         NEW packet \in net, FinishExchange(packet) \/ HandleKeyExchangeAck(packet)
  PROVE  ExchangeInvariant(s)'
<1>1. RatchetTypes /\ SendingTypes
  BY DEF RatchetInvariant, UserInvariant
<1>2. PICK k \in Nat : OneExchange(s, k)
  BY DEF ExchangeInvariant
<1>3. /\ \/ packet.type = "ack" /\ pc' = [pc EXCEPT ![packet.to] = "encrypt"]
         \/ packet.type = "lateAck" /\ pc' = pc
      /\ net' = net \ {packet} /\ UNCHANGED <<conv, keys, offer>>
  BY DEF FinishExchange, HandleKeyExchangeAck
<1>4. packet.to = s /\ Token(packet) /\ Open(s) /\ (packet.type = "lateAck" => pc[s] # "exchange")
  BY <1>2, <1>3 DEF OneExchange, Token, Open
<1>5. /\ Grows /\ R(Other(s))' = R(Other(s))
      /\ \A r \in R(s)' : r \in R(s) \/ \E a \in R(s) : r = initializeChains(a, packet.dh)
  BY <1>4, FinishStep, LateAckStep
<1>6. \A x \in net' : x.type \notin {"exchange", "ack", "deferred", "lateAck"}
  BY <1>2, <1>3, <1>4 DEF OneExchange, Token
<1>7. pc'[s] # "exchange" /\ pc'[Other(s)] # "exchange"
  BY <1>1, <1>2, <1>3, <1>4, TwoPeers DEF OneExchange, SendingTypes
<1>8. k <= keys' /\ (conv'[Other(s)] => disk'[Other(s)] # {})
  BY <1>2, <1>3, <1>5, TwoPeers DEF OneExchange, Grows
<1>9. OneExchange(s, k)'
  BY <1>2, <1>6, <1>7, <1>8 DEF OneExchange, Token, Open
<1>10. InStep(s)'
  <2> SUFFICES ASSUME NEW r \in R(s)', NEW q \in R(Other(s))', r.remote = q.dh, q.remote = r.dh
               PROVE  r.send = q.recv /\ q.send = r.recv
    BY DEF InStep
  <2>1. q \in R(Other(s))
    BY <1>5
  <2>2. CASE r \in R(s)
    BY <2>1, <2>2 DEF ExchangeInvariant, InStep
  <2>3. ASSUME NEW a \in R(s), r = initializeChains(a, packet.dh)
        PROVE  r.send = q.recv /\ q.send = r.recv
    <3>1. a \in Ratchets /\ packet.dh \in Nat
      BY <1>1, <1>3, Fields, ExchangeFields
    <3>2. /\ r.dh = a.dh /\ r.remote = packet.dh /\ r.root = Append(a.root, {a.dh, packet.dh})
          /\ r.send = r.root /\ r.recv = r.root
      BY <2>3, <3>1, ChainsStart
    <3>3. q.remote = k /\ q.send = ChainsOf(k, q.dh) /\ q.recv = ChainsOf(k, q.dh) /\ q.dh = packet.dh
      BY <1>2, <1>3, <2>1, <3>2 DEF OneExchange
    <3>4. a.dh = k /\ a.root = Secret
      BY <1>2, <1>4, <3>2, <3>3 DEF OneExchange
    <3> QED BY <3>2, <3>3, <3>4 DEF ChainsOf
  <2> QED BY <1>5, <2>2, <2>3
<1> QED BY <1>9, <1>10 DEF ExchangeInvariant

\* The messages and what is answered to them leave the exchange alone.
LEMMA MessagesInStep ==
  ASSUME RatchetInvariant, UserInvariant, NEW s \in Peers, ExchangeInvariant(s), NEW p \in Peers,
         \/ \E m \in Messages : SendMessage(p, m)
         \/ SendChatMessageWithRetry(p) \/ StoreAndConfirm(p)
         \/ \E st \in {"sent", "delivered", "failed"} : UpdateMessageStatus(p, st)
         \/ \E x \in net : x.to = p /\ (HandleChatMessage(x) \/ Repeated(x))
         \/ \E x \in net : HandleChatDeliveryConfirmation(x)
  PROVE  ExchangeInvariant(s)'
<1>1. RatchetTypes /\ SendingTypes
  BY DEF RatchetInvariant, UserInvariant
<1>2. pc[Other(s)] # "exchange" /\ Other(s) \in Peers
  BY TwoPeers DEF ExchangeInvariant, OneExchange
<1>3. (\A a \in R(p)' : a \in R(p)) => \A a \in R(p)' : Like(p, a)
  BY DEF Like, Alike
<1>4. UNCHANGED <<mem, disk>> => R(Other(p))' = R(Other(p)) /\ \A a \in R(p)' : a \in R(p)
  BY DEF R
<1>5. CASE \E m \in Messages : SendMessage(p, m)
  <2>1. /\ pc' = [pc EXCEPT ![p] = "encrypt"] /\ UNCHANGED <<mem, disk, conv, net, offer>> /\ Grows
    BY <1>5, StartStep DEF SendMessage, ratchets
  <2>2. pc'[Other(s)] # "exchange" /\ (pc'[s] = "exchange" => pc[s] = "exchange")
    BY <1>1, <1>2, <2>1 DEF SendingTypes
  <2> QED BY <1>1, <1>3, <1>4, <2>1, <2>2, ExchangeRests
<1>6. CASE SendChatMessageWithRetry(p)
  <2>1. /\ pc' = [pc EXCEPT ![p] = "sent"] /\ UNCHANGED <<conv, offer>>
    BY <1>6 DEF SendChatMessageWithRetry
  <2>2. pc'[Other(s)] # "exchange" /\ (pc'[s] = "exchange" => pc[s] = "exchange")
    BY <1>1, <1>2, <2>1 DEF SendingTypes
  <2>3. /\ Grows /\ R(Other(p))' = R(Other(p)) /\ (\E r \in R(p) : R(p)' = {Encrypt(r)})
        /\ \A x \in net' : x \in net \/ x.type = "message"
    BY <1>6, SendStep
  <2>4. \A a \in R(p)' : Like(p, a)
    <3>1. PICK r \in R(p) : R(p)' = {Encrypt(r)}
      BY <2>3
    <3>2. Alike(Encrypt(r), r)
      BY <1>1, Fields, EncryptMoves DEF Alike
    <3> QED BY <3>1, <3>2 DEF Like
  <2> QED BY <1>1, <2>1, <2>2, <2>3, <2>4, ExchangeRests
<1>7. CASE StoreAndConfirm(p)
  <2>1. /\ UNCHANGED <<mem, disk, conv, pc, offer>> /\ Grows
        /\ \A x \in net' : x \in net \/ x.type = "confirm"
    <3>1. UNCHANGED <<mem, disk, conv, pc, offer>> /\ Grows
      BY <1>7, StoreStep DEF StoreAndConfirm, ratchets
    <3>2. net' = net \/ net' = net \cup {[to |-> Other(p), type |-> "confirm", id |-> opened[p]]}
      BY <1>7 DEF StoreAndConfirm, SendDeliveryConfirmation
    <3> QED BY <3>1, <3>2
  <2> QED BY <1>1, <1>2, <1>3, <1>4, <2>1, ExchangeRests
<1>8. ASSUME NEW st \in {"sent", "delivered", "failed"}, UpdateMessageStatus(p, st)
      PROVE  ExchangeInvariant(s)'
  <2>1. /\ Grows /\ UNCHANGED <<mem, disk, conv>> /\ net' \subseteq net
        /\ pc' = [pc EXCEPT ![p] = "idle"] /\ offer' = [offer EXCEPT ![p] = 0]
    BY <1>8, StatusStep
  <2>2. pc'[Other(s)] # "exchange" /\ (pc'[s] = "exchange" => pc[s] = "exchange" /\ offer'[s] = offer[s])
    BY <1>1, <1>2, <2>1 DEF SendingTypes
  <2> QED BY <1>1, <1>3, <1>4, <2>1, <2>2, ExchangeRests
<1>9. ASSUME NEW x \in net, x.to = p, HandleChatMessage(x) \/ Repeated(x)
      PROVE  ExchangeInvariant(s)'
  <2>1. /\ Grows /\ R(Other(p))' = R(Other(p)) /\ net' \subseteq net /\ UNCHANGED <<pc, conv, offer>>
        /\ \A a \in R(p)' :
             \/ a \in R(p) \/ a.dh = keys + 1
             \/ \E r \in R(p) : /\ a.dh = r.dh /\ a.remote = r.remote /\ a.send = r.send
                                /\ a.recv = r.recv /\ a.root = r.root
    BY <1>9, ReceiveStep
  <2>2. \A a \in R(p)' : Like(p, a)
    BY <2>1 DEF Like, Alike
  <2> QED BY <1>1, <1>2, <2>1, <2>2, ExchangeRests
<1>10. ASSUME NEW x \in net, HandleChatDeliveryConfirmation(x) PROVE ExchangeInvariant(s)'
  <2>1. /\ UNCHANGED <<mem, disk, conv, pc, offer>> /\ Grows /\ net' \subseteq net
    BY <1>10, ConfirmStep DEF HandleChatDeliveryConfirmation, ratchets
  <2> QED BY <1>1, <1>2, <1>3, <1>4, <2>1, ExchangeRests
<1> QED BY <1>5, <1>6, <1>7, <1>8, <1>9, <1>10

\* Every step of the two peers, once one of them has started.
LEMMA ExchangeStep ==
  ASSUME RatchetInvariant, UserInvariant, NEW s \in Peers, ExchangeInvariant(s), [RatchetNext]_ratchetVars
  PROVE  ExchangeInvariant(s)'
<1>1. CASE UNCHANGED ratchetVars
  <2>1. UNCHANGED <<mem, disk, conv, keys, net, pc, offer>>
    BY <1>1 DEF ratchetVars, ratchets
  <2> QED BY <2>1 DEF ExchangeInvariant, InStep, OneExchange, Open, Token, R
<1>2. ASSUME NEW p \in Peers, NEW m \in Messages, InitiateKeyExchange(p, m) \/ SendMessage(p, m)
      PROVE  ExchangeInvariant(s)'
  BY <1>2, InitiateInStep, MessagesInStep
<1>3. ASSUME NEW p \in Peers,
             \/ sendKeyExchangeWithRetry(p) \/ StoreExchange(p)
             \/ SendChatMessageWithRetry(p) \/ StoreAndConfirm(p) \/ Crash(p)
      PROVE  ExchangeInvariant(s)'
  BY <1>3, OfferedAgain, MessagesInStep
<1>4. ASSUME NEW p \in Peers, sendChatMessageDirect(p) \/ sendChatMessageViaRelay(p) \/ SendFails(p)
      PROVE  ExchangeInvariant(s)'
  BY <1>4, MessagesInStep DEF sendChatMessageDirect, sendChatMessageViaRelay, SendFails
<1>5. ASSUME NEW packet \in net,
             \/ HandleChatKeyExchange(packet) \/ HandleKeyExchangeAck(packet)
             \/ sendKeyExchangeDirect(packet) \/ sendKeyExchangeViaRelay(packet)
      PROVE  ExchangeInvariant(s)'
  BY <1>5, AcceptInStep, AnswerInStep DEF sendKeyExchangeDirect, sendKeyExchangeViaRelay
<1>6. ASSUME NEW packet \in net,
             HandleChatMessage(packet) \/ HandleChatDeliveryConfirmation(packet) \/ Repeated(packet)
      PROVE  ExchangeInvariant(s)'
  <2>1. HandleChatMessage(packet) \/ Repeated(packet) => packet.to \in Peers
    BY ReceiveStep
  <2> QED BY <1>6, <2>1, MessagesInStep
<1> QED BY <1>1, <1>2, <1>3, <1>4, <1>5, <1>6 DEF RatchetNext

\* Two ratchets of a conversation that hold each other's public keys have the same chains:
\* whatever answers are lost, however often the exchange is sent and accepted again, and over
\* every crash (AcceptKeyExchange and CompleteKeyExchange of chat_crypto_manager.go).
THEOREM InStepHolds == Spec => []InStepMeansSameChains
<1> DEFINE s == Starter
<1>0. s \in Peers
  BY RatchetConstants
<1> HIDE DEF s
<1>1. Init => ExchangeInvariant(s)
  <2> SUFFICES ASSUME RatchetInit PROVE ExchangeInvariant(s)
    BY DEF Init
  <2>1. /\ \A p \in Peers : R(p) = {} /\ disk[p] = {} /\ pc[p] = "idle"
        /\ net = {} /\ keys = 2
    BY DEF RatchetInit, R
  <2>2. ~conv[Other(s)]
    BY <1>0, TwoPeers DEF RatchetInit, s
  <2>3. OneExchange(s, 0)
    BY <1>0, <2>1, <2>2, TwoPeers DEF OneExchange, Open
  <2> QED BY <1>0, <2>1, <2>3, TwoPeers DEF ExchangeInvariant, InStep
<1>2. RatchetInvariant /\ UserInvariant /\ ExchangeInvariant(s) /\ [Next]_vars => ExchangeInvariant(s)'
  <2>1. [Next]_vars => [RatchetNext]_ratchetVars
    BY DEF Next, vars
  <2> QED BY <1>0, <2>1, ExchangeStep
<1>3. ExchangeInvariant(s) => InStepMeansSameChains
  <2>1. CASE s = 1
    BY <2>1, TwoPeers, Loaded DEF ExchangeInvariant, InStep, InStepMeansSameChains
  <2>2. CASE s = 2
    BY <2>2, TwoPeers, Loaded DEF ExchangeInvariant, InStep, InStepMeansSameChains
  <2> QED BY <1>0, <2>1, <2>2, TwoPeers
<1> QED BY <1>1, <1>2, <1>3, RatchetsHold, PTL DEF Spec


-----------------------------------------------------------------------------
(* Types.                                                                   *)

\* A set with at most one element.
LEMMA AtMostOne ==
  ASSUME NEW S, \A a, b \in S : a = b PROVE Cardinality(S) <= 1
<1>1. CASE S = {}
  BY <1>1, FS_EmptySet
<1>2. ASSUME NEW a \in S PROVE Cardinality(S) <= 1
  <2>1. S = {a}
    BY <1>2
  <2> QED BY <2>1, FS_Singleton
<1> QED BY <1>1, <1>2

\* The types of both kinds of conversation: a peer has at most one ratchet in memory and one
\* in the table, and a user that is about to encrypt has one to do it with.
THEOREM TypeCorrect == Spec => []TypeOK
<1>1. Init => conversationType \in {"1on1", "group"}
  BY DEF Init
<1>2. conversationType \in {"1on1", "group"} /\ [Next]_vars => (conversationType \in {"1on1", "group"})'
  BY DEF Next, vars
<1>3. RatchetInvariant /\ UserInvariant => RatchetTypeOK
  <2> SUFFICES ASSUME RatchetInvariant, UserInvariant PROVE RatchetTypeOK
    OBVIOUS
  <2>1. RatchetTypes /\ SendingTypes /\ RowTypes /\ keys \in Nat /\ keys <= MaxKeys
    BY Fields, RatchetConstants DEF RatchetInvariant, UserInvariant, RatchetTypes
  <2>2. \A p \in Peers : Cardinality(mem[p]) <= 1 /\ Cardinality(disk[p]) <= 1
    BY <2>1, AtMostOne DEF RatchetTypes
  <2>3. \A x \in net : x.to \in Peers
          /\ x.type \in {"exchange", "ack", "deferred", "lateAck", "message", "confirm"}
    BY <2>1 DEF RatchetTypes, ExchangePacket, ChatPacket, ConfirmPacket
  <2>4. offer \in [Peers -> 0 .. MaxKeys]
    <3>1. \A p \in Peers : offer[p] \in Nat /\ offer[p] <= keys
      BY <2>1 DEF SendingTypes
    <3>2. \A p \in Peers : offer[p] \in 0 .. MaxKeys
      BY <2>1, <3>1, RatchetConstants
    <3> QED BY <2>1, <3>2 DEF SendingTypes
  <2>5. \A p \in Peers : pc[p] = "encrypt" => loadRatchetState(p) # {}
    BY <2>1, Loaded DEF SendingTypes, R
  <2> QED BY <2>1, <2>2, <2>3, <2>4, <2>5 DEF RatchetTypeOK, RatchetTypes, SendingTypes, RowTypes
<1>4. GroupInvariant => GroupTypeOK
  <2> SUFFICES ASSUME GroupInvariant PROVE GroupTypeOK
    OBVIOUS
  <2>1. GroupTypes /\ Invitations
    BY DEF GroupInvariant
  <2>2. {held, saved} \subseteq [Members -> [Members -> 0 .. MaxSent + 2]]
    <3>1. KeyRows \subseteq [Members -> 0 .. MaxSent + 2] /\ None \in [Members -> 0 .. MaxSent + 2]
      BY GroupConstants DEF KeyRows, None
    <3> QED BY <2>1, <3>1 DEF GroupTypes
  <2>3. \A q \in Members : \A x \in packets \cup waitKeys[q] \cup waitMsgs[q] :
          x.type \in {"create", "key", "message"} /\ x.to \in Members
    BY <2>1, KindsApart DEF GroupTypes, PacketTypes, WaitTypes
  <2> QED BY <2>1, <2>2, <2>3 DEF GroupTypeOK, GroupTypes, Invitations
<1> QED BY <1>1, <1>2, <1>3, <1>4, RatchetsHold, GroupHolds, PTL DEF Spec, TypeOK

=============================================================================
