----------------------------- MODULE GroupChat -----------------------------
(***************************************************************************)
(* A group conversation (internal/crypto/sender_keys.go,                   *)
(* internal/p2p/chat_handler.go, internal/p2p/chat_message_handler.go,     *)
(* internal/chat/chat_manager.go, internal/database/chat_groups.go).       *)
(*                                                                         *)
(* Every member has one sender key, a chain that only moves forward, and   *)
(* gives it to the others; a position in the chain is its message number.  *)
(* The group's invitation, the keys and the messages are separate packets  *)
(* that overtake each other.                                               *)
(***************************************************************************)
EXTENDS Naturals, FiniteSets

CONSTANTS Members, Creator,
          MaxSent,        \* bound on the messages of a member
          MaxGroupFaults  \* bound on lost and repeated packets and crashes

ASSUME GroupConstantsAssumption ==
  /\ Creator \in Members /\ IsFiniteSet(Members)
  /\ {MaxSent, MaxGroupFaults} \subseteq Nat

VARIABLES
  joined,    \* IsGroupMember of the member itself
  creating,  \* HandleChatGroupCreate has added the members and not yet the keys
  held,      \* GroupSenderKeys in memory: the numbers of the keys, or NoKeys
  saved,     \* chat_sender_keys, the same
  waitKeys,  \* pendingSenderKeys
  waitMsgs,  \* pendingGroupMessages
  packets,   \* on their way
  got,       \* messages each member has stored
  slips      \* faults so far

groupVars == <<joined, creating, held, saved, waitKeys, waitMsgs, packets, got, slips>>

NoKey  == MaxSent + 1
NoKeys == [m \in Members |-> NoKey]
None   == [m \in Members |-> MaxSent + 2]   \* no GroupSenderKeys in memory

Invite(q)       == [type |-> "create", to |-> q]
KeyOf(p, q, n)  == [type |-> "key", from |-> p, to |-> q, num |-> n]
Group(p, q, n)  == [type |-> "message", from |-> p, to |-> q, num |-> n]

GroupFault == slips < MaxGroupFaults /\ slips' = slips + 1

GroupInit ==
  /\ joined = [q \in Members |-> FALSE]
  /\ creating = [q \in Members |-> FALSE]
  /\ held = [q \in Members |-> None]
  /\ saved = [q \in Members |-> NoKeys]
  /\ waitKeys = [q \in Members |-> {}] /\ waitMsgs = [q \in Members |-> {}]
  /\ packets = {}
  /\ got = [q \in Members |-> {}]
  /\ slips = 0

GroupTypeOK ==
  /\ {joined, creating} \subseteq [Members -> BOOLEAN]
  /\ {held, saved} \subseteq [Members -> [Members -> 0 .. MaxSent + 2]]
  /\ \A q \in Members : \A x \in packets \cup waitKeys[q] \cup waitMsgs[q] :
       x.type \in {"create", "key", "message"} /\ x.to \in Members
  /\ \A q \in Members : got[q] \subseteq Members \X (0 .. MaxSent)
  /\ slips \in 0 .. MaxGroupFaults
  /\ \A q \in Members : creating[q] => joined[q]

-----------------------------------------------------------------------------
(* The group and its keys.                                                  *)

\* The rows of q's table of sender keys: all of them, or that of one member.
GetAllSenderKeys(q)        == saved[q]
StoreSenderKeys(q, ks)     == saved' = [saved EXCEPT ![q] = ks]
StoreSenderKey(q, from, n) == saved' = [saved EXCEPT ![q][from] = n]

\* The members' rows that make q a member.
AddGroupMember(q) == joined' = [joined EXCEPT ![q] = TRUE]

OwnKeyOnly(q) == [NoKeys EXCEPT ![q] = 0]

CreateGroup ==
  /\ ~joined[Creator]
  /\ AddGroupMember(Creator)
  /\ held' = [held EXCEPT ![Creator] = OwnKeyOnly(Creator)]
  /\ StoreSenderKeys(Creator, OwnKeyOnly(Creator))
  /\ packets' = {Invite(q) : q \in Members \ {Creator}}
                  \cup {KeyOf(Creator, q, 0) : q \in Members \ {Creator}}
  /\ UNCHANGED <<creating, waitKeys, waitMsgs, got, slips>>

\* The rows of the conversation and of its members; a second invitation finds the
\* conversation and is dropped.
HandleChatGroupCreate(packet) ==
  LET q == packet.to IN
  /\ packet \in packets /\ packet.type = "create"
  /\ packets' = packets \ {packet}
  /\ ~joined[q]
  /\ AddGroupMember(q)
  /\ creating' = [creating EXCEPT ![q] = TRUE]
  /\ UNCHANGED <<held, saved, waitKeys, waitMsgs, got, slips>>

\* The member's own key, for everybody; then the keys and the messages that came early.
\* A message is handled as if it arrived now.
CreateGroupSenderKeys(q) ==
  LET early == [m \in Members |->
                  IF m = q THEN 0
                  ELSE IF \E x \in waitKeys[q] : x.from = m
                       THEN (CHOOSE x \in waitKeys[q] : x.from = m).num ELSE NoKey]
  IN
  /\ creating[q]
  /\ creating' = [creating EXCEPT ![q] = FALSE]
  /\ held' = [held EXCEPT ![q] = early]
  /\ StoreSenderKeys(q, early)
  /\ packets' = packets \cup {KeyOf(q, m, 0) : m \in Members \ {q}} \cup waitMsgs[q]
  /\ waitKeys' = [waitKeys EXCEPT ![q] = {}]
  /\ waitMsgs' = [waitMsgs EXCEPT ![q] = {}]
  /\ UNCHANGED <<joined, got, slips>>

\* A key that comes replaces the one that is there, in memory and in the table.
AddGroupSenderKey(q, packet) ==
  /\ held' = [held EXCEPT ![q][packet.from] = packet.num]
  /\ StoreSenderKey(q, packet.from, packet.num)

\* A key for a group that is not known waits; without GroupSenderKeys in memory (between
\* the rows and the keys of the group, or after a restart) it is dropped.
HandleChatSenderKeyDistribution(packet) ==
  LET q == packet.to IN
  /\ packet \in packets /\ packet.type = "key"
  /\ packets' = packets \ {packet}
  /\ \/ /\ ~joined[q]
        /\ waitKeys' = [waitKeys EXCEPT ![q] = @ \cup {packet}]
        /\ UNCHANGED <<held, saved>>
     \/ /\ joined[q] /\ held[q] = None
        /\ UNCHANGED <<waitKeys, held, saved>>
     \/ /\ joined[q] /\ held[q] # None
        /\ AddGroupSenderKey(q, packet)
        /\ UNCHANGED waitKeys
  /\ UNCHANGED <<joined, creating, waitMsgs, got, slips>>

-----------------------------------------------------------------------------
(* Messages.                                                                *)

\* GroupSenderKeys, from memory or from the table.
LoadGroupSenderKey(q) == IF held[q] # None THEN held[q] ELSE GetAllSenderKeys(q)

\* Mutant: persistOurSenderKeyState is left out.
KeepOldNumber(p, k) == UNCHANGED saved

persistOurSenderKeyState(p, k) == StoreSenderKey(p, p, k + 1)

EncryptGroupMessage(ks, p) == [ks EXCEPT ![p] = @ + 1]

\* A number that was passed is not read; the chain is moved up to a later one.
Readable(ks, packet)            == ks[packet.from] # NoKey /\ ks[packet.from] <= packet.num
DecryptGroupMessage(ks, packet) == [ks EXCEPT ![packet.from] = packet.num + 1]

\* Encrypt with the next key of the chain, save, send to every member.
SendGroupMessage(p) ==
  LET own == LoadGroupSenderKey(p)
      k == own[p]
  IN
  /\ joined[p] /\ ~creating[p] /\ k < MaxSent
  /\ held' = [held EXCEPT ![p] = EncryptGroupMessage(own, p)]
  /\ persistOurSenderKeyState(p, k)
  /\ packets' = packets \cup {Group(p, q, k) : q \in Members \ {p}}
  /\ UNCHANGED <<joined, creating, waitKeys, waitMsgs, got, slips>>

\* What is read is saved and stored.
HandleChatGroupMessage(packet) ==
  LET q == packet.to
      known == LoadGroupSenderKey(q)
  IN
  /\ packet \in packets /\ packet.type = "message"
  /\ packets' = packets \ {packet}
  /\ \/ /\ ~joined[q]
        /\ waitMsgs' = [waitMsgs EXCEPT ![q] = @ \cup {packet}]
        /\ UNCHANGED <<held, saved, got>>
     \/ /\ joined[q]
        /\ IF Readable(known, packet)
             THEN /\ held' = [held EXCEPT ![q] = DecryptGroupMessage(known, packet)]
                  /\ StoreSenderKey(q, packet.from, packet.num + 1)
                  /\ got' = [got EXCEPT ![q] = @ \cup {<<packet.from, packet.num>>}]
             ELSE /\ held' = [held EXCEPT ![q] = IF known = NoKeys THEN None ELSE known]
                  /\ UNCHANGED <<saved, got>>
        /\ UNCHANGED waitMsgs
  /\ UNCHANGED <<joined, creating, waitKeys, slips>>

\* The keys go from the table, not from memory, and the other members are not told.
LeaveGroup(q) ==
  /\ joined[q] /\ ~creating[q] /\ q # Creator /\ GroupFault
  /\ joined' = [joined EXCEPT ![q] = FALSE]
  /\ StoreSenderKeys(q, NoKeys)
  /\ packets' = {x \in packets : x.type # "create" \/ x.to # q}   \* the conversation exists
  /\ UNCHANGED <<creating, held, waitKeys, waitMsgs, got>>

\* A relay writes a packet twice.
RepeatKey(packet) ==
  /\ packet \in packets /\ packet.type = "key" /\ joined[packet.to] /\ held[packet.to] # None
  /\ GroupFault
  /\ AddGroupSenderKey(packet.to, packet)
  /\ UNCHANGED <<joined, creating, waitKeys, waitMsgs, packets, got>>

GroupCrash(q) ==
  /\ GroupFault
  /\ held' = [held EXCEPT ![q] = None]
  /\ creating' = [creating EXCEPT ![q] = FALSE]
  /\ waitKeys' = [waitKeys EXCEPT ![q] = {}]
  /\ waitMsgs' = [waitMsgs EXCEPT ![q] = {}]
  /\ UNCHANGED <<joined, saved, packets, got>>

GroupNext ==
  \/ CreateGroup
  \/ \E q \in Members :
       \/ CreateGroupSenderKeys(q) \/ SendGroupMessage(q) \/ LeaveGroup(q) \/ GroupCrash(q)
  \/ \E packet \in packets :
       \/ HandleChatGroupCreate(packet) \/ HandleChatSenderKeyDistribution(packet)
       \/ HandleChatGroupMessage(packet) \/ RepeatKey(packet)
-----------------------------------------------------------------------------
(* Properties.                                                              *)

\* No member's copy of a sender key is ahead of its owner: the next message of the owner
\* can be read by every member that has the key, after crashes of either, keys that come
\* again and messages that are queued or overtake each other.
KeysAreNotAhead ==
  \A p, q \in Members :
    LET own == LoadGroupSenderKey(p)[p]
        copy == LoadGroupSenderKey(q)[p]
    IN (joined[p] /\ ~creating[p] /\ own # NoKey /\ copy # NoKey /\ copy # MaxSent + 2)
         => copy <= own
=============================================================================
