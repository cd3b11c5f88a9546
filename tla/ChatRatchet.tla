---------------------------- MODULE ChatRatchet ----------------------------
(***************************************************************************)
(* A conversation of two peers: the key exchange, the ratchets and their   *)
(* storage, sending and receiving (internal/crypto/double_ratchet.go,      *)
(* internal/crypto/chat_crypto_manager.go, internal/p2p/chat_handler.go,   *)
(* internal/p2p/chat_message_handler.go, internal/chat/chat_manager.go and *)
(* internal/database/chat_*.go).                                           *)
(*                                                                         *)
(* Keys are symbolic.  A key pair is a number; 1 and 2 are the identity    *)
(* keys of the peers.  A root key is the sequence of the Diffie-Hellman    *)
(* pairs it was derived from, a chain is the root key it came out with,    *)
(* and a message key is a chain and a position in it.                      *)
(***************************************************************************)
EXTENDS Naturals, Sequences, FiniteSets

CONSTANTS Messages,    \* messages of both peers
          SenderOf,    \* the peer that writes each
          Starter,     \* the peer whose user opens the conversation: its id is a new UUID
          MaxAttempts, \* maxRetries + 1 of sendKeyExchangeWithRetry
          MaxKeys,     \* bound on key pairs
          MaxFaults,   \* bound on lost and repeated packets and crashes
          NoMessage

Peers == 1 .. 2

ASSUME RatchetConstantsAssumption ==
  /\ SenderOf \in [Messages -> Peers]
  /\ Starter \in Peers
  /\ NoMessage \notin Messages
  /\ MaxAttempts \in Nat \ {0} /\ MaxKeys \in Nat /\ MaxKeys >= 2 /\ MaxFaults \in Nat

VARIABLES
  mem,      \* ChatCryptoManager.ratchets: {} or one ratchet
  disk,     \* chat_ratchet_state with chat_skipped_keys: {} or one ratchet
  complete, \* key_exchange_complete of the row
  conv,     \* the conversation exists at the peer
  keys,     \* key pairs generated so far, the identities included
  net,      \* packets on their way
  pc,       \* the user's SendMessage at each peer
  sending,  \* its message
  attempt,  \* its attempt at the key exchange
  offer,    \* the public key its exchange carries, 0 when there is none
  opened,   \* HandleChatMessage has decrypted and saved, and not yet stored
  read,     \* messages that were decrypted once
  stored,   \* messages in chat_messages of the receiver
  status,   \* status in chat_messages of the sender
  faults

ratchets  == <<mem, disk, complete>>
ratchetVars == <<ratchets, conv, keys, net, pc, sending, attempt, offer, opened, read, stored, status, faults>>

Other(p) == 3 - p
Secret   == <<{1, 2}>>   \* the shared secret of the identity keys
NoChain  == << >>        \* a chain key that was never set: 32 zeros

\* A packet: a key exchange or its acknowledgement with a public key, or a message with the
\* sender's current public key, its number and the key it is encrypted with.
Exchange(p, type, key) == [to |-> Other(p), type |-> type, dh |-> key]
\* An exchange that waits in the local store, and its acknowledgement.
Deferred(p, key) == [to |-> Other(p), type |-> "deferred", dh |-> key]
LateAck(p, key, offered) == [to |-> Other(p), type |-> "lateAck", dh |-> key, offered |-> offered]
Chat(p, m, dh, num, key) ==
  [to |-> Other(p), type |-> "message", dh |-> dh, id |-> m, num |-> num, key |-> key]

Fault == faults < MaxFaults /\ faults' = faults + 1

NewKey == keys + 1

loadRatchetState(p) == IF mem[p] # {} THEN mem[p] ELSE disk[p]

\* The row of the ratchet and its skipped keys are replaced.
StoreRatchetState(p, rs) == disk' = [disk EXCEPT ![p] = rs]

saveRatchetStateComplete(p, rs, done) ==
  StoreRatchetState(p, rs) /\ complete' = [complete EXCEPT ![p] = done]

\* The status of the sender's row, whatever it was.
SetMessageStatus(m, s) == status' = [status EXCEPT ![m] = s]

RatchetInit ==
  /\ mem = [p \in Peers |-> {}] /\ disk = [p \in Peers |-> {}]
  /\ complete = [p \in Peers |-> FALSE]
  /\ conv = [p \in Peers |-> p = Starter]   \* CreateOrGetConversation
  /\ keys = 2
  /\ net = {}
  /\ pc = [p \in Peers |-> "idle"]
  /\ sending = [p \in Peers |-> NoMessage]
  /\ attempt = [p \in Peers |-> 0]
  /\ offer = [p \in Peers |-> 0]
  /\ opened = [p \in Peers |-> NoMessage]
  /\ read = {} /\ stored = {}
  /\ status = [m \in Messages |-> "none"]
  /\ faults = 0

-----------------------------------------------------------------------------
(* The double ratchet.                                                      *)

NewDoubleRatchet(remote, key) ==
  [dh |-> key, remote |-> remote, root |-> Secret, send |-> NoChain, recv |-> NoChain,
   sendNum |-> 0, recvNum |-> 0, skipped |-> {}]

\* initializeSenderChains and initializeReceiverChains: one chain for both directions.
initializeChains(r, remote) ==
  LET root == Append(r.root, {r.dh, remote}) IN
  [r EXCEPT !.remote = remote, !.root = root, !.send = root, !.recv = root,
            !.sendNum = 0, !.recvNum = 0]

performDHRatchet(r, remote, key) ==
  LET receiving == Append(r.root, {r.dh, remote})
      sendingRoot == Append(receiving, {key, remote})
  IN [r EXCEPT !.remote = remote, !.dh = key, !.root = sendingRoot,
               !.recv = receiving, !.recvNum = 0, !.send = sendingRoot, !.sendNum = 0]

\* The keys of the messages before number n are kept for late messages.
SkipTo(r, n) ==
  IF n <= r.recvNum THEN r
  ELSE LET new == r.recvNum .. (n - 1) IN
       [r EXCEPT !.skipped = {x \in @ : x[1] \notin new} \cup {<<i, <<r.recv, i>>>> : i \in new},
                 !.recvNum = n]

\* Mutant: the keys of the messages that were passed over are not kept.
SkipForgets(r, n) == IF n <= r.recvNum THEN r ELSE [r EXCEPT !.recvNum = n]

Skip(r, n) == SkipTo(r, n)

\* The result of Decrypt: whether the packet was read, and the ratchet afterwards, which has
\* moved even if it was not.
Decrypt(r, packet, key) ==
  LET a == IF packet.dh # r.remote THEN performDHRatchet(r, packet.dh, key) ELSE r
      b == Skip(a, packet.num)
      late == <<packet.num, packet.key>>
  IN IF packet.num < a.recvNum
       THEN [ok |-> late \in a.skipped, r |-> [a EXCEPT !.skipped = @ \ {late}]]
       ELSE LET good == packet.key = <<b.recv, b.recvNum>> IN
            [ok |-> good, r |-> IF good THEN [b EXCEPT !.recvNum = @ + 1] ELSE b]

-----------------------------------------------------------------------------
(* The key exchange.                                                        *)

\* SendMessage of a conversation with no row in chat_ratchet_state.
InitiateKeyExchange(p, m) ==
  /\ conv[p] /\ pc[p] = "idle" /\ SenderOf[m] = p /\ status[m] = "none"
  /\ disk[p] = {} /\ keys < MaxKeys
  /\ keys' = NewKey
  /\ mem' = [mem EXCEPT ![p] = {NewDoubleRatchet(Other(p), NewKey)}]
  /\ StoreRatchetState(p, mem'[p])
  /\ pc' = [pc EXCEPT ![p] = "exchange"]
  /\ sending' = [sending EXCEPT ![p] = m]
  /\ attempt' = [attempt EXCEPT ![p] = 1]
  /\ offer' = [offer EXCEPT ![p] = NewKey]
  /\ net' = net \cup {Exchange(p, "exchange", NewKey)}
  /\ UNCHANGED <<complete, conv, opened, read, stored, status, faults>>

\* Mutant: the new ratchet is kept beside the one of an earlier exchange.
AcceptBeside(p, r) == mem[p] \cup {r}

\* A new ratchet replaces whatever the peer had for the conversation.
AcceptKeyExchange(p, r) == {r}

HandleChatKeyExchange(packet) ==
  LET p == packet.to
      r == initializeChains(NewDoubleRatchet(packet.dh, NewKey), packet.dh)
  IN
  /\ packet \in net /\ packet.type \in {"exchange", "deferred"} /\ keys < MaxKeys
  /\ keys' = NewKey
  /\ mem' = [mem EXCEPT ![p] = AcceptKeyExchange(p, r)]
  /\ saveRatchetStateComplete(p, {r}, TRUE)
  /\ conv' = [conv EXCEPT ![p] = TRUE]
  /\ net' = (net \ {packet}) \cup
              {IF packet.type = "exchange" THEN Exchange(p, "ack", NewKey)
               ELSE LateAck(p, NewKey, packet.dh)}
  /\ UNCHANGED <<pc, sending, attempt, offer, opened, read, stored, status, faults>>

\* Mutant: the chains are derived with the identity key the ratchet was created with.
CompleteWithIdentity(p, dh) ==
  {[initializeChains(r, r.remote) EXCEPT !.remote = dh] : r \in mem[p]}

CompleteKeyExchange(p, dh) == {initializeChains(r, dh) : r \in mem[p]}

\* The answer on the stream of the exchange: the ratchet is saved as complete, and the
\* message is encrypted next.  Without a ratchet in memory the answer is an error.
FinishExchange(packet) ==
  LET p == packet.to IN
  /\ packet \in net /\ packet.type = "ack" /\ pc[p] = "exchange" /\ mem[p] # {}
  /\ mem' = [mem EXCEPT ![p] = CompleteKeyExchange(p, packet.dh)]
  /\ saveRatchetStateComplete(p, mem'[p], TRUE)
  /\ pc' = [pc EXCEPT ![p] = "encrypt"]
  /\ net' = net \ {packet}
  /\ UNCHANGED <<conv, keys, sending, attempt, offer, opened, read, stored, status, faults>>

\* The stream is one to the peer, or one to its relay.
sendKeyExchangeDirect(packet)   == FinishExchange(packet)
sendKeyExchangeViaRelay(packet) == FinishExchange(packet)

\* No answer in time: its stream is closed, and with it a late answer is lost.  The same
\* exchange is sent again, or SendMessage fails and leaves the row with the unfinished
\* ratchet.
sendKeyExchangeWithRetry(p) ==
  LET others == {x \in net : ~(x.to = p /\ x.type = "ack")} IN
  /\ pc[p] = "exchange" /\ Fault
  /\ IF attempt[p] < MaxAttempts
       THEN /\ attempt' = [attempt EXCEPT ![p] = @ + 1]
            /\ net' = others \cup {Exchange(p, "exchange", offer[p])}
            /\ UNCHANGED <<pc, sending, offer>>
       ELSE /\ attempt' = [attempt EXCEPT ![p] = 0]
            /\ offer' = [offer EXCEPT ![p] = 0]
            /\ pc' = [pc EXCEPT ![p] = "idle"]
            /\ sending' = [sending EXCEPT ![p] = NoMessage]
            /\ net' = others
  /\ UNCHANGED <<ratchets, conv, keys, opened, read, stored, status>>

\* No connection to a public peer: the exchange is left to the local store, and the message
\* is encrypted next, with the unfinished ratchet.
StoreExchange(p) ==
  /\ pc[p] = "exchange" /\ Exchange(p, "exchange", offer[p]) \in net /\ Fault
  /\ net' = (net \ {Exchange(p, "exchange", offer[p])}) \cup {Deferred(p, offer[p])}
  /\ pc' = [pc EXCEPT ![p] = "encrypt"]
  /\ UNCHANGED <<ratchets, conv, keys, sending, attempt, offer, opened, read, stored, status>>

\* deliverKeyExchangeMessage has the answer: it completes the ratchet in memory, whatever the
\* ratchet has done meanwhile.
HandleKeyExchangeAck(packet) ==
  LET p == packet.to IN
  /\ packet \in net /\ packet.type = "lateAck"
  /\ net' = net \ {packet}
  /\ mem' = [mem EXCEPT ![p] = CompleteKeyExchange(p, packet.dh)]
  /\ disk' = [disk EXCEPT ![p] = IF mem[p] = {} THEN @ ELSE mem'[p]]
  /\ complete' = [complete EXCEPT ![p] = @ \/ mem[p] # {}]
  /\ UNCHANGED <<conv, keys, pc, sending, attempt, offer, opened, read, stored, status, faults>>

-----------------------------------------------------------------------------
(* Sending.                                                                 *)

\* SendMessage of a conversation that has a row, complete or not.
SendMessage(p, m) ==
  /\ conv[p] /\ pc[p] = "idle" /\ SenderOf[m] = p /\ status[m] = "none"
  /\ disk[p] # {}
  /\ pc' = [pc EXCEPT ![p] = "encrypt"]
  /\ sending' = [sending EXCEPT ![p] = m]
  /\ UNCHANGED <<ratchets, conv, keys, net, attempt, offer, opened, read, stored, status, faults>>

Encrypt(r) == [r EXCEPT !.sendNum = @ + 1]

saveRatchetState(p) == StoreRatchetState(p, mem'[p])

\* Load, encrypt, save, store as "created", put on the wire.
SendChatMessageWithRetry(p) ==
  /\ pc[p] = "encrypt"
  /\ \E r \in loadRatchetState(p) :
       /\ mem' = [mem EXCEPT ![p] = {Encrypt(r)}]
       /\ net' = net \cup {Chat(p, sending[p], r.dh, r.sendNum, <<r.send, r.sendNum>>)}
  /\ saveRatchetState(p)
  /\ SetMessageStatus(sending[p], "created")
  /\ pc' = [pc EXCEPT ![p] = "sent"]
  /\ UNCHANGED <<complete, conv, keys, sending, attempt, offer, opened, read, stored, faults>>

\* A direct write sets "delivered", a relay or a local store "sent", whatever the answers of
\* the receiver have set meanwhile; no way to the peer sets "failed".
UpdateMessageStatus(p, s) ==
  /\ pc[p] = "sent"
  /\ IF s = "failed"
       THEN /\ Fault
            /\ net' = {x \in net : x.type # "message" \/ x.id # sending[p]}
       ELSE UNCHANGED <<faults, net>>
  /\ SetMessageStatus(sending[p], s)
  /\ pc' = [pc EXCEPT ![p] = "idle"]
  /\ sending' = [sending EXCEPT ![p] = NoMessage]
  /\ attempt' = [attempt EXCEPT ![p] = 0]
  /\ offer' = [offer EXCEPT ![p] = 0]
  /\ UNCHANGED <<ratchets, conv, keys, opened, read, stored>>

sendChatMessageDirect(p)   == UpdateMessageStatus(p, "delivered")
sendChatMessageViaRelay(p) == UpdateMessageStatus(p, "sent")
SendFails(p)               == UpdateMessageStatus(p, "failed")

-----------------------------------------------------------------------------
(* Receiving.                                                               *)

\* The key a ratchet would answer with is used up by a packet that carries a new one.
Decrypt1on1Message(r, packet) == Decrypt(r, packet, NewKey)

\* Under the lock of the conversation.  A packet that cannot be read leaves the ratchet it
\* has moved in memory and the row as it was; one that can be read is saved, with the
\* exchange marked as not complete.
HandleChatMessage(packet) ==
  LET p == packet.to IN
  /\ packet \in net /\ packet.type = "message" /\ opened[p] = NoMessage
  /\ net' = net \ {packet}
  /\ \/ /\ loadRatchetState(p) = {} /\ UNCHANGED <<ratchets, keys, opened, read>>
     \/ \E r \in loadRatchetState(p) :
          LET d == Decrypt1on1Message(r, packet) IN
          /\ packet.dh # r.remote => keys < MaxKeys
          /\ keys' = IF packet.dh # r.remote THEN NewKey ELSE keys
          /\ mem' = [mem EXCEPT ![p] = {d.r}]
          /\ \/ /\ d.ok
                /\ saveRatchetStateComplete(p, {d.r}, FALSE)
                /\ opened' = [opened EXCEPT ![p] = packet.id]
                /\ read' = read \cup {packet.id}
             \/ /\ ~d.ok
                /\ UNCHANGED <<disk, complete, opened, read>>
  /\ UNCHANGED <<conv, pc, sending, attempt, offer, stored, status, faults>>

\* message_id is a primary key.
StoreMessage(m) == stored' = stored \cup {m}

SendDeliveryConfirmation(p, m) == net' = net \cup {[to |-> Other(p), type |-> "confirm", id |-> m]}

\* A message that is stored already is not confirmed again.
StoreAndConfirm(p) ==
  /\ opened[p] # NoMessage
  /\ opened' = [opened EXCEPT ![p] = NoMessage]
  /\ StoreMessage(opened[p])
  /\ IF opened[p] \in stored THEN UNCHANGED net ELSE SendDeliveryConfirmation(p, opened[p])
  /\ UNCHANGED <<ratchets, conv, keys, pc, sending, attempt, offer, read, status, faults>>

HandleChatDeliveryConfirmation(packet) ==
  /\ packet \in net /\ packet.type = "confirm"
  /\ net' = net \ {packet}
  /\ SetMessageStatus(packet.id, "delivered")
  /\ UNCHANGED <<ratchets, conv, keys, pc, sending, attempt, offer, opened, read, stored, faults>>

-----------------------------------------------------------------------------
(* Faults.                                                                  *)

\* A relay that writes twice: a message handled and still on its way.
Repeated(packet) ==
  /\ packet \in net /\ packet.type = "message" /\ Fault
  /\ LET p == packet.to IN
     \E r \in loadRatchetState(p) :
       LET d == Decrypt1on1Message(r, packet) IN
       /\ packet.dh = r.remote /\ d.ok /\ opened[p] = NoMessage
       /\ mem' = [mem EXCEPT ![p] = {d.r}]
       /\ saveRatchetStateComplete(p, {d.r}, FALSE)
       /\ opened' = [opened EXCEPT ![p] = packet.id]
  /\ read' = read \cup {packet.id}
  /\ UNCHANGED <<conv, keys, net, pc, sending, attempt, offer, stored, status>>

\* The local store delivers an exchange again whose answer it did not handle.
Crash(p) ==
  /\ Fault
  /\ mem' = [mem EXCEPT ![p] = {}]
  /\ pc' = [pc EXCEPT ![p] = "idle"]
  /\ sending' = [sending EXCEPT ![p] = NoMessage]
  /\ attempt' = [attempt EXCEPT ![p] = 0]
  /\ offer' = [offer EXCEPT ![p] = 0]
  /\ opened' = [opened EXCEPT ![p] = NoMessage]
  /\ net' = {x \in net : ~(x.to = p /\ x.type \in {"ack", "lateAck"})}
              \cup {Deferred(p, x.offered) : x \in {y \in net : y.to = p /\ y.type = "lateAck"}}
  /\ UNCHANGED <<disk, complete, conv, keys, read, stored, status>>

RatchetNext ==
  \/ \E p \in Peers :
       \/ \E m \in Messages : InitiateKeyExchange(p, m) \/ SendMessage(p, m)
       \/ sendKeyExchangeWithRetry(p) \/ StoreExchange(p)
       \/ SendChatMessageWithRetry(p) \/ StoreAndConfirm(p)
       \/ Crash(p)
       \/ sendChatMessageDirect(p) \/ sendChatMessageViaRelay(p) \/ SendFails(p)
  \/ \E packet \in net :
       \/ HandleChatKeyExchange(packet) \/ HandleKeyExchangeAck(packet)
       \/ sendKeyExchangeDirect(packet) \/ sendKeyExchangeViaRelay(packet)
       \/ HandleChatMessage(packet) \/ HandleChatDeliveryConfirmation(packet)
       \/ Repeated(packet)
-----------------------------------------------------------------------------
(* Properties.                                                              *)

RatchetTypeOK ==
  /\ \A p \in Peers : Cardinality(mem[p]) <= 1 /\ Cardinality(disk[p]) <= 1
  /\ complete \in [Peers -> BOOLEAN] /\ conv \in [Peers -> BOOLEAN]
  /\ keys \in 2 .. MaxKeys
  /\ \A x \in net : x.to \in Peers
                    /\ x.type \in {"exchange", "ack", "deferred", "lateAck", "message", "confirm"}
  /\ pc \in [Peers -> {"idle", "exchange", "encrypt", "sent"}]
  /\ sending \in [Peers -> Messages \cup {NoMessage}]
  /\ attempt \in [Peers -> 0 .. MaxAttempts] /\ offer \in [Peers -> 0 .. MaxKeys]
  /\ opened \in [Peers -> Messages \cup {NoMessage}]
  /\ stored \subseteq read /\ read \subseteq Messages
  /\ status \in [Messages -> {"none", "created", "sent", "delivered", "failed"}]
  /\ faults \in 0 .. MaxFaults
  /\ \A p \in Peers : pc[p] = "encrypt" => loadRatchetState(p) # {}

\* Two ratchets that hold each other's public keys agree on the chains, after answers that
\* were lost, an exchange that was sent again and accepted twice, and crashes.
InStepMeansSameChains ==
  \A r \in loadRatchetState(1), q \in loadRatchetState(2) :
    (complete[1] /\ complete[2] /\ r.remote = q.dh /\ q.remote = r.dh)
      => (r.send = q.recv /\ q.send = r.recv)

\* No number is used for two messages of a chain: not after a crash, and not while messages
\* of the other peer move the same ratchet.
NumbersAreUsedOnce ==
  \A p \in Peers : \A r \in loadRatchetState(p) : \A x \in net :
    (x.type = "message" /\ x.to = Other(p) /\ x.dh = r.dh /\ x.key[1] = r.send)
      => x.num < r.sendNum

\* The receiver still has, or can derive, the key of every message on its way in the current
\* chain that it has not read, whatever the order in which the others were read, through
\* packets that come twice and crashes.
KeysAreKept ==
  \A x \in net : x.type = "message" =>
    \A r \in loadRatchetState(x.to) :
      (x.dh = r.remote /\ x.key[1] = r.recv /\ x.id \notin read)
        => (x.num >= r.recvNum \/ <<x.num, x.key>> \in r.skipped)

\* Every message has a key of its own, and its receiver can derive it (Encrypt and Decrypt of
\* double_ratchet.go, saveRatchetState of chat_handler.go).
RatchetKeysFit == NumbersAreUsedOnce /\ KeysAreKept
=============================================================================
