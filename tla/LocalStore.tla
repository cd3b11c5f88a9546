----------------------------- MODULE LocalStore -----------------------------
(***************************************************************************)
(* Sending to a peer, and the store of the messages that could not be sent *)
(* (SendMessageToPeer of internal/p2p/quic.go,                             *)
(* internal/p2p/local_store_forward.go and                                 *)
(* internal/database/local_store.go).                                      *)
(*                                                                         *)
(* A message for a public peer that is not connected becomes a row; rows   *)
(* are delivered when the peer connects, and by a ticker.  A delivery that *)
(* finds the peer gone stores its message again, as a new row.             *)
(***************************************************************************)
EXTENDS Connections

CONSTANTS Messages,   \* each is sent once, by a goroutine of the same name
          To,         \* its peer
          Workers,    \* goroutines of DeliverPendingMessages
          Pingers,    \* goroutines that only connect
          Rows,       \* row identifiers 1 .. n, a bound on stored copies
          MaxUsage,   \* local_store_max_messages
          MaxAttempts,\* local_store_max_attempts
          GiveUpAfter,\* attempts after which the type of the peer is looked at again
          MaxFaults,  \* bound on ends of connections, changes of type, restarts
          NoMessage

ASSUME LocalStoreAssumption ==
  /\ \A m \in Messages : To[m] \in Peers
  /\ Messages \cup Workers \cup Pingers = Threads
  /\ Messages \cap Workers = {} /\ (Messages \cup Workers) \cap Pingers = {}
  /\ NoMessage \notin Messages /\ IsFiniteSet(Workers)
  /\ {MaxUsage, MaxAttempts, GiveUpAfter, MaxFaults} \subseteq Nat
  /\ Rows \subseteq Nat \ {0} /\ IsFiniteSet(Rows)

VARIABLES
  public,   \* peers whose metadata says public
  row,      \* local_pending_messages
  usage,    \* message_count of local_storage_limits, all for one peer in the instance
  todo,     \* rows a worker has read and not yet handled, with their attempts then
  job,      \* the row it is on, likewise
  reply,    \* what SendMessageToPeer returned for a message
  written,  \* messages written to a connection
  faults

storeVars == <<public, row, usage, todo, job, reply, written, faults>>
vars      == <<connVars, storeVars>>

NoRow == [m |-> NoMessage, status |-> "none", attempts |-> 0]

Init ==
  /\ ConnInit
  /\ public = Peers
  /\ row = [r \in Rows |-> NoRow]
  /\ usage = 0
  /\ todo = [w \in Workers |-> {}] /\ job = [w \in Workers |-> <<0, 0>>]
  /\ reply = [m \in Messages |-> "none"]
  /\ written = {}
  /\ faults = 0

Fault == faults < MaxFaults /\ faults' = faults + 1

Pending(p) == {r \in Rows : row[r].status = "pending" /\ To[row[r].m] = p}

\* The message a goroutine is sending.
Carried(t) == IF t \in Workers THEN row[job[t][1]].m ELSE t

-----------------------------------------------------------------------------
(* Storing.                                                                 *)

\* The metadata, or the answer the cache has kept from when the peer was public.
IsPublicPeer(p) == IF p \notin known THEN {} ELSE {TRUE} \cup {(p \in public)}

\* IsPublicPeer and CanStoreMessage
Storable(p) == TRUE \in IsPublicPeer(p) /\ usage < MaxUsage
Refusable(p) == IsPublicPeer(p) = {} \/ FALSE \in IsPublicPeer(p) \/ usage >= MaxUsage

StorePendingMessage(m) ==
  \E r \in Rows : /\ row[r] = NoRow /\ \A s \in Rows : row[s] = NoRow => r <= s
                  /\ row' = [row EXCEPT ![r] = [m |-> m, status |-> "pending", attempts |-> 0]]

IncrementStorageUsage == usage' = usage + 1

StoreMessage(m) == StorePendingMessage(m) /\ IncrementStorageUsage

-----------------------------------------------------------------------------
(* Sending.                                                                 *)

\* The end of SendMessageToPeer for a message.
Answer(t, ok) ==
  /\ reply' = IF t \in Messages THEN [reply EXCEPT ![t] = IF ok THEN "ok" ELSE "error"] ELSE reply
  /\ pc' = [pc EXCEPT ![t] = IF t \in Workers THEN IF ok THEN "sent" ELSE "failed" ELSE "over"]

\* SendMessageToPeer: to the address of the peer, or into the store.
SendMessageToPeer(t) ==
  LET m == Carried(t) IN
  /\ \/ t \in Messages /\ pc[t] = "idle"
     \/ t \in Workers /\ pc[t] = "send"
  /\ \/ /\ Connected(To[m])
        /\ at' = [at EXCEPT ![t] = peerConnections[To[m]]]
        /\ pc' = [pc EXCEPT ![t] = "connect"]
        /\ UNCHANGED <<row, usage, reply>>
     \/ /\ ~Connected(To[m]) /\ Storable(To[m]) /\ StoreMessage(m)
        /\ Answer(t, TRUE) /\ UNCHANGED at
     \/ /\ ~Connected(To[m]) /\ Refusable(To[m])
        /\ Answer(t, FALSE) /\ UNCHANGED <<at, row, usage>>
  /\ UNCHANGED <<table, known, stage, addrOf, up, conn, arrived, public, todo, job, written, faults>>

\* SendMessage: a stream and a write on the connection it got.
SendMessage(t) ==
  /\ t \notin Pingers
  /\ \/ /\ pc[t] = "write" /\ conn[t] \in up
        /\ written' = written \cup {Carried(t)}
        /\ Answer(t, TRUE)
     \/ /\ pc[t] = "error" \/ (pc[t] = "write" /\ conn[t] \notin up)
        /\ Answer(t, FALSE) /\ UNCHANGED written
  /\ UNCHANGED <<table, known, stage, addrOf, up, at, conn, arrived, public, row, usage, todo,
                 job, faults>>

\* ensureConnection, a relay's latency measurement, discovery: they connect and write nothing.
Ping(t, p) ==
  /\ t \in Pingers /\ pc[t] = "idle"
  /\ at' = [at EXCEPT ![t] = Listening[p]]
  /\ pc' = [pc EXCEPT ![t] = "connect"]
  /\ UNCHANGED <<table, known, stage, addrOf, up, conn, arrived, storeVars>>

-----------------------------------------------------------------------------
(* Delivery.                                                                *)

\* Mutant: a row that was never tried is not stalled.
TriedBefore(p) == \E r \in Pending(p) : row[r].attempts \in 1 .. MaxAttempts - 1

\* The limit of attempts is also a constant of the query.
GetPeersWithStalledMessages(p) == \E r \in Pending(p) : row[r].attempts < MaxAttempts

\* DeliverPendingMessages reads the rows of a peer that is connected.
StartDelivery(w, p) ==
  /\ pc[w] = "idle"
  /\ Connected(p) /\ Pending(p) # {}
  /\ todo' = [todo EXCEPT ![w] = {<<r, row[r].attempts>> : r \in Pending(p)}]
  /\ pc' = [pc EXCEPT ![w] = "next"]

OnPeerConnected(w, p) ==
  /\ p \in arrived
  /\ arrived' = arrived \ {p}
  /\ \/ StartDelivery(w, p)
     \/ ~(Connected(p) /\ Pending(p) # {}) /\ UNCHANGED <<todo, pc>>
  /\ UNCHANGED <<table, known, stage, addrOf, up, at, conn, public, row, usage, job, reply,
                 written, faults>>

runPeriodicDeliveryAttempts(w, p) ==
  /\ GetPeersWithStalledMessages(p)
  /\ StartDelivery(w, p)
  /\ UNCHANGED <<table, known, stage, addrOf, up, at, conn, arrived, public, row, usage, job,
                 reply, written, faults>>

\* An update of a row that was deleted changes nothing.
MarkMessage(r, s) == row' = [row EXCEPT ![r].status = IF @ = "expired" THEN @ ELSE s]

\* Mutant: the count has no lower limit.
DecrementBelowZero == usage' = usage - 1

DecrementStorageUsage == usage' = IF usage = 0 THEN 0 ELSE usage - 1

\* The next row.  The attempt is counted before the connection is looked at; a peer that has
\* gone ends the round.
DeliverPendingMessages(w) ==
  \E x \in todo[w] :
    LET r == x[1] IN
    /\ pc[w] = "next"
    /\ \A y \in todo[w] : r <= y[1]
    /\ IF x[2] >= MaxAttempts
         THEN /\ MarkMessage(r, "failed") /\ DecrementStorageUsage
              /\ todo' = [todo EXCEPT ![w] = @ \ {x}]
              /\ UNCHANGED <<pc, job>>
         ELSE /\ row' = [row EXCEPT ![r].attempts = @ + 1]
              /\ IF Connected(To[row[r].m])
                   THEN /\ job' = [job EXCEPT ![w] = x]
                        /\ pc' = [pc EXCEPT ![w] = "send"]
                        /\ todo' = [todo EXCEPT ![w] = @ \ {x}]
                   ELSE /\ todo' = [todo EXCEPT ![w] = {}] /\ UNCHANGED <<pc, job>>
              /\ UNCHANGED usage
    /\ UNCHANGED <<table, known, stage, addrOf, up, at, conn, arrived, public, reply, written,
                   faults>>

\* Mutant: the row is marked whatever the delivery returned.
MarkAnyway(w) ==
  /\ pc[w] \in {"sent", "failed"}
  /\ MarkMessage(job[w][1], "delivered") /\ DecrementStorageUsage

\* After the delivery of a row: delivered, left for another round, or given up because the
\* peer is behind NAT now.
AfterDelivery(w) ==
  LET r == job[w][1] IN
  \/ /\ pc[w] = "sent"
     /\ MarkMessage(r, "delivered") /\ DecrementStorageUsage
  \/ pc[w] = "failed" /\ UNCHANGED <<row, usage>>
  \/ /\ pc[w] = "failed" /\ job[w][2] + 1 >= GiveUpAfter
     /\ FALSE \in IsPublicPeer(To[row[r].m])
     /\ MarkMessage(r, "failed") /\ DecrementStorageUsage

EndOfRow(w) ==
  /\ AfterDelivery(w)
  /\ pc' = [pc EXCEPT ![w] = "next"]
  /\ job' = [job EXCEPT ![w] = <<0, 0>>]
  /\ at' = [at EXCEPT ![w] = NoAddr] /\ conn' = [conn EXCEPT ![w] = NoConn]
  /\ UNCHANGED <<table, known, stage, addrOf, up, arrived, public, todo, reply, written, faults>>

EndOfRound(w) ==
  /\ pc[w] = "next" /\ todo[w] = {}
  /\ pc' = [pc EXCEPT ![w] = "idle"]
  /\ UNCHANGED <<table, known, stage, addrOf, up, at, conn, arrived, storeVars>>

-----------------------------------------------------------------------------
(* Faults.                                                                  *)

ConnectionEnds ==
  /\ Fault
  /\ \/ \E c \in Conns : Closes(c)
     \/ \E a \in Addrs : DisconnectFromPeer(a)
  /\ UNCHANGED <<public, row, usage, todo, job, reply, written>>

TypeChanges(p) ==
  /\ Fault /\ p \in public
  /\ public' = public \ {p}
  /\ UNCHANGED <<connVars, row, usage, todo, job, reply, written>>

\* runMessageCleanup: an expired row is deleted, and stays in the usage.
DeleteExpiredMessages(r) ==
  /\ Fault /\ row[r].status \in {"pending", "failed"}
  /\ row' = [row EXCEPT ![r].status = "expired"]
  /\ UNCHANGED <<connVars, public, usage, todo, job, reply, written>>

\* The process is started again: only the rows are left, and known_peers is not one of them.
Restart ==
  /\ Fault
  /\ connections' = [a \in Addrs |-> NoEntry]
  /\ peerConnections' = [p \in Peers |-> NoAddr]
  /\ known' = {} /\ arrived' = {} /\ up' = {}
  /\ stage' = [c \in Conns |-> IF stage[c] = "none" THEN "none" ELSE "over"]
  /\ addrOf' = addrOf
  /\ pc' = [t \in Threads |-> IF t \in Workers THEN "idle" ELSE "over"]
  /\ at' = [t \in Threads |-> NoAddr] /\ conn' = [t \in Threads |-> NoConn]
  /\ todo' = [w \in Workers |-> {}] /\ job' = [w \in Workers |-> <<0, 0>>]
  /\ UNCHANGED <<public, row, usage, reply, written>>

Step(t) == ConnectToPeer(t) \/ Dial(t) \/ PerformHandshake(t)

Work(w) ==
  \/ Step(w) /\ UNCHANGED storeVars
  \/ SendMessageToPeer(w) \/ SendMessage(w) \/ DeliverPendingMessages(w)
  \/ EndOfRow(w) \/ EndOfRound(w)

Serve(c) == (handleConnection(c) \/ enterIncoming(c) \/ monitorConnection(c)) /\ UNCHANGED storeVars

Next ==
  \/ \E w \in Workers : Work(w)
  \/ \E w \in Workers, p \in Peers : OnPeerConnected(w, p) \/ runPeriodicDeliveryAttempts(w, p)
  \/ \E t \in Messages : SendMessageToPeer(t) \/ SendMessage(t)
  \/ \E t \in Messages \cup Pingers : Step(t) /\ UNCHANGED storeVars
  \/ \E t \in Pingers, p \in Peers : Ping(t, p)
  \/ \E c \in Conns : Serve(c)
  \/ \E c \in Conns, a \in Incoming : acceptConnections(c, a) /\ UNCHANGED storeVars
  \/ \E p \in Peers : (storeReceivedPeers(p) /\ UNCHANGED storeVars) \/ TypeChanges(p)
  \/ \E r \in Rows : DeleteExpiredMessages(r)
  \/ ConnectionEnds \/ Restart

Spec == Init /\ [][Next]_vars

\* Goroutines run on, and the ticker starts a round when a worker is free.
Fairness ==
  /\ \A w \in Workers : WF_vars(Work(w))
  /\ \A p \in Peers : WF_vars(\E w \in Workers : runPeriodicDeliveryAttempts(w, p))
  /\ \A c \in Conns : WF_vars(Serve(c))
  /\ \A t \in Messages \cup Pingers : WF_vars(Step(t) /\ UNCHANGED storeVars)

FairSpec == Spec /\ Fairness

-----------------------------------------------------------------------------
(* Properties.                                                              *)

\* The types of the table, the goroutines and the rows.
TypeOK ==
  /\ ConnTypeOK
  /\ public \subseteq Peers
  /\ \A r \in Rows : /\ row[r].m \in Messages \cup {NoMessage}
                     /\ row[r].status \in {"none", "pending", "delivered", "failed", "expired"}
                     /\ row[r].attempts \in 0 .. MaxAttempts + Cardinality(Workers)
  /\ usage \in 0 .. Cardinality(Rows)
  /\ \A w \in Workers : /\ job[w][1] \in Rows \cup {0}
                        /\ \A x \in todo[w] : x[1] \in Rows /\ x[2] <= row[x[1]].attempts
  /\ reply \in [Messages -> {"none", "ok", "error"}]
  /\ written \subseteq Messages /\ faults \in 0 .. MaxFaults

\* A message that SendMessageToPeer has accepted was written to a connection of its peer, or
\* has a row that is pending or was given up: it is not lost between rows when a delivery
\* stores it again, when two rounds handle the same row, or at a restart.
AcceptedIsKept ==
  \A m \in Messages : reply[m] = "ok" =>
    m \in written \/ \E r \in Rows : row[r].m = m /\ row[r].status \in {"pending", "failed", "expired"}

\* A row of a peer that stays connected does not wait: it is delivered, given up, or tried
\* as often as the limit allows.
StoredReachesTheConnected ==
  \A p \in Peers : <>[]Connected(p) =>
    \A r \in Rows : (r \in Pending(p)) ~> (r \notin Pending(p) \/ row[r].attempts >= MaxAttempts)
=============================================================================
