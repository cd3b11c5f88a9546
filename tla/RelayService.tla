---------------------------- MODULE RelayService ----------------------------
(***************************************************************************)
(* A node in relay mode (internal/p2p/relay.go, internal/database/relay.go)*)
(* and one client behind a NAT.  The client registers a session, opens a   *)
(* receive stream, keeps the session alive and disconnects; other peers    *)
(* forward messages, which the relay writes to the client's stream or      *)
(* keeps in a table until the client is back.                              *)
(*                                                                         *)
(* sessions is indexed by session id.  registeredClients and clientSessions*)
(* are indexed by peer id when a session is added and by DHT node id when  *)
(* one is removed: their entries are never removed.                        *)
(***************************************************************************)
EXTENDS Integers, FiniteSets

CONSTANTS Sessions,       \* session ids
          NoSession,
          MaxConnections, \* relay_max_connections
          Messages,       \* what other peers send to the client
          Rows,           \* ids of relay_pending_messages (bound)
          MaxStored,      \* relay_store_max_messages
          QueryLimit,     \* LIMIT of GetPendingMessagesForPeer
          Forwarders,     \* goroutines of handleRelayRequest
          Deliverers,     \* goroutines of deliverPendingMessages
          NoMessage, NoRow,
          MaxFaults       \* bound on faults

ASSUME RelayConstantsAssumption ==
  /\ NoSession \notin Sessions /\ NoMessage \notin Messages /\ NoRow \notin Rows
  /\ IsFiniteSet(Sessions) /\ IsFiniteSet(Rows)
  /\ IsFiniteSet(Forwarders) /\ IsFiniteSet(Deliverers)
  /\ {MaxConnections, MaxStored, QueryLimit, MaxFaults} \subseteq Nat
  /\ Forwarders \cap Deliverers = {}

VARIABLES
  sessions,   \* RelayPeer.sessions
  streams,    \* sessions whose ReceiveStream is set
  registered, \* registeredClients of the client
  stuck,      \* sessionsMutex is held by a goroutine that waits for it
  link,       \* the QUIC connection of each session; "silent": dead and not noticed
  ending,     \* relay_disconnect messages on their way
  ready,      \* relay_receive_stream_ready messages on their way
  rows,       \* relay_pending_messages
  usage,      \* relay_storage_limits.message_count of the client
  rpc,        \* forwardDataToTarget in each goroutine
  rmsg,       \* its message
  rsess,      \* the session whose stream it has read
  todo,       \* the messages deliverPendingMessages has read and not yet handled
  now,        \* the one it works on
  done,       \* its count of delivered messages
  confirmed,  \* messages whose sender was told "success"
  received,   \* messages the client has read
  gone,       \* messages that expired or were written to a silent connection
  faults

table    == <<rows, usage>>
routine  == <<rpc, rmsg, rsess, todo, now, done>>
service  == <<sessions, streams, registered, stuck>>
outcome  == <<confirmed, received, gone>>
relayVars == <<service, link, ending, ready, table, routine, outcome, faults>>

Routines == Forwarders \cup Deliverers
Row      == [status : {"free", "pending", "delivered"}, msg : Messages \cup {NoMessage}]

ServiceTypeOK ==
  /\ sessions \subseteq Sessions
  /\ streams \subseteq Sessions
  /\ registered \in Sessions \cup {NoSession}
  /\ stuck \in BOOLEAN
  /\ link \in [Sessions -> {"none", "up", "silent", "down"}]
  /\ ending \subseteq Sessions
  /\ ready \subseteq Sessions
  /\ rows \in [Rows -> Row]
  /\ usage \in 0 .. MaxStored + Cardinality(Routines)
  /\ rpc \in [Routines -> {"idle", "next", "find", "write", "quota", "insert",
                           "count", "return"}]
  /\ rmsg \in [Routines -> Messages \cup {NoMessage}]
  /\ rsess \in [Routines -> Sessions \cup {NoSession}]
  /\ todo \in [Deliverers -> SUBSET (Rows \X Messages)]
  /\ now \in [Deliverers -> Rows \cup {NoRow}]
  /\ done \in [Deliverers -> 0 .. Cardinality(Rows)]
  /\ {confirmed, received, gone} \subseteq SUBSET Messages
  /\ faults \in 0 .. MaxFaults

Free == [status |-> "free", msg |-> NoMessage]

ServiceInit ==
  /\ sessions = {}
  /\ streams = {}
  /\ registered = NoSession
  /\ stuck = FALSE
  /\ link = [s \in Sessions |-> "none"]
  /\ ending = {} /\ ready = {}
  /\ rows = [r \in Rows |-> Free] /\ usage = 0
  /\ rpc = [r \in Routines |-> "idle"]
  /\ rmsg = [r \in Routines |-> NoMessage]
  /\ rsess = [r \in Routines |-> NoSession]
  /\ todo = [d \in Deliverers |-> {}] /\ now = [d \in Deliverers |-> NoRow]
  /\ done = [d \in Deliverers |-> 0]
  /\ confirmed = {} /\ received = {} /\ gone = {}
  /\ faults = 0

Fault == faults < MaxFaults /\ faults' = faults + 1

-----------------------------------------------------------------------------
(* Sessions.                                                                *)

Unused == {s \in Sessions : link[s] = "none"}
FreshSession == CHOOSE s \in Unused : TRUE

\* A registration that is accepted: the new session replaces the client's in
\* registeredClients, the old one stays in sessions until it is ended or times out.
HandleRelayRegister(s) ==
  /\ ~stuck /\ Unused # {}
  /\ Cardinality(sessions) < MaxConnections
  /\ s = FreshSession
  /\ sessions' = sessions \cup {s}
  /\ registered' = s
  /\ UNCHANGED <<streams, stuck>>

RegisterRefused == ~stuck /\ Cardinality(sessions) >= MaxConnections

Pending == {n \in Rows : rows[n].status = "pending"}

\* The rows a query of deliverPendingMessages may return.
GetPendingMessagesForPeer ==
  {batch \in SUBSET Pending :
     Cardinality(batch) = IF Cardinality(Pending) < QueryLimit
                          THEN Cardinality(Pending) ELSE QueryLimit}

\* Mutant: the delivery starts and the stream is not kept.
DeliverBeforeStream(s) ==
  /\ s \in ready
  /\ ready' = ready \ {s}
  /\ \/ /\ registered = s
        /\ UNCHANGED streams
        /\ \E batch \in GetPendingMessagesForPeer :
             \/ batch = {} /\ UNCHANGED <<rpc, todo>>
             \/ \E d \in Deliverers :
                  /\ batch # {} /\ rpc[d] = "idle"
                  /\ rpc' = [rpc EXCEPT ![d] = "next"]
                  /\ todo' = [todo EXCEPT ![d] = {<<n, rows[n].msg>> : n \in batch}]
     \/ /\ registered # s
        /\ UNCHANGED <<streams, rpc, todo>>
  /\ UNCHANGED <<sessions, registered, stuck, link, ending, table, rmsg, rsess,
                 now, done, outcome, faults>>

\* The stream is kept only when it belongs to the session registered last; a goroutine then
\* asks for the stored messages.
HandleRelayReceiveStreamReady(s) ==
  /\ s \in ready
  /\ ready' = ready \ {s}
  /\ \/ /\ registered = s
        /\ streams' = streams \cup {s}
        /\ \E batch \in GetPendingMessagesForPeer :
             \/ batch = {} /\ UNCHANGED <<rpc, todo>>
             \/ \E d \in Deliverers :
                  /\ batch # {} /\ rpc[d] = "idle"
                  /\ rpc' = [rpc EXCEPT ![d] = "next"]
                  /\ todo' = [todo EXCEPT ![d] = {<<n, rows[n].msg>> : n \in batch}]
     \/ /\ registered # s
        /\ UNCHANGED <<streams, rpc, todo>>
  /\ UNCHANGED <<sessions, registered, stuck, link, ending, table, rmsg, rsess,
                 now, done, outcome, faults>>

\* The session is taken out of the map under the lock, and its payment is settled or
\* refunded by the bytes the client reports (Escrow).
HandleRelayDisconnect(s) ==
  /\ ~stuck /\ s \in ending
  /\ ending' = ending \ {s}
  /\ sessions' = sessions \ {s}
  /\ UNCHANGED <<streams, registered, stuck, link, ready, table, routine, outcome, faults>>

\* monitorSession: four intervals without a keepalive or a forwarded message, because the
\* connection is dead or because they were all lost.  The payment of the session is neither
\* settled nor refunded.
terminateSession(s) ==
  /\ ~stuck /\ s \in sessions
  /\ IF link[s] = "up" THEN Fault ELSE UNCHANGED faults
  /\ sessions' = sessions \ {s}
  /\ UNCHANGED <<streams, registered, stuck, link, ending, ready, table, routine, outcome>>

\* The operator ends a session: DisconnectSession holds sessionsMutex and calls
\* terminateSession, which waits for it.
DisconnectSession(s) ==
  /\ ~stuck /\ s \in sessions
  /\ Fault
  /\ stuck' = TRUE
  /\ UNCHANGED <<sessions, streams, registered, link, ending, ready, table, routine,
                 outcome>>

-----------------------------------------------------------------------------
(* Forwarding, by the goroutine r of a request or of deliverPendingMessages. *)

Goto(r, pc) == rpc' = [rpc EXCEPT ![r] = pc]

\* A peer forwards m.  A session that is gone is no obstacle, and one that exists counts as
\* alive, whoever sends.
handleRelayRequest(r, m) ==
  /\ ~stuck /\ r \in Forwarders /\ rpc[r] = "idle"
  /\ m \notin confirmed
  /\ rmsg' = [rmsg EXCEPT ![r] = m]
  /\ Goto(r, "find")
  /\ UNCHANGED <<service, link, ending, ready, table, rsess, todo, now, done, outcome,
                 faults>>

forwardDataToTarget(r) ==
  /\ rpc[r] = "find"
  /\ IF registered \in streams
       THEN Goto(r, "write") /\ rsess' = [rsess EXCEPT ![r] = registered]
       ELSE Goto(r, "quota") /\ UNCHANGED rsess
  /\ UNCHANGED <<service, link, ending, ready, table, rmsg, todo, now, done, outcome,
                 faults>>

\* The write, under the lock of the session.  A broken stream is forgotten.
WriteToStream(r) ==
  /\ rpc[r] = "write"
  /\ LET s == rsess[r] IN
     \/ /\ link[s] = "up"
        /\ received' = received \cup {rmsg[r]}
        /\ Goto(r, "return") /\ UNCHANGED <<streams, gone>>
     \/ /\ link[s] = "silent"
        /\ gone' = gone \cup {rmsg[r]}
        /\ Goto(r, "return") /\ UNCHANGED <<streams, received>>
     \/ /\ link[s] = "down"
        /\ streams' = streams \ {s}
        /\ Goto(r, "quota") /\ UNCHANGED <<received, gone>>
  /\ rsess' = [rsess EXCEPT ![r] = NoSession]
  /\ UNCHANGED <<sessions, registered, stuck, link, ending, ready, table, rmsg, todo,
                 now, done, confirmed, faults>>

\* The end of a forwarding that failed: the peer is told "error", the row is tried later.
Fails(r) ==
  IF r \in Deliverers
    THEN Goto(r, "next") /\ now' = [now EXCEPT ![r] = NoRow] /\ UNCHANGED rmsg
    ELSE Goto(r, "idle") /\ rmsg' = [rmsg EXCEPT ![r] = NoMessage] /\ UNCHANGED now

\* Mutant: tryStoreAndForward returns nil also when the message was not stored.
StoreRefusedIgnored(r) == Goto(r, "return") /\ UNCHANGED <<now, rmsg>>

StoreRefused(r) == Fails(r)

\* tryStoreAndForward: canStoreMessage looks at the usage, the row is inserted later.
canStoreMessage(r) ==
  /\ rpc[r] = "quota"
  /\ IF usage < MaxStored THEN Goto(r, "insert") /\ UNCHANGED <<now, rmsg>>
     ELSE StoreRefused(r)
  /\ UNCHANGED <<service, link, ending, ready, table, rsess, todo, done, outcome,
                 faults>>

StorePendingMessage(r) ==
  /\ rpc[r] = "insert"
  /\ \E n \in Rows : rows[n].status = "free"
  /\ LET n == CHOOSE x \in Rows : rows[x].status = "free" IN
       rows' = [rows EXCEPT ![n] = [status |-> "pending", msg |-> rmsg[r]]]
  /\ Goto(r, "count")
  /\ UNCHANGED <<service, link, ending, ready, usage, rmsg, rsess, todo, now, done,
                 outcome, faults>>

IncrementStorageUsage(r) ==
  /\ rpc[r] = "count"
  /\ usage' = usage + 1
  /\ Goto(r, "return")
  /\ UNCHANGED <<service, link, ending, ready, rows, rmsg, rsess, todo, now, done,
                 outcome, faults>>

\* handleRelayRequest answers "success" for what was written and for what was stored.
AnswerSuccess(r) ==
  /\ r \in Forwarders /\ rpc[r] = "return"
  /\ confirmed' = confirmed \cup {rmsg[r]}
  /\ rmsg' = [rmsg EXCEPT ![r] = NoMessage]
  /\ Goto(r, "idle")
  /\ UNCHANGED <<service, link, ending, ready, table, rsess, todo, now, done, received,
                 gone, faults>>

-----------------------------------------------------------------------------
(* deliverPendingMessages.                                                  *)

deliverPendingMessages(d) ==
  /\ d \in Deliverers /\ rpc[d] = "next" /\ todo[d] # {}
  /\ \E x \in todo[d] :
       /\ todo' = [todo EXCEPT ![d] = @ \ {x}]
       /\ now' = [now EXCEPT ![d] = x[1]]
       /\ rmsg' = [rmsg EXCEPT ![d] = x[2]]
  /\ Goto(d, "find")
  /\ UNCHANGED <<service, link, ending, ready, table, rsess, done, outcome, faults>>

\* Also a message that could only be stored again counts as delivered: its new row stays.
MarkMessageDelivered(d) ==
  /\ d \in Deliverers /\ rpc[d] = "return"
  /\ rows' = [n \in Rows |-> IF n = now[d] /\ rows[n].msg = rmsg[d]
                             THEN [rows[n] EXCEPT !.status = "delivered"] ELSE rows[n]]
  /\ done' = [done EXCEPT ![d] = @ + 1]
  /\ now' = [now EXCEPT ![d] = NoRow]
  /\ Goto(d, "next")
  /\ UNCHANGED <<service, link, ending, ready, usage, rmsg, rsess, todo, outcome, faults>>

\* Mutant: MAX(0, ...) is left out.
DecrementBelowZero(d) ==
  /\ d \in Deliverers /\ rpc[d] = "next" /\ todo[d] = {}
  /\ usage' = usage - done[d]
  /\ done' = [done EXCEPT ![d] = 0]
  /\ rmsg' = [rmsg EXCEPT ![d] = NoMessage]
  /\ Goto(d, "idle")
  /\ UNCHANGED <<service, link, ending, ready, rows, rsess, todo, now, outcome, faults>>

DecrementStorageUsage(d) ==
  /\ d \in Deliverers /\ rpc[d] = "next" /\ todo[d] = {}
  /\ usage' = IF usage > done[d] THEN usage - done[d] ELSE 0
  /\ done' = [done EXCEPT ![d] = 0]
  /\ rmsg' = [rmsg EXCEPT ![d] = NoMessage]
  /\ Goto(d, "idle")
  /\ UNCHANGED <<service, link, ending, ready, rows, rsess, todo, now, outcome, faults>>

\* The hourly cleanup: rows that have expired and old delivered ones.  The usage of the
\* peer is not reduced.
DeleteExpiredMessages(n) ==
  /\ \/ /\ rows[n].status = "pending" /\ Fault
        /\ gone' = gone \cup {rows[n].msg}
     \/ /\ rows[n].status = "delivered"
        /\ UNCHANGED <<gone, faults>>
  /\ rows' = [rows EXCEPT ![n] = Free]
  /\ UNCHANGED <<service, link, ending, ready, usage, routine, confirmed, received>>

-----------------------------------------------------------------------------
(* The network and the node.                                                *)

LinkFails(s) ==
  /\ link[s] = "up" /\ Fault
  /\ link' = [link EXCEPT ![s] = "silent"]
  /\ UNCHANGED <<service, ending, ready, table, routine, outcome>>

\* The idle timeout of QUIC, at both ends.
IdleTimeout(s) ==
  /\ link[s] = "silent"
  /\ link' = [link EXCEPT ![s] = "down"]
  /\ UNCHANGED <<service, ending, ready, table, routine, outcome, faults>>

\* The maps are lost, the tables are kept.
RelayRestart ==
  /\ Fault
  /\ sessions' = {} /\ registered' = NoSession /\ stuck' = FALSE
  /\ link' = [s \in Sessions |-> IF link[s] = "none" THEN "none" ELSE "down"]
  /\ ending' = {} /\ ready' = {}
  /\ rpc' = [r \in Routines |-> "idle"]
  /\ rmsg' = [r \in Routines |-> NoMessage]
  /\ rsess' = [r \in Routines |-> NoSession]
  /\ todo' = [d \in Deliverers |-> {}] /\ now' = [d \in Deliverers |-> NoRow]
  /\ done' = [d \in Deliverers |-> 0]
  /\ UNCHANGED <<streams, table, outcome>>

Forward(r) ==
  \/ forwardDataToTarget(r) \/ WriteToStream(r)
  \/ canStoreMessage(r) \/ StorePendingMessage(r) \/ IncrementStorageUsage(r)

Deliver(d) ==
  \/ deliverPendingMessages(d) \/ Forward(d)
  \/ MarkMessageDelivered(d) \/ DecrementStorageUsage(d)

ServiceStep ==
  \/ \E s \in Sessions :
       \/ HandleRelayReceiveStreamReady(s) \/ terminateSession(s)
       \/ DisconnectSession(s) \/ LinkFails(s) \/ IdleTimeout(s)
       \/ HandleRelayDisconnect(s)
  \/ \E r \in Forwarders :
       \/ \E m \in Messages : handleRelayRequest(r, m)
       \/ Forward(r) \/ AnswerSuccess(r)
  \/ \E d \in Deliverers : Deliver(d)
  \/ \E n \in Rows : DeleteExpiredMessages(n)
=============================================================================
