-------------------------- MODULE MetadataPublisher --------------------------
(***************************************************************************)
(* How a node publishes its metadata (internal/p2p/metadata_publisher.go,  *)
(* the puts of dht_bep44.go, the store of dht.go) and follows the changes  *)
(* of its own address (network_state_monitor.go).                          *)
(*                                                                         *)
(* The metadata changes under a mutex.  Some changes are put into the DHT  *)
(* with the mutex held, those of the relay by goroutines without it, and a *)
(* ticker puts it again for ever; so puts overtake each other.             *)
(*                                                                         *)
(* Sequence numbers are left out.  A put asks each node for its number and *)
(* takes a higher one, the node stores an item whatever its number, and    *)
(* the numbers of two nodes have nothing to do with each other: the last   *)
(* put wins, and a reader that takes the highest number may get the item   *)
(* of any of the nodes it asks.                                            *)
(***************************************************************************)
EXTENDS Integers, FiniteSets, FiniteSetsExt

CONSTANTS Stores,       \* store nodes, and
          Boots,        \* bootstrap nodes of the DHT: disjoint sets of numbers, in put order
          Enough,       \* targetSuccesses
          Goroutines,   \* puts after a change of the relay
          MaxChanges,   \* bound on changes of relay, services and address
          MaxMoves,     \* bound on those of the address
          MaxFaults     \* bound on lost queries, failed look-ups of the address, restarts

Nodes   == Stores \cup Boots
Putters == Goroutines \cup {"op", "ticker"}

Addresses == 0 .. MaxMoves
NoAddress == -1    \* the look-up failed
Private   == -2    \* what is published in its place

ASSUME PublisherAssumption ==
  /\ Nodes \subseteq Nat /\ Boots # {} /\ \A s \in Stores, b \in Boots : s < b
  /\ {MaxChanges, MaxMoves, MaxFaults} \subseteq Nat /\ Enough \in Nat \ {0}
  /\ {"op", "ticker"} \cap Goroutines = {}

VARIABLES
  nat,          \* the node is behind NAT and has a relay manager
  phase,        \* how far it has started
  address,      \* its address now
  seen,         \* currentState of the monitor, and
  notify,       \* whether it has yet to tell the publisher
  agreed,       \* the monitor began with the address that the metadata has
  content,      \* currentMetadata: the address, and versions of relay and services
  lock,         \* metadataMutex is held by a put
  republishing, \* republishRunning
  put,          \* the puts under way
  storePeers,   \* store nodes among the known peers of the node
  held,         \* the item of every node of the DHT
  changes, moves, faults

monitorVars == <<address, seen, notify, agreed, moves>>
pubVars == <<nat, phase, monitorVars, content, lock, republishing, put, storePeers,
             held, changes, faults>>

NoItem == [ip |-> NoAddress, relay |-> -1, services |-> -1]
Idle   == [pc |-> "idle", v |-> NoItem, todo |-> {}, boots |-> 0, ok |-> FALSE]

PubInit ==
  /\ nat \in BOOLEAN
  /\ phase = "off"
  /\ address = 0 /\ seen = NoAddress /\ notify = FALSE /\ agreed = FALSE /\ moves = 0
  /\ content = [ip |-> NoAddress, relay |-> 0, services |-> 0]
  /\ lock = FALSE /\ republishing = FALSE
  /\ put = [t \in Putters |-> Idle]
  /\ storePeers = Stores
  /\ held = [n \in Nodes |-> NoItem]
  /\ changes = 0 /\ faults = 0

Fault == faults < MaxFaults /\ faults' = faults + 1

\* A look-up of the address.
LookUp(a) ==
  \/ a = address /\ UNCHANGED faults
  \/ a = NoAddress /\ Fault

-----------------------------------------------------------------------------
(* A node of the DHT: what it answers to a get, and its items after a put.  *)

AnswerGet(n)    == held[n]
AnswerPut(n, v) == [held EXCEPT ![n] = v]

-----------------------------------------------------------------------------
(* A put.                                                                   *)

\* A put with the mutex held: the value is encoded at once.
PutUnderLock(v) ==
  /\ lock' = TRUE
  /\ put' = [put EXCEPT !["op"] = [Idle EXCEPT !.pc = "put", !.v = v, !.todo = storePeers \cup Boots]]

\* The "snapshot" is a pointer.
PutLater(t) == put' = [put EXCEPT ![t].pc = "start"]

\* PutMutableWithDiscovery: the value is what the metadata says when it is encoded, the store
\* nodes are those of the known peers (discoverStorePeers).
PutMutableWithDiscovery(t) ==
  /\ put[t].pc = "start"
  /\ put' = [put EXCEPT ![t].pc = "put", ![t].v = content, ![t].todo = storePeers \cup Boots]
  /\ UNCHANGED <<nat, phase, monitorVars, content, lock, republishing, storePeers, held, changes,
                 faults>>

\* The rest of the nodes after node n was tried: store nodes, then bootstrap nodes until
\* enough of them have stored the item.
Rest(t, n, stored) ==
  LET boots == put[t].boots + IF stored /\ n \in Boots THEN 1 ELSE 0
      todo  == IF boots >= Enough THEN {} ELSE put[t].todo \ {n}
  IN [put[t] EXCEPT !.pc = IF todo = {} THEN "end" ELSE "put", !.todo = todo, !.boots = boots,
                    !.ok = @ \/ stored]

\* sendPutQuery to the next node, which checks token and signature and stores the item.  Query
\* or answer may be lost.
sendPutQuery(t) ==
  LET n == Min(put[t].todo) IN
  /\ put[t].pc = "put"
  /\ \/ /\ held' = AnswerPut(n, put[t].v)
        /\ put' = [put EXCEPT ![t] = Rest(t, n, TRUE)]
        /\ UNCHANGED faults
     \/ /\ held' \in {held, AnswerPut(n, put[t].v)}
        /\ put' = [put EXCEPT ![t] = Rest(t, n, FALSE)]
        /\ Fault
  /\ UNCHANGED <<nat, phase, monitorVars, content, lock, republishing, storePeers, changes>>

\* Mutant: every put unlocks the mutex.
EndPutUnlocks(t) ==
  /\ put[t].pc = "end"
  /\ put' = [put EXCEPT ![t] = Idle]
  /\ lock' = FALSE
  /\ phase' = IF t = "op" /\ phase = "publishing" THEN "published" ELSE phase
  /\ republishing' = (republishing \/ phase # phase')
  /\ UNCHANGED <<nat, monitorVars, content, storePeers, held, changes, faults>>

\* The put returns.  The first one of a public node starts the republishing, if any node has
\* stored the item.
EndPut(t) ==
  /\ put[t].pc = "end"
  /\ put' = [put EXCEPT ![t] = Idle]
  /\ lock' = (lock /\ t # "op")
  /\ IF t = "op" /\ phase = "publishing"
       THEN /\ phase' = "published"
            /\ republishing' = (put[t].ok \/ republishing)
       ELSE UNCHANGED <<phase, republishing>>
  /\ UNCHANGED <<nat, monitorVars, content, storePeers, held, changes, faults>>

PutStep(t) == PutMutableWithDiscovery(t) \/ sendPutQuery(t) \/ EndPut(t)

-----------------------------------------------------------------------------
(* Changes of the metadata.                                                 *)

\* The metadata is kept and put.  That it can be read back afterwards is only logged.
PublishMetadata(v) == content' = v /\ PutUnderLock(v)

\* The metadata of a public node is published when it starts ...
publishInitialMetadata ==
  /\ phase = "off" /\ ~nat
  /\ \E a \in {address, NoAddress} :
       LookUp(a) /\ PublishMetadata([content EXCEPT !.ip = a])
  /\ phase' = "publishing"
  /\ UNCHANGED <<nat, monitorVars, republishing, storePeers, held, changes>>

\* ... and that of one behind NAT once it has a relay.
SetInitialMetadata ==
  /\ phase = "off" /\ nat
  /\ \E a \in {address, NoAddress} : LookUp(a) /\ content' = [content EXCEPT !.ip = a, !.relay = 0]
  /\ phase' = "published"
  /\ UNCHANGED <<nat, monitorVars, lock, republishing, put, storePeers, held, changes>>

Running == phase \in {"published", "on"}

Change == /\ Running /\ ~lock
          /\ changes + moves < MaxChanges /\ changes' = changes + 1

NotifyRelayConnected(t) ==
  /\ nat /\ put[t].pc = "idle"
  /\ Change /\ content' = [content EXCEPT !.relay = changes']
  /\ PutLater(t)
  /\ republishing' = TRUE
  /\ UNCHANGED <<nat, phase, monitorVars, lock, storePeers, held, faults>>

NotifyRelayDisconnected(t) ==
  /\ nat /\ put[t].pc = "idle"
  /\ Change /\ content' = [content EXCEPT !.relay = changes']
  /\ PutLater(t)
  /\ UNCHANGED <<nat, phase, monitorVars, lock, republishing, storePeers, held, faults>>

\* After a service was added, removed or changed.
UpdateServiceMetadata ==
  /\ Change /\ content' = [content EXCEPT !.services = changes']
  /\ PutUnderLock(content')
  /\ UNCHANGED <<nat, phase, monitorVars, republishing, storePeers, held, faults>>

\* Without an address of the outside, the one of the inside is published.
NotifyIPChange ==
  /\ notify /\ ~lock
  /\ content' = [content EXCEPT !.ip = IF seen = NoAddress THEN Private ELSE seen]
  /\ PutUnderLock(content')
  /\ notify' = FALSE
  /\ UNCHANGED <<nat, phase, address, seen, agreed, moves, republishing, storePeers, held, changes,
                 faults>>

\* The ticker.
Republish ==
  /\ republishing /\ ~lock /\ put["ticker"].pc = "idle"
  /\ PutLater("ticker")
  /\ UNCHANGED <<nat, phase, monitorVars, content, lock, republishing, storePeers, held, changes,
                 faults>>

-----------------------------------------------------------------------------
(* The monitor of the address.                                              *)

\* The monitor looks up the address again when it starts.
StartMonitor ==
  /\ phase = "published"
  /\ \E a \in {address, NoAddress} : LookUp(a) /\ seen' = a
  /\ agreed' = (seen' = content.ip)
  /\ phase' = "on"
  /\ UNCHANGED <<nat, address, notify, moves, content, lock, republishing, put,
                 storePeers, held, changes>>

\* Mutant: nobody is told of the first address after a failed look-up.
checkFromKnown ==
  /\ phase = "on" /\ ~notify
  /\ \E a \in {address, NoAddress} \ {seen} : LookUp(a) /\ seen' = a
  /\ notify' = (~nat /\ seen # NoAddress)
  /\ UNCHANGED <<nat, phase, address, agreed, moves, content, lock, republishing, put,
                 storePeers, held, changes>>

\* A public node publishes the address it has found.
handlePublicNodeChanges == ~nat /\ notify' = TRUE

\* Behind NAT the relay is connected anew (RelayClient), and the address is not published.
handleNATNodeChanges == nat /\ notify' = FALSE

\* The state is replaced before anything is done about the change; a failed look-up is a
\* change.
checkForChanges ==
  /\ phase = "on" /\ ~notify
  /\ \E a \in {address, NoAddress} \ {seen} : LookUp(a) /\ seen' = a
  /\ handlePublicNodeChanges \/ handleNATNodeChanges
  /\ UNCHANGED <<nat, phase, address, agreed, moves, content, lock, republishing, put,
                 storePeers, held, changes>>

-----------------------------------------------------------------------------
(* The environment.                                                         *)

AddressChanges ==
  /\ moves < MaxMoves /\ changes + moves < MaxChanges
  /\ moves' = moves + 1
  /\ address' = moves'
  /\ UNCHANGED <<nat, phase, seen, notify, agreed, content, lock, republishing, put,
                 storePeers, held, changes, faults>>

\* The store of a node is in memory.
NodeRestarts(n) ==
  /\ Fault
  /\ held[n] # NoItem
  /\ held' = [held EXCEPT ![n] = NoItem]
  /\ UNCHANGED <<nat, phase, monitorVars, content, lock, republishing, put, storePeers,
                 changes>>

\* A store node leaves the known peers, or comes back in a handshake.
ForgetStore(n) ==
  /\ n \in storePeers /\ Fault
  /\ storePeers' = storePeers \ {n}
  /\ UNCHANGED <<nat, phase, monitorVars, content, lock, republishing, put, held,
                 changes>>

MeetStore(n) ==
  /\ n \in Stores \ storePeers
  /\ storePeers' = storePeers \cup {n}
  /\ UNCHANGED <<nat, phase, monitorVars, content, lock, republishing, put, held,
                 changes, faults>>

\* The node itself: its known peers are gone.
Restart ==
  /\ phase # "off" /\ Fault
  /\ phase' = "off" /\ lock' = FALSE /\ republishing' = FALSE
  /\ put' = [t \in Putters |-> Idle]
  /\ notify' = FALSE /\ agreed' = FALSE /\ seen' = NoAddress
  /\ storePeers' = {}
  /\ UNCHANGED <<nat, address, moves, content, held, changes>>

PubNext ==
  \/ publishInitialMetadata \/ SetInitialMetadata \/ UpdateServiceMetadata \/ NotifyIPChange
  \/ Republish \/ StartMonitor \/ checkForChanges \/ AddressChanges \/ Restart
  \/ \E t \in Putters : PutMutableWithDiscovery(t) \/ sendPutQuery(t) \/ EndPut(t)
  \/ \E t \in Goroutines : NotifyRelayConnected(t) \/ NotifyRelayDisconnected(t)
  \/ \E n \in Nodes : NodeRestarts(n)
  \/ \E n \in Stores : ForgetStore(n) \/ MeetStore(n)

-----------------------------------------------------------------------------
Values == [ip : Addresses \cup {NoAddress, Private}, relay : 0 .. MaxChanges,
           services : 0 .. MaxChanges]
ItemType == Values \cup {NoItem}

PubTypeOK ==
  /\ nat \in BOOLEAN /\ phase \in {"off", "publishing", "published", "on"}
  /\ address \in Addresses /\ seen \in Addresses \cup {NoAddress}
  /\ notify \in BOOLEAN /\ agreed \in BOOLEAN /\ lock \in BOOLEAN /\ republishing \in BOOLEAN
  /\ content \in Values
  /\ storePeers \subseteq Stores
  /\ \A t \in Putters : /\ put[t].pc \in {"idle", "start", "put", "end"}
                         /\ put[t].pc = "put" => put[t].todo # {}
                         /\ put[t].v \in ItemType
  /\ \A n \in Nodes : held[n] \in ItemType
  /\ lock <=> put["op"].pc # "idle"

\* An item says what is true of the node now.  Behind NAT the address is not kept up to date.
True(v) == /\ v.relay = content.relay /\ v.services = content.services
           /\ nat \/ v.ip = address
=============================================================================
