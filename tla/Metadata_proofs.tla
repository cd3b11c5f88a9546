-------------------------- MODULE Metadata_proofs --------------------------
(***************************************************************************)
(* Proofs about the metadata of a node: the types, the mutex of the        *)
(* publisher, and the one goroutine that runs a query for all who wait.    *)
(***************************************************************************)
EXTENDS Metadata, TLAPS

-----------------------------------------------------------------------------
(* The inductive invariants.                                                *)

\* The puts under way.
PutType == [pc : {"idle", "start", "put", "end"}, v : ItemType, todo : SUBSET Nodes, boots : Nat, ok : BOOLEAN]

\* The types of the publisher, with the counts that bound the versions.
PublisherTypes ==
  /\ nat \in BOOLEAN /\ phase \in {"off", "publishing", "published", "on"}
  /\ address \in Addresses /\ seen \in Addresses \cup {NoAddress}
  /\ notify \in BOOLEAN /\ agreed \in BOOLEAN /\ lock \in BOOLEAN /\ republishing \in BOOLEAN
  /\ content \in Values
  /\ storePeers \subseteq Stores
  /\ put \in [Putters -> PutType]
  /\ held \in [Nodes -> ItemType]
  /\ changes \in Nat /\ moves \in Nat /\ changes + moves <= MaxChanges /\ moves <= MaxMoves

\* A put that was begun has a node to ask.
PutsHaveNodes == \A t \in Putters : put[t].pc = "put" => put[t].todo # {}

\* The mutex is held by the put of "op", which puts what the metadata says: nobody changes the
\* metadata meanwhile, neither before the node has started nor at its start.
MutexHolds ==
  /\ lock <=> put["op"].pc # "idle"
  /\ lock => put["op"].pc \in {"put", "end"} /\ put["op"].v = content
  /\ phase = "off" => ~lock
  /\ notify => phase = "on"

PublisherInvariant == PublisherTypes /\ PutsHaveNodes /\ MutexHolds

\* One goroutine runs the query, and while one does its entry is there.
OneRuns == \A c, d \in Callers : caller[c] = "running" /\ caller[d] = "running" => c = d
QueryInvariant ==
  /\ known \in BOOLEAN /\ pending \in 0 .. MaxRetries
  /\ inflight \in {"none", "running", "found", "error"}
  /\ caller \in [Callers -> {"idle", "running", "waiting", "found", "error"}]
  /\ OneRuns
  /\ (inflight = "running") <=> \E c \in Callers : caller[c] = "running"
  /\ \A c \in Callers : caller[c] = "waiting" => inflight = "running"

RecordTypes == part \in {"record", "query"} /\ storeNodes \subseteq Stores /\ info \in NoRelay .. MaxChanges

MetadataInvariant == PublisherInvariant /\ QueryInvariant /\ RecordTypes

\* While the mutex is held, the value that is put is the metadata of the node
\* (metadata_publisher.go, PublishMetadata and NotifyIPChange): the goroutines of the relay, the
\* monitor and a restart do not change it under the put.
LockedPutIsCurrent == lock => put["op"].v = content


-----------------------------------------------------------------------------
(* The values.                                                              *)

\* The constants.
LEMMA MetadataConstants ==
  /\ MaxChanges \in Nat /\ MaxMoves \in Nat /\ MaxRetries \in Nat \ {0} /\ Boots # {}
  /\ "op" \in Putters /\ "ticker" \in Putters /\ "op" # "ticker" /\ "op" \notin Goroutines
  /\ \A t \in Goroutines : t \in Putters /\ t # "op"
  /\ \A k \in Nat : k <= MaxChanges => k \in 0 .. MaxChanges
  /\ \A k \in Nat : k <= MaxMoves => k \in Addresses
  /\ 0 \in 0 .. MaxChanges /\ 0 \in Addresses /\ NoRelay \in NoRelay .. MaxChanges
  /\ \A k \in 0 .. MaxChanges : k \in NoRelay .. MaxChanges
BY PublisherAssumption, QueryAssumption DEF Putters, Addresses, NoRelay

\* The values that are put and held.
LEMMA Items ==
  /\ NoItem \in ItemType /\ Values \subseteq ItemType
  /\ \A v \in Values, a \in Addresses \cup {NoAddress, Private} : [v EXCEPT !.ip = a] \in Values
  /\ \A v \in Values, k \in 0 .. MaxChanges : [v EXCEPT !.relay = k] \in Values /\ [v EXCEPT !.services = k] \in Values
  /\ [ip |-> NoAddress, relay |-> 0, services |-> 0] \in Values
  /\ \A v \in ItemType : v.relay \in NoRelay .. MaxChanges
<1>1. 0 \in 0 .. MaxChanges /\ NoRelay \in NoRelay .. MaxChanges /\ \A k \in 0 .. MaxChanges : k \in NoRelay .. MaxChanges
  BY MetadataConstants
<1>2. \A v \in Values : v.relay \in 0 .. MaxChanges
  BY DEF Values
<1>3. NoItem.relay = NoRelay
  BY DEF NoItem, NoRelay
<1>4. \A v \in ItemType : v.relay \in NoRelay .. MaxChanges
  BY <1>1, <1>2, <1>3 DEF ItemType
<1>5. /\ \A v \in Values, a \in Addresses \cup {NoAddress, Private} : [v EXCEPT !.ip = a] \in Values
      /\ \A v \in Values, k \in 0 .. MaxChanges : [v EXCEPT !.relay = k] \in Values /\ [v EXCEPT !.services = k] \in Values
      /\ [ip |-> NoAddress, relay |-> 0, services |-> 0] \in Values
  BY <1>1 DEF Values
<1> QED BY <1>4, <1>5 DEF ItemType

\* The states of a put.
LEMMA Puts ==
  /\ Idle \in PutType /\ Idle.pc = "idle"
  /\ \A v \in ItemType, S \in SUBSET Nodes :
       LET p == [Idle EXCEPT !.pc = "put", !.v = v, !.todo = S]
       IN  p \in PutType /\ p.pc = "put" /\ p.v = v /\ p.todo = S
  /\ \A p \in PutType, v \in ItemType, S \in SUBSET Nodes :
       LET q == [p EXCEPT !.pc = "put", !.v = v, !.todo = S]
       IN  q \in PutType /\ q.pc = "put" /\ q.v = v /\ q.todo = S
  /\ \A p \in PutType : [p EXCEPT !.pc = "start"] \in PutType /\ [p EXCEPT !.pc = "start"].pc = "start"
<1>1. NoItem \in ItemType
  BY Items
<1> QED BY <1>1 DEF Idle, PutType

\* A put changes for itself.
LEMMA PutUpdate ==
  ASSUME put \in [Putters -> PutType], NEW t \in Putters, NEW p \in PutType, put' = [put EXCEPT ![t] = p]
  PROVE  put' \in [Putters -> PutType] /\ put'[t] = p /\ \A u \in Putters : u # t => put'[u] = put[u]
OBVIOUS

\* What is left of a put after a node.
LEMMA RestOfPut ==
  ASSUME PublisherTypes, NEW t \in Putters, NEW n, NEW stored \in BOOLEAN, put[t].pc = "put"
  PROVE  /\ Rest(t, n, stored) \in PutType /\ Rest(t, n, stored).v = put[t].v
         /\ Rest(t, n, stored).pc \in {"put", "end"}
         /\ Rest(t, n, stored).pc = "put" => Rest(t, n, stored).todo # {}
<1>1. put[t] \in PutType
  BY DEF PublisherTypes
<1>2. put[t].boots \in Nat /\ put[t].todo \subseteq Nodes /\ put[t].ok \in BOOLEAN
  BY <1>1 DEF PutType
<1> DEFINE boots == put[t].boots + IF stored /\ n \in Boots THEN 1 ELSE 0
           todo  == IF boots >= Enough THEN {} ELSE put[t].todo \ {n}
<1>3. boots \in Nat
  BY <1>2
<1> HIDE DEF boots
<1>4. todo \subseteq Nodes
  BY <1>2
<1> HIDE DEF todo
<1>5. Rest(t, n, stored) = [put[t] EXCEPT !.pc = IF todo = {} THEN "end" ELSE "put", !.todo = todo, !.boots = boots,
                                          !.ok = put[t].ok \/ stored]
  BY DEF Rest, boots, todo
<1>6. (IF todo = {} THEN "end" ELSE "put") \in {"put", "end"} /\ (put[t].ok \/ stored) \in BOOLEAN
  BY <1>2
<1> QED BY <1>1, <1>3, <1>4, <1>5, <1>6, ZenonT(30) DEF PutType

-----------------------------------------------------------------------------
(* The publisher.                                                           *)

\* The metadata of a node begins with its constants.
LEMMA PublisherInitially == PubInit => PublisherInvariant
<1> SUFFICES ASSUME PubInit PROVE PublisherInvariant
  OBVIOUS
<1>a. 0 \in Addresses /\ MaxChanges \in Nat /\ MaxMoves \in Nat /\ "op" \in Putters
  BY MetadataConstants
<1>b. [ip |-> NoAddress, relay |-> 0, services |-> 0] \in Values /\ NoItem \in ItemType
  BY Items
<1>c. Idle \in PutType /\ Idle.pc = "idle"
  BY Puts
<1>d. nat \in BOOLEAN /\ phase = "off" /\ address = 0 /\ seen = NoAddress /\ ~notify /\ ~agreed /\ ~lock
  BY DEF PubInit
<1>e. ~republishing /\ storePeers = Stores /\ moves = 0 /\ changes = 0 /\ notify \in BOOLEAN /\ agreed \in BOOLEAN
      /\ lock \in BOOLEAN /\ republishing \in BOOLEAN
  BY DEF PubInit
<1>f. put \in [Putters -> PutType] /\ held \in [Nodes -> ItemType] /\ content \in Values
  BY <1>b, <1>c DEF PubInit
<1>g. changes + moves <= MaxChanges /\ moves <= MaxMoves /\ changes \in Nat /\ moves \in Nat
  BY <1>a, <1>e
<1>1. PublisherTypes
  BY <1>a, <1>d, <1>e, <1>f, <1>g DEF PublisherTypes
<1>2. PutsHaveNodes /\ MutexHolds
  BY <1>a, <1>c DEF PubInit, PutsHaveNodes, MutexHolds
<1> QED BY <1>1, <1>2 DEF PublisherInvariant

\* A put with the mutex held.
LEMMA LockedPut ==
  ASSUME PublisherInvariant, NEW v \in Values, PutUnderLock(v), content' = v, phase' # "off", notify' => phase' = "on"
  PROVE  /\ lock' = TRUE /\ put' \in [Putters -> PutType] /\ PutsHaveNodes' /\ MutexHolds'
<1>1. PublisherTypes /\ PutsHaveNodes
  BY DEF PublisherInvariant
<1> DEFINE p == [Idle EXCEPT !.pc = "put", !.v = v, !.todo = storePeers \cup Boots]
<1>2. storePeers \cup Boots \in SUBSET Nodes /\ storePeers \cup Boots # {}
  BY <1>1, MetadataConstants DEF PublisherTypes, Nodes
<1>a. v \in ItemType
  BY Items
<1>b. Idle \in PutType
  BY Puts
<1>3. p \in PutType /\ p.pc = "put" /\ p.v = v /\ p.todo # {}
  BY <1>2, <1>a, <1>b DEF PutType
<1>4. put' = [put EXCEPT !["op"] = p] /\ lock' = TRUE
  BY DEF PutUnderLock
<1> HIDE DEF p
<1>5. put' \in [Putters -> PutType] /\ put'["op"] = p /\ \A u \in Putters : u # "op" => put'[u] = put[u]
  BY <1>1, <1>3, <1>4, MetadataConstants, PutUpdate DEF PublisherTypes
<1>6. PutsHaveNodes'
  BY <1>1, <1>3, <1>5 DEF PutsHaveNodes
<1>7. MutexHolds'
  BY <1>3, <1>4, <1>5 DEF MutexHolds
<1> QED BY <1>4, <1>5, <1>6, <1>7

\* A put that begins without the mutex.
LEMMA LaterPut ==
  ASSUME PublisherInvariant, NEW t \in Putters, t # "op", PutLater(t), lock' = lock, content' = content \/ ~lock,
         phase' = phase, notify' = notify
  PROVE  put' \in [Putters -> PutType] /\ PutsHaveNodes' /\ MutexHolds'
<1>1. PublisherTypes /\ PutsHaveNodes /\ MutexHolds
  BY DEF PublisherInvariant
<1> DEFINE p == [put[t] EXCEPT !.pc = "start"]
<1>2. put[t] \in PutType
  BY <1>1 DEF PublisherTypes
<1>3. p \in PutType /\ p.pc = "start"
  BY <1>2, Puts
<1>4. put' = [put EXCEPT ![t] = p]
  BY DEF PutLater
<1> HIDE DEF p
<1>5. put' \in [Putters -> PutType] /\ put'[t] = p /\ \A u \in Putters : u # t => put'[u] = put[u]
  BY <1>1, <1>3, <1>4, PutUpdate DEF PublisherTypes
<1>6. PutsHaveNodes'
  BY <1>1, <1>3, <1>5 DEF PutsHaveNodes
<1>7. put'["op"] = put["op"]
  BY <1>5, MetadataConstants
<1>8. MutexHolds'
  BY <1>1, <1>7 DEF MutexHolds
<1> QED BY <1>5, <1>6, <1>8

\* The mutex and the puts stand when neither they nor what they depend on changes.
LEMMA PutsStand ==
  ASSUME PublisherInvariant, put' = put, lock' = lock, content' = content \/ ~lock,
         phase' = "off" => phase = "off", notify' => phase' = "on"
  PROVE  put' \in [Putters -> PutType] /\ PutsHaveNodes' /\ MutexHolds'
<1>1. PublisherTypes /\ PutsHaveNodes /\ MutexHolds
  BY DEF PublisherInvariant
<1>2. put' \in [Putters -> PutType] /\ PutsHaveNodes'
  BY <1>1 DEF PublisherTypes, PutsHaveNodes
<1>3. MutexHolds'
  BY <1>1 DEF MutexHolds
<1> QED BY <1>2, <1>3

\* The other types, by what an action changes.
LEMMA TypesAfter ==
  ASSUME PublisherInvariant, nat' = nat, phase' \in {"off", "publishing", "published", "on"},
         address' \in Addresses, seen' \in Addresses \cup {NoAddress},
         notify' \in BOOLEAN, agreed' \in BOOLEAN, lock' \in BOOLEAN, republishing' \in BOOLEAN,
         content' \in Values, storePeers' \subseteq Stores,
         put' \in [Putters -> PutType], held' \in [Nodes -> ItemType],
         changes' \in Nat, moves' \in Nat, changes' + moves' <= MaxChanges, moves' <= MaxMoves,
         PutsHaveNodes', MutexHolds'
  PROVE  PublisherInvariant'
BY DEF PublisherInvariant, PublisherTypes

\* The start of a public node.
LEMMA PublishInitialKeeps ==
  ASSUME PublisherInvariant, publishInitialMetadata
  PROVE  PublisherInvariant'
<1>1. PublisherTypes /\ MutexHolds
  BY DEF PublisherInvariant
<1>2. PICK a \in {address, NoAddress} : PublishMetadata([content EXCEPT !.ip = a])
  BY DEF publishInitialMetadata
<1> DEFINE v == [content EXCEPT !.ip = a]
<1>3. phase' = "publishing" /\ phase = "off" /\ UNCHANGED <<nat, monitorVars, republishing, storePeers, held, changes>>
  BY DEF publishInitialMetadata
<1>4. UNCHANGED <<address, seen, notify, agreed, moves>>
  BY <1>3 DEF monitorVars
<1>5. ~notify
  BY <1>1, <1>3 DEF MutexHolds
<1>6. a \in Addresses \cup {NoAddress, Private}
  BY <1>1 DEF PublisherTypes
<1>7. v \in Values
  BY <1>1, <1>6, Items DEF PublisherTypes
<1>8. content' = v /\ PutUnderLock(v)
  BY <1>2 DEF PublishMetadata
<1> HIDE DEF v
<1>9. lock' = TRUE /\ put' \in [Putters -> PutType] /\ PutsHaveNodes' /\ MutexHolds'
  BY <1>3, <1>4, <1>5, <1>7, <1>8, LockedPut
<1> QED BY <1>1, <1>3, <1>4, <1>7, <1>8, <1>9, TypesAfter DEF PublisherTypes

\* The start of a node behind NAT.
LEMMA SetInitialKeeps ==
  ASSUME PublisherInvariant, SetInitialMetadata
  PROVE  PublisherInvariant'
<1>1. PublisherTypes /\ MutexHolds
  BY DEF PublisherInvariant
<1>2. PICK a \in {address, NoAddress} : content' = [content EXCEPT !.ip = a, !.relay = 0]
  BY DEF SetInitialMetadata
<1>3. /\ phase' = "published" /\ phase = "off"
      /\ UNCHANGED <<nat, monitorVars, lock, republishing, put, storePeers, held, changes>>
  BY DEF SetInitialMetadata
<1>4. UNCHANGED <<address, seen, notify, agreed, moves>>
  BY <1>3 DEF monitorVars
<1>5. ~notify /\ ~lock
  BY <1>1, <1>3 DEF MutexHolds
<1>6. a \in Addresses \cup {NoAddress, Private}
  BY <1>1 DEF PublisherTypes
<1>7. [content EXCEPT !.ip = a] \in Values
  BY <1>1, <1>6, Items DEF PublisherTypes
<1>8. [[content EXCEPT !.ip = a] EXCEPT !.relay = 0] \in Values
  BY <1>7, Items, MetadataConstants
<1>9. content' \in Values
  BY <1>2, <1>8
<1>10. put' \in [Putters -> PutType] /\ PutsHaveNodes' /\ MutexHolds'
  BY <1>3, <1>4, <1>5, PutsStand
<1> QED BY <1>1, <1>3, <1>4, <1>9, <1>10, TypesAfter DEF PublisherTypes

\* The services have changed.
LEMMA ServicesKeep ==
  ASSUME PublisherInvariant, UpdateServiceMetadata
  PROVE  PublisherInvariant'
<1>1. PublisherTypes /\ MutexHolds
  BY DEF PublisherInvariant
<1>2. /\ phase \in {"published", "on"} /\ ~lock
      /\ changes + moves < MaxChanges /\ changes' = changes + 1
      /\ content' = [content EXCEPT !.services = changes'] /\ PutUnderLock(content')
  BY DEF UpdateServiceMetadata, Change, Running
<1>3. UNCHANGED <<nat, phase, monitorVars, republishing, storePeers, held, faults>>
  BY DEF UpdateServiceMetadata
<1>4. UNCHANGED <<address, seen, notify, agreed, moves>>
  BY <1>3 DEF monitorVars
<1>5. changes \in Nat /\ moves \in Nat /\ MaxChanges \in Nat
  BY <1>1, MetadataConstants DEF PublisherTypes
<1>6. changes' \in Nat /\ changes' + moves' <= MaxChanges /\ changes' <= MaxChanges
  BY <1>2, <1>4, <1>5
<1>7. changes' \in 0 .. MaxChanges
  BY <1>6, MetadataConstants
<1>8. content' \in Values
  BY <1>1, <1>2, <1>7, Items DEF PublisherTypes
<1>9. notify' => phase' = "on"
  BY <1>1, <1>3, <1>4 DEF MutexHolds
<1> DEFINE v == content'
<1>10. lock' = TRUE /\ put' \in [Putters -> PutType] /\ PutsHaveNodes' /\ MutexHolds'
  <2>1. PICK w \in Values : w = content'
    BY <1>8
  <2>2. PutUnderLock(w)
    BY <1>2, <2>1
  <2> QED BY <1>2, <1>3, <1>9, <2>1, <2>2, LockedPut
<1> QED BY <1>1, <1>3, <1>4, <1>6, <1>8, <1>10, TypesAfter DEF PublisherTypes

\* The address has changed.
LEMMA AddressKeeps ==
  ASSUME PublisherInvariant, NotifyIPChange
  PROVE  PublisherInvariant'
<1>1. PublisherTypes /\ MutexHolds
  BY DEF PublisherInvariant
<1>2. /\ notify /\ ~lock /\ notify' = FALSE
      /\ content' = [content EXCEPT !.ip = IF seen = NoAddress THEN Private ELSE seen]
      /\ PutUnderLock(content')
      /\ UNCHANGED <<nat, phase, address, seen, agreed, moves, republishing, storePeers, held, changes>>
  BY DEF NotifyIPChange
<1>3. (IF seen = NoAddress THEN Private ELSE seen) \in Addresses \cup {NoAddress, Private}
  BY <1>1 DEF PublisherTypes
<1>4. content' \in Values
  BY <1>1, <1>2, <1>3, Items DEF PublisherTypes
<1>5. phase = "on"
  BY <1>1, <1>2 DEF MutexHolds
<1>6. PICK w \in Values : w = content'
  BY <1>4
<1>7. PutUnderLock(w)
  BY <1>2, <1>6
<1>8. lock' = TRUE /\ put' \in [Putters -> PutType] /\ PutsHaveNodes' /\ MutexHolds'
  BY <1>2, <1>5, <1>6, <1>7, LockedPut
<1> QED BY <1>1, <1>2, <1>4, <1>8, TypesAfter DEF PublisherTypes

\* A relay was found or lost, or the ticker ticks.
LEMMA LaterPutsKeep ==
  ASSUME PublisherInvariant
  PROVE  /\ Republish => PublisherInvariant'
         /\ \A t \in Goroutines : NotifyRelayConnected(t) \/ NotifyRelayDisconnected(t) => PublisherInvariant'
<1>1. PublisherTypes /\ MutexHolds
  BY DEF PublisherInvariant
<1>2. ASSUME Republish PROVE PublisherInvariant'
  <2>1. /\ PutLater("ticker")
        /\ UNCHANGED <<nat, phase, monitorVars, content, lock, republishing, storePeers, held, changes, faults>>
    BY <1>2 DEF Republish
  <2>2. UNCHANGED <<address, seen, notify, agreed, moves>>
    BY <2>1 DEF monitorVars
  <2>3. put' \in [Putters -> PutType] /\ PutsHaveNodes' /\ MutexHolds'
    BY <2>1, <2>2, MetadataConstants, LaterPut
  <2> QED BY <1>1, <2>1, <2>2, <2>3, TypesAfter DEF PublisherTypes
<1>3. ASSUME NEW t \in Goroutines, NotifyRelayConnected(t) \/ NotifyRelayDisconnected(t) PROVE PublisherInvariant'
  <2>1. /\ ~lock /\ changes + moves < MaxChanges /\ changes' = changes + 1
        /\ content' = [content EXCEPT !.relay = changes'] /\ PutLater(t)
    BY <1>3 DEF NotifyRelayConnected, NotifyRelayDisconnected, Change
  <2>2. /\ republishing' = TRUE \/ republishing' = republishing
        /\ UNCHANGED <<nat, phase, monitorVars, lock, storePeers, held, faults>>
    BY <1>3 DEF NotifyRelayConnected, NotifyRelayDisconnected
  <2>3. UNCHANGED <<address, seen, notify, agreed, moves>>
    BY <2>2 DEF monitorVars
  <2>4. changes \in Nat /\ moves \in Nat /\ MaxChanges \in Nat
    BY <1>1, MetadataConstants DEF PublisherTypes
  <2>5. changes' \in Nat /\ changes' + moves' <= MaxChanges /\ changes' <= MaxChanges
    BY <2>1, <2>3, <2>4
  <2>6. changes' \in 0 .. MaxChanges
    BY <2>5, MetadataConstants
  <2>7. content' \in Values
    BY <1>1, <2>1, <2>6, Items DEF PublisherTypes
  <2>8. put' \in [Putters -> PutType] /\ PutsHaveNodes' /\ MutexHolds'
    BY <2>1, <2>2, <2>3, MetadataConstants, LaterPut
  <2>9. republishing' \in BOOLEAN
    BY <1>1, <2>2 DEF PublisherTypes
  <2> QED BY <1>1, <2>2, <2>3, <2>5, <2>7, <2>8, <2>9, TypesAfter DEF PublisherTypes
<1> QED BY <1>2, <1>3

\* A put that was begun without the mutex takes the value of now.
LEMMA DiscoveryKeeps ==
  ASSUME PublisherInvariant, NEW t \in Putters, PutMutableWithDiscovery(t)
  PROVE  PublisherInvariant'
<1>1. PublisherTypes /\ PutsHaveNodes /\ MutexHolds
  BY DEF PublisherInvariant
<1> DEFINE p == [put[t] EXCEPT !.pc = "put", !.v = content, !.todo = storePeers \cup Boots]
<1>2. put[t] \in PutType /\ put[t].pc = "start"
  BY <1>1 DEF PublisherTypes, PutMutableWithDiscovery
<1>3. storePeers \cup Boots \in SUBSET Nodes /\ storePeers \cup Boots # {}
  BY <1>1, MetadataConstants DEF PublisherTypes, Nodes
<1>4. content \in ItemType
  BY <1>1, Items DEF PublisherTypes
<1>5. p \in PutType /\ p.pc = "put" /\ p.todo # {}
  BY <1>2, <1>3, <1>4 DEF PutType
<1>6. put' = [put EXCEPT ![t] = p]
  BY <1>1, <1>2 DEF PutMutableWithDiscovery, PublisherTypes, PutType
<1>7. /\ UNCHANGED <<nat, phase, monitorVars, content, lock, republishing, storePeers, held, changes>>
      /\ UNCHANGED <<address, seen, notify, agreed, moves>>
  BY DEF PutMutableWithDiscovery, monitorVars
<1> HIDE DEF p
<1>8. put' \in [Putters -> PutType] /\ put'[t] = p /\ \A u \in Putters : u # t => put'[u] = put[u]
  BY <1>1, <1>5, <1>6, PutUpdate DEF PublisherTypes
<1>9. PutsHaveNodes'
  BY <1>1, <1>5, <1>8 DEF PutsHaveNodes
<1>10. t # "op"
  BY <1>1, <1>2 DEF MutexHolds
<1>11. put'["op"] = put["op"]
  BY <1>8, <1>10, MetadataConstants
<1>12. MutexHolds'
  BY <1>1, <1>7, <1>11 DEF MutexHolds
<1> QED BY <1>1, <1>7, <1>8, <1>9, <1>12, TypesAfter DEF PublisherTypes

\* A put goes on to the next node.
LEMMA QueryKeeps ==
  ASSUME PublisherInvariant, NEW t \in Putters, sendPutQuery(t)
  PROVE  PublisherInvariant'
<1>1. PublisherTypes /\ PutsHaveNodes /\ MutexHolds
  BY DEF PublisherInvariant
<1> DEFINE n == Min(put[t].todo)
<1>2. put[t].pc = "put" /\ held' \in {held, AnswerPut(n, put[t].v)}
  BY DEF sendPutQuery
<1>3. put' = [put EXCEPT ![t] = Rest(t, n, TRUE)] \/ put' = [put EXCEPT ![t] = Rest(t, n, FALSE)]
  BY DEF sendPutQuery
<1>4. /\ UNCHANGED <<nat, phase, monitorVars, content, lock, republishing, storePeers, changes>>
      /\ UNCHANGED <<address, seen, notify, agreed, moves>>
  BY DEF sendPutQuery, monitorVars
<1> HIDE DEF n
<1>5. PICK stored \in BOOLEAN : put' = [put EXCEPT ![t] = Rest(t, n, stored)]
  BY <1>3
<1> DEFINE p == Rest(t, n, stored)
<1>6. p \in PutType /\ p.v = put[t].v /\ p.pc \in {"put", "end"} /\ (p.pc = "put" => p.todo # {})
  BY <1>1, <1>2, RestOfPut
<1>7. put' = [put EXCEPT ![t] = p]
  BY <1>5
<1> HIDE DEF p
<1>8. put' \in [Putters -> PutType] /\ put'[t] = p /\ \A u \in Putters : u # t => put'[u] = put[u]
  BY <1>1, <1>6, <1>7, PutUpdate DEF PublisherTypes
<1>9. PutsHaveNodes'
  BY <1>1, <1>6, <1>8 DEF PutsHaveNodes
<1>10. held' \in [Nodes -> ItemType]
  <2>1. put[t].v \in ItemType /\ held \in [Nodes -> ItemType]
    BY <1>1 DEF PublisherTypes, PutType
  <2> QED BY <1>2, <2>1 DEF AnswerPut
<1>11. MutexHolds'
  <2>1. put'["op"].pc = "idle" <=> put["op"].pc = "idle"
    BY <1>2, <1>6, <1>8, MetadataConstants
  <2>2. put'["op"].v = put["op"].v
    BY <1>6, <1>8, MetadataConstants
  <2>3. put["op"].pc \in {"put", "end"} => put'["op"].pc \in {"put", "end"}
    BY <1>6, <1>8, MetadataConstants
  <2> QED BY <1>1, <1>4, <2>1, <2>2, <2>3 DEF MutexHolds
<1> QED BY <1>1, <1>4, <1>8, <1>9, <1>10, <1>11, TypesAfter DEF PublisherTypes

\* A put returns.
LEMMA EndPutKeeps ==
  ASSUME PublisherInvariant, NEW t \in Putters, EndPut(t)
  PROVE  PublisherInvariant'
<1>1. PublisherTypes /\ PutsHaveNodes /\ MutexHolds
  BY DEF PublisherInvariant
<1>2. put[t].pc = "end" /\ put' = [put EXCEPT ![t] = Idle] /\ lock' = (lock /\ t # "op")
  BY DEF EndPut
<1>3. /\ phase' = phase \/ (phase = "publishing" /\ phase' = "published")
      /\ republishing' \in {republishing, put[t].ok \/ republishing}
  BY DEF EndPut
<1>4. /\ UNCHANGED <<nat, monitorVars, content, storePeers, held, changes>>
      /\ UNCHANGED <<address, seen, notify, agreed, moves>>
  BY DEF EndPut, monitorVars
<1>5. put[t] \in PutType /\ Idle \in PutType /\ Idle.pc = "idle"
  BY <1>1, Puts DEF PublisherTypes
<1>6. put' \in [Putters -> PutType] /\ put'[t] = Idle /\ \A u \in Putters : u # t => put'[u] = put[u]
  BY <1>1, <1>2, <1>5, PutUpdate DEF PublisherTypes
<1>7. PutsHaveNodes'
  BY <1>1, <1>5, <1>6 DEF PutsHaveNodes
<1>8. phase' \in {"off", "publishing", "published", "on"} /\ (phase' = "off" => phase = "off")
      /\ (phase = "on" => phase' = "on")
  BY <1>1, <1>3 DEF PublisherTypes
<1>9. lock' \in BOOLEAN /\ republishing' \in BOOLEAN
  <2>1. put[t].ok \in BOOLEAN /\ lock \in BOOLEAN /\ republishing \in BOOLEAN
    BY <1>1, <1>5 DEF PutType, PublisherTypes
  <2> QED BY <1>2, <1>3, <2>1
<1>10. MutexHolds'
  <2>1. CASE t = "op"
    <3>1. ~lock' /\ put'["op"].pc = "idle"
      BY <1>2, <1>5, <1>6, <2>1
    <3> QED BY <1>1, <1>4, <1>8, <3>1 DEF MutexHolds
  <2>2. CASE t # "op"
    <3>1. (lock' <=> lock) /\ put'["op"] = put["op"]
      BY <1>2, <1>6, <2>2, MetadataConstants
    <3> QED BY <1>1, <1>4, <1>8, <3>1 DEF MutexHolds
  <2> QED BY <2>1, <2>2
<1> QED BY <1>1, <1>4, <1>6, <1>7, <1>8, <1>9, <1>10, TypesAfter DEF PublisherTypes

\* The monitor looks up the address.
LEMMA MonitorKeeps ==
  ASSUME PublisherInvariant, StartMonitor \/ checkForChanges
  PROVE  PublisherInvariant'
<1>1. PublisherTypes /\ MutexHolds
  BY DEF PublisherInvariant
<1>2. /\ UNCHANGED <<nat, address, moves, content, lock, republishing, put, storePeers, held, changes>>
      /\ phase # "off" /\ phase' = "on" /\ seen' \in {address, NoAddress}
  BY DEF StartMonitor, checkForChanges
<1>3. /\ notify' = notify \/ notify' = TRUE \/ notify' = FALSE
      /\ agreed' = agreed \/ agreed' = (seen' = content.ip)
  BY DEF StartMonitor, checkForChanges, handlePublicNodeChanges, handleNATNodeChanges
<1>4. notify' \in BOOLEAN /\ agreed' \in BOOLEAN
  BY <1>1, <1>3 DEF PublisherTypes
<1>5. seen' \in Addresses \cup {NoAddress}
  BY <1>1, <1>2 DEF PublisherTypes
<1>6. put' \in [Putters -> PutType] /\ PutsHaveNodes' /\ MutexHolds'
  BY <1>2, PutsStand
<1> QED BY <1>1, <1>2, <1>4, <1>5, <1>6, TypesAfter DEF PublisherTypes

\* The environment.
LEMMA EnvironmentKeeps ==
  ASSUME PublisherInvariant,
         \/ AddressChanges
         \/ \E n \in Nodes : NodeRestarts(n)
         \/ \E n \in Stores : ForgetStore(n) \/ MeetStore(n)
  PROVE  PublisherInvariant'
<1>1. PublisherTypes /\ MutexHolds
  BY DEF PublisherInvariant
<1>2. UNCHANGED <<nat, phase, seen, notify, agreed, content, lock, republishing, put, changes>>
  BY DEF AddressChanges, NodeRestarts, ForgetStore, MeetStore, monitorVars
<1>3. put' \in [Putters -> PutType] /\ PutsHaveNodes' /\ MutexHolds'
  BY <1>1, <1>2, PutsStand DEF MutexHolds
<1>4. held' \in [Nodes -> ItemType]
  <2>1. held' = held \/ \E n \in Nodes : held' = [held EXCEPT ![n] = NoItem]
    BY DEF AddressChanges, NodeRestarts, ForgetStore, MeetStore
  <2>2. NoItem \in ItemType
    BY Items
  <2> QED BY <1>1, <2>1, <2>2 DEF PublisherTypes
<1>5. storePeers' \subseteq Stores
  <2>1. storePeers' = storePeers \/ \E n \in Stores : storePeers' \in {storePeers \ {n}, storePeers \cup {n}}
    BY DEF AddressChanges, NodeRestarts, ForgetStore, MeetStore
  <2> QED BY <1>1, <2>1 DEF PublisherTypes
<1>6. \/ moves' = moves /\ address' = address
      \/ moves < MaxMoves /\ changes + moves < MaxChanges /\ moves' = moves + 1 /\ address' = moves'
  BY DEF AddressChanges, NodeRestarts, ForgetStore, MeetStore, monitorVars
<1>7. changes \in Nat /\ moves \in Nat /\ MaxChanges \in Nat /\ MaxMoves \in Nat /\ moves <= MaxMoves
      /\ changes + moves <= MaxChanges
  BY <1>1, MetadataConstants DEF PublisherTypes
<1>8. moves' \in Nat /\ changes + moves' <= MaxChanges /\ moves' <= MaxMoves
  BY <1>6, <1>7
<1>9. address' \in Addresses
  BY <1>1, <1>6, <1>8, MetadataConstants DEF PublisherTypes
<1> QED BY <1>1, <1>2, <1>3, <1>4, <1>5, <1>8, <1>9, TypesAfter DEF PublisherTypes

\* The node starts anew.
LEMMA RestartKeeps ==
  ASSUME PublisherInvariant, Restart
  PROVE  PublisherInvariant'
<1>1. PublisherTypes
  BY DEF PublisherInvariant
<1>2. /\ phase' = "off" /\ lock' = FALSE /\ republishing' = FALSE /\ put' = [t \in Putters |-> Idle]
      /\ notify' = FALSE /\ agreed' = FALSE /\ seen' = NoAddress /\ storePeers' = {}
      /\ UNCHANGED <<nat, address, moves, content, held, changes>>
  BY DEF Restart
<1>3. Idle \in PutType /\ Idle.pc = "idle" /\ "op" \in Putters
  BY Puts, MetadataConstants
<1>4. put' \in [Putters -> PutType] /\ \A t \in Putters : put'[t] = Idle
  BY <1>2, <1>3
<1>5. PutsHaveNodes' /\ MutexHolds'
  BY <1>2, <1>3, <1>4 DEF PutsHaveNodes, MutexHolds
<1> QED BY <1>1, <1>2, <1>4, <1>5, TypesAfter DEF PublisherTypes

\* Every step of the publisher, and every step without it.
LEMMA PublisherStep ==
  ASSUME PublisherInvariant, PubNext \/ UNCHANGED <<nat, phase, monitorVars, content, lock, republishing, put,
                                                    storePeers, held, changes>>
  PROVE  PublisherInvariant'
<1>1. CASE PubNext
  <2>1. CASE publishInitialMetadata \/ SetInitialMetadata \/ UpdateServiceMetadata \/ NotifyIPChange
    BY <2>1, PublishInitialKeeps, SetInitialKeeps, ServicesKeep, AddressKeeps
  <2>2. CASE Republish \/ \E t \in Goroutines : NotifyRelayConnected(t) \/ NotifyRelayDisconnected(t)
    BY <2>2, LaterPutsKeep
  <2>3. CASE StartMonitor \/ checkForChanges
    BY <2>3, MonitorKeeps
  <2>4. CASE Restart
    BY <2>4, RestartKeeps
  <2>5. CASE \E t \in Putters : PutMutableWithDiscovery(t) \/ sendPutQuery(t) \/ EndPut(t)
    BY <2>5, DiscoveryKeeps, QueryKeeps, EndPutKeeps
  <2>6. CASE \/ AddressChanges
             \/ \E n \in Nodes : NodeRestarts(n)
             \/ \E n \in Stores : ForgetStore(n) \/ MeetStore(n)
    BY <2>6, EnvironmentKeeps
  <2> QED BY <1>1, <2>1, <2>2, <2>3, <2>4, <2>5, <2>6 DEF PubNext
<1>2. CASE UNCHANGED <<nat, phase, monitorVars, content, lock, republishing, put, storePeers, held, changes>>
  BY <1>2 DEF PublisherInvariant, PublisherTypes, PutsHaveNodes, MutexHolds, monitorVars
<1> QED BY <1>1, <1>2

-----------------------------------------------------------------------------
(* The queries.                                                             *)

\* Nobody queries at first.
LEMMA QueryInitially == QueryInit => QueryInvariant
<1> SUFFICES ASSUME QueryInit PROVE QueryInvariant
  OBVIOUS
<1>1. known = FALSE /\ pending = 0 /\ inflight = "none" /\ caller = [c \in Callers |-> "idle"]
  BY DEF QueryInit
<1>2. pending \in 0 .. MaxRetries
  BY <1>1, QueryAssumption
<1> QED BY <1>1, <1>2 DEF QueryInvariant, OneRuns

\* A caller joins the query that runs, or takes the answer that is there, or runs it.
LEMMA AskKeeps ==
  ASSUME QueryInvariant, NEW c \in Callers, QueryMetadata(c)
  PROVE  QueryInvariant'
<1>1. /\ known \in BOOLEAN /\ pending \in 0 .. MaxRetries
      /\ inflight \in {"none", "running", "found", "error"}
      /\ caller \in [Callers -> {"idle", "running", "waiting", "found", "error"}]
      /\ OneRuns
      /\ (inflight = "running") <=> \E d \in Callers : caller[d] = "running"
      /\ \A d \in Callers : caller[d] = "waiting" => inflight = "running"
  BY DEF QueryInvariant
<1> DEFINE s == CASE inflight = "none" -> "running" [] inflight = "running" -> "waiting" [] OTHER -> inflight
<1>2. /\ caller[c] = "idle" /\ inflight' = (IF inflight = "none" THEN "running" ELSE inflight)
      /\ caller' = [caller EXCEPT ![c] = s] /\ UNCHANGED <<known, pending>>
  BY DEF QueryMetadata
<1>3. /\ inflight = "none" => s = "running"
      /\ inflight = "running" => s = "waiting"
      /\ inflight \in {"found", "error"} => s = inflight
  OBVIOUS
<1>4. s \in {"running", "waiting", "found", "error"}
  BY <1>1, <1>3
<1> HIDE DEF s
<1>5. /\ caller' \in [Callers -> {"idle", "running", "waiting", "found", "error"}]
      /\ caller'[c] = s /\ \A d \in Callers : d # c => caller'[d] = caller[d]
  BY <1>1, <1>2, <1>4
<1>6. inflight' \in {"none", "running", "found", "error"}
  BY <1>1, <1>2
<1>7. OneRuns'
  BY <1>1, <1>3, <1>5 DEF OneRuns
<1>8. (inflight' = "running") <=> \E d \in Callers : caller'[d] = "running"
  <2>1. CASE inflight = "none"
    BY <1>2, <1>3, <1>5, <2>1
  <2>2. CASE inflight = "running"
    <3>1. PICK d \in Callers : caller[d] = "running"
      BY <1>1, <2>2
    <3>2. caller'[d] = "running"
      BY <1>2, <1>5, <3>1
    <3> QED BY <1>2, <2>2, <3>2
  <2>3. CASE inflight \in {"found", "error"}
    BY <1>1, <1>2, <1>3, <1>5, <2>3
  <2> QED BY <1>1, <2>1, <2>2, <2>3
<1>9. \A d \in Callers : caller'[d] = "waiting" => inflight' = "running"
  BY <1>1, <1>2, <1>3, <1>5
<1> QED BY <1>1, <1>2, <1>5, <1>6, <1>7, <1>8, <1>9 DEF QueryInvariant

\* The one that runs the query tells all who wait.
LEMMA AnswerKeeps ==
  ASSUME QueryInvariant, NEW c \in Callers, executeQuery(c)
  PROVE  QueryInvariant'
<1>1. /\ known \in BOOLEAN /\ pending \in 0 .. MaxRetries
      /\ caller \in [Callers -> {"idle", "running", "waiting", "found", "error"}]
      /\ OneRuns
  BY DEF QueryInvariant
<1>2. caller[c] = "running" /\ UNCHANGED <<known, pending>>
  BY DEF executeQuery
<1>3. PICK r \in {"found", "error"} :
        /\ inflight' = r
        /\ caller' = [d \in Callers |-> IF d = c \/ caller[d] = "waiting" THEN r ELSE caller[d]]
  BY DEF executeQuery
<1>4. \A d \in Callers : caller'[d] = IF d = c \/ caller[d] = "waiting" THEN r ELSE caller[d]
  BY <1>3
<1>5. caller' \in [Callers -> {"idle", "running", "waiting", "found", "error"}]
  BY <1>1, <1>3
<1>6. \A d \in Callers : caller'[d] # "running" /\ caller'[d] # "waiting"
  <2> SUFFICES ASSUME NEW d \in Callers PROVE caller'[d] # "running" /\ caller'[d] # "waiting"
    OBVIOUS
  <2>1. d # c => caller[d] # "running"
    BY <1>1, <1>2 DEF OneRuns
  <2> QED BY <1>4, <2>1
<1> QED BY <1>1, <1>2, <1>3, <1>5, <1>6 DEF QueryInvariant, OneRuns

\* A caller goes on.
LEMMA ReturnKeeps ==
  ASSUME QueryInvariant, NEW c \in Callers, Return(c)
  PROVE  QueryInvariant'
<1>1. /\ known \in BOOLEAN /\ pending \in 0 .. MaxRetries
      /\ inflight \in {"none", "running", "found", "error"}
      /\ caller \in [Callers -> {"idle", "running", "waiting", "found", "error"}]
      /\ OneRuns
      /\ (inflight = "running") <=> \E d \in Callers : caller[d] = "running"
      /\ \A d \in Callers : caller[d] = "waiting" => inflight = "running"
  BY DEF QueryInvariant
<1>2. caller[c] \in {"found", "error"} /\ caller' = [caller EXCEPT ![c] = "idle"] /\ UNCHANGED <<known, pending, inflight>>
  BY DEF Return
<1>3. /\ caller' \in [Callers -> {"idle", "running", "waiting", "found", "error"}]
      /\ caller'[c] = "idle" /\ \A d \in Callers : d # c => caller'[d] = caller[d]
  BY <1>1, <1>2
<1>4. \A d \in Callers : (caller'[d] = "running" <=> caller[d] = "running") /\ (caller'[d] = "waiting" => caller[d] = "waiting")
  BY <1>2, <1>3
<1>5. OneRuns'
  BY <1>1, <1>4 DEF OneRuns
<1> QED BY <1>1, <1>2, <1>3, <1>4, <1>5 DEF QueryInvariant

\* The entries of queries and of the scheduler, and the list of known peers.
LEMMA EntriesKeep ==
  ASSUME QueryInvariant,
         \/ forgetQuery \/ ScheduleFetch \/ retryPendingFetches
         \/ known' \in BOOLEAN /\ UNCHANGED <<pending, inflight, caller>>
  PROVE  QueryInvariant'
<1>1. /\ known \in BOOLEAN /\ pending \in 0 .. MaxRetries
      /\ inflight \in {"none", "running", "found", "error"}
      /\ caller \in [Callers -> {"idle", "running", "waiting", "found", "error"}]
      /\ OneRuns
      /\ (inflight = "running") <=> \E d \in Callers : caller[d] = "running"
      /\ \A d \in Callers : caller[d] = "waiting" => inflight = "running"
  BY DEF QueryInvariant
<1>2. caller' = caller /\ (inflight' = inflight \/ (inflight \in {"found", "error"} /\ inflight' = "none"))
  <2>1. CASE forgetQuery
    BY <2>1 DEF forgetQuery
  <2>2. CASE ScheduleFetch \/ retryPendingFetches \/ UNCHANGED <<pending, inflight, caller>>
    BY <2>2 DEF ScheduleFetch, retryPendingFetches
  <2> QED BY <2>1, <2>2
<1>3. known' \in BOOLEAN
  BY <1>1 DEF forgetQuery, ScheduleFetch, retryPendingFetches
<1>4. pending' = pending \/ pending' = 0 \/ pending' = 1 \/ (pending < MaxRetries /\ pending' = pending + 1)
  <2>1. CASE forgetQuery \/ UNCHANGED <<pending, inflight, caller>>
    BY <2>1 DEF forgetQuery
  <2>2. CASE ScheduleFetch
    BY <2>2 DEF ScheduleFetch
  <2>3. CASE retryPendingFetches
    BY <2>3 DEF retryPendingFetches
  <2> QED BY <2>1, <2>2, <2>3
<1>5. pending' \in 0 .. MaxRetries
  BY <1>1, <1>4, QueryAssumption
<1>6. OneRuns'
  BY <1>1, <1>2 DEF OneRuns
<1> QED BY <1>1, <1>2, <1>3, <1>5, <1>6 DEF QueryInvariant

\* Every step of the queries.
LEMMA QueryStep ==
  ASSUME QueryInvariant, QueryNext
  PROVE  QueryInvariant'
<1>1. CASE forgetQuery \/ ScheduleFetch \/ retryPendingFetches
  BY <1>1, EntriesKeep
<1>2. CASE StoreKnownPeer
  BY <1>2, EntriesKeep DEF StoreKnownPeer
<1>3. CASE \E c \in Callers : QueryMetadata(c) \/ executeQuery(c) \/ Return(c)
  BY <1>3, AskKeeps, AnswerKeeps, ReturnKeeps
<1> QED BY <1>1, <1>2, <1>3 DEF QueryNext

-----------------------------------------------------------------------------
(* The whole.                                                               *)

\* What a fetch finds is an item.
LEMMA FetchedItems ==
  ASSUME PublisherTypes, NEW v \in ItemsOf(Nodes)
  PROVE  v \in ItemType /\ v.relay \in NoRelay .. MaxChanges
<1>1. PICK n \in Nodes : v = held[n]
  BY DEF ItemsOf, AnswerGet
<1>2. v \in ItemType
  BY <1>1 DEF PublisherTypes
<1> QED BY <1>2, Items

\* The invariant holds at first and in every step.
LEMMA MetadataStep ==
  /\ Init => MetadataInvariant
  /\ MetadataInvariant /\ [Next]_vars => MetadataInvariant'
<1>1. ASSUME Init PROVE MetadataInvariant
  <2>1. PublisherInvariant /\ QueryInvariant
    BY <1>1, PublisherInitially, QueryInitially DEF Init
  <2>2. RecordTypes
    BY <1>1, MetadataConstants DEF Init, RecordTypes
  <2> QED BY <2>1, <2>2 DEF MetadataInvariant
<1>2. ASSUME MetadataInvariant, [Next]_vars PROVE MetadataInvariant'
  <2>1. PublisherInvariant /\ QueryInvariant /\ RecordTypes /\ PublisherTypes
    BY <1>2 DEF MetadataInvariant, PublisherInvariant
  <2>2. CASE exchangeIdentities
    <3>1. /\ UNCHANGED <<nat, phase, monitorVars, content, lock, republishing, put, storePeers, held, changes>>
          /\ StoreKnownPeer /\ info' = NoRelay /\ UNCHANGED <<storeNodes, part>>
      BY <2>2 DEF exchangeIdentities, pubVars
    <3>2. PublisherInvariant'
      BY <2>1, <3>1, PublisherStep
    <3>3. QueryInvariant'
      BY <2>1, <3>1, EntriesKeep DEF StoreKnownPeer
    <3>4. RecordTypes'
      BY <2>1, <3>1, MetadataConstants DEF RecordTypes
    <3> QED BY <3>2, <3>3, <3>4 DEF MetadataInvariant
  <2>3. CASE RefreshAllPeersNetworkInfo \/ ValidateStalePeers
    <3>1. /\ PublisherStands
          /\ UNCHANGED <<pending, inflight, caller, storeNodes, part>>
          /\ known' = known \/ known' = FALSE
      BY <2>3 DEF RefreshAllPeersNetworkInfo, ValidateStalePeers, queryVars
    <3>2. info' = info \/ \E v \in ItemsOf(Nodes) : info' = v.relay
      BY <2>3 DEF RefreshAllPeersNetworkInfo, ValidateStalePeers
    <3>3. PublisherInvariant'
      BY <2>1, <3>1, PublisherStep DEF PublisherStands
    <3>4. known' \in BOOLEAN
      BY <2>1, <3>1 DEF QueryInvariant
    <3>5. QueryInvariant'
      BY <2>1, <3>1, <3>4, EntriesKeep
    <3>6. info' \in NoRelay .. MaxChanges
      BY <2>1, <3>2, FetchedItems DEF RecordTypes
    <3>7. RecordTypes'
      BY <2>1, <3>1, <3>6 DEF RecordTypes
    <3> QED BY <3>3, <3>5, <3>7 DEF MetadataInvariant
  <2>4. CASE \E n \in Stores : AddStoreNode(n)
    <3>1. PICK n \in Stores : AddStoreNode(n)
      BY <2>4
    <3>2. /\ UNCHANGED <<nat, phase, monitorVars, content, lock, republishing, put, storePeers, held, changes>>
          /\ UNCHANGED <<known, pending, inflight, caller>>
          /\ UNCHANGED <<info, part>> /\ storeNodes' = storeNodes \cup {n}
      BY <3>1 DEF AddStoreNode, pubVars, queryVars
    <3>3. PublisherInvariant'
      BY <2>1, <3>2, PublisherStep
    <3>4. known' \in BOOLEAN
      BY <2>1, <3>2 DEF QueryInvariant
    <3>5. QueryInvariant'
      BY <2>1, <3>2, <3>4, EntriesKeep
    <3>6. RecordTypes'
      BY <2>1, <3>2 DEF RecordTypes
    <3> QED BY <3>3, <3>5, <3>6 DEF MetadataInvariant
  <2>5. CASE Publishes(PubNext)
    <3>1. PubNext /\ UNCHANGED <<known, pending, inflight, caller, storeNodes, info, part>>
      BY <2>5 DEF Publishes, queryVars, recordVars
    <3>2. PublisherInvariant'
      BY <2>1, <3>1, PublisherStep
    <3>3. known' \in BOOLEAN
      BY <2>1, <3>1 DEF QueryInvariant
    <3>4. QueryInvariant'
      BY <2>1, <3>1, <3>3, EntriesKeep
    <3>5. RecordTypes'
      BY <2>1, <3>1 DEF RecordTypes
    <3> QED BY <3>2, <3>4, <3>5 DEF MetadataInvariant
  <2>6. CASE Queries(QueryNext)
    <3>1. /\ QueryNext /\ UNCHANGED <<storeNodes, info, part>>
          /\ UNCHANGED <<nat, phase, monitorVars, content, lock, republishing, put, storePeers, held, changes>>
      BY <2>6 DEF Queries, pubVars, recordVars
    <3>2. PublisherInvariant'
      BY <2>1, <3>1, PublisherStep
    <3>3. QueryInvariant'
      BY <2>1, <3>1, QueryStep
    <3>4. RecordTypes'
      BY <2>1, <3>1 DEF RecordTypes
    <3> QED BY <3>2, <3>3, <3>4 DEF MetadataInvariant
  <2>7. CASE UNCHANGED vars
    <3>1. /\ UNCHANGED <<nat, phase, monitorVars, content, lock, republishing, put, storePeers, held, changes>>
          /\ UNCHANGED <<known, pending, inflight, caller, storeNodes, info, part>>
      BY <2>7 DEF vars, pubVars, queryVars, recordVars
    <3>2. PublisherInvariant'
      BY <2>1, <3>1, PublisherStep
    <3>3. known' \in BOOLEAN
      BY <2>1, <3>1 DEF QueryInvariant
    <3>4. QueryInvariant'
      BY <2>1, <3>1, <3>3, EntriesKeep
    <3>5. RecordTypes'
      BY <2>1, <3>1 DEF RecordTypes
    <3> QED BY <3>2, <3>4, <3>5 DEF MetadataInvariant
  <2> QED BY <1>2, <2>2, <2>3, <2>4, <2>5, <2>6, <2>7 DEF Next
<1> QED BY <1>1, <1>2

\* The invariant says what the properties say.
LEMMA MetadataInvariantImplies == MetadataInvariant => TypeOK /\ LockedPutIsCurrent
<1> SUFFICES ASSUME MetadataInvariant PROVE TypeOK /\ LockedPutIsCurrent
  OBVIOUS
<1>1. PublisherTypes /\ PutsHaveNodes /\ MutexHolds /\ QueryInvariant /\ RecordTypes
  BY DEF MetadataInvariant, PublisherInvariant
<1>2. \A t \in Putters : /\ put[t].pc \in {"idle", "start", "put", "end"}
                         /\ put[t].pc = "put" => put[t].todo # {}
                         /\ put[t].v \in ItemType
  <2> SUFFICES ASSUME NEW t \in Putters
               PROVE  /\ put[t].pc \in {"idle", "start", "put", "end"}
                      /\ put[t].pc = "put" => put[t].todo # {}
                      /\ put[t].v \in ItemType
    OBVIOUS
  <2>1. put[t] \in PutType
    BY <1>1 DEF PublisherTypes
  <2>2. put[t].pc \in {"idle", "start", "put", "end"} /\ put[t].v \in ItemType
    BY <2>1 DEF PutType
  <2> QED BY <1>1, <2>2 DEF PutsHaveNodes
<1>3. \A n \in Nodes : held[n] \in ItemType
  BY <1>1 DEF PublisherTypes
<1>4. PubTypeOK
  BY <1>1, <1>2, <1>3 DEF PubTypeOK, PublisherTypes, MutexHolds
<1>5. QueryTypeOK
  BY <1>1 DEF QueryTypeOK, QueryInvariant
<1>6. LockedPutIsCurrent
  BY <1>1 DEF LockedPutIsCurrent, MutexHolds
<1> QED BY <1>1, <1>4, <1>5, <1>6 DEF TypeOK, RecordTypes

\* The state of publisher, queries and record is well typed: the mutex is held exactly while its
\* put is under way (PublishMetadata, NotifyIPChange), and whoever waits for a query waits for
\* one that runs (QueryMetadata, executeQuery).
THEOREM TypeCorrect == Spec => []TypeOK
<1>1. Spec => []MetadataInvariant
  BY MetadataStep, PTL DEF Spec
<1>2. MetadataInvariant => TypeOK
  BY MetadataInvariantImplies
<1> QED BY <1>1, <1>2, PTL

\* While the mutex is held, the value that is put is the metadata of the node: neither a relay
\* that comes or goes nor a change of the services or of the address changes it under the put,
\* and a restart leaves no put behind (metadata_publisher.go, metadataMutex).
THEOREM PublishedUnderLock == Spec => []LockedPutIsCurrent
<1>1. Spec => []MetadataInvariant
  BY MetadataStep, PTL DEF Spec
<1>2. MetadataInvariant => LockedPutIsCurrent
  BY MetadataInvariantImplies
<1> QED BY <1>1, <1>2, PTL

=============================================================================
