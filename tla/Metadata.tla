------------------------------ MODULE Metadata ------------------------------
(***************************************************************************)
(* A node that publishes its metadata and one that reads it: the record it *)
(* keeps among its known peers (internal/p2p/known_peers.go), refreshed    *)
(* and dropped by internal/p2p/peer_validator.go, and the fetches of       *)
(* metadata_fetcher.go and dht_bep44.go.                                   *)
(*                                                                         *)
(* The queries and the scheduler of the reading node write nothing that    *)
(* the rest reads but the list of known peers, so a behaviour is about the *)
(* one or about the other.                                                 *)
(***************************************************************************)
EXTENDS MetadataPublisher, MetadataQuery

VARIABLES
  part,       \* what the behaviour is about
  storeNodes, \* store nodes of the fetcher
  info        \* version of the relay in the record; -1 in a new one

recordVars == <<storeNodes, info>>
vars       == <<pubVars, queryVars, recordVars, part>>

NoRelay == -1

Init ==
  /\ PubInit /\ QueryInit
  /\ part \in {"record", "query"}
  /\ storeNodes = {} /\ info = NoRelay

\* A fetch changes nothing but the count of lost queries.
PublisherStands ==
  UNCHANGED <<nat, phase, monitorVars, content, lock, republishing, put, storePeers, held, changes>>

-----------------------------------------------------------------------------
(* Fetches.                                                                 *)

ItemsOf(S) == {AnswerGet(n) : n \in S} \ {NoItem}

\* GetMutableWithPriority: the store nodes are asked, and only if none of them has the item the
\* bootstrap nodes.  Queries may be lost.
Fetch(v) ==
  \/ /\ v \in IF ItemsOf(storeNodes) # {} THEN ItemsOf(storeNodes) ELSE ItemsOf(Boots)
     /\ UNCHANGED faults
  \/ v \in ItemsOf(storeNodes \cup Boots) /\ Fault

FetchFails ==
  \/ ItemsOf(storeNodes \cup Boots) = {} /\ UNCHANGED faults
  \/ Fault

-----------------------------------------------------------------------------
(* The record among the known peers.                                        *)

\* A handshake with the publisher makes a new record, without the relay.
exchangeIdentities ==
  /\ phase # "off"
  /\ StoreKnownPeer
  /\ info' = NoRelay
  /\ UNCHANGED <<pubVars, storeNodes, part>>

\* A handshake with a store node.  The list only grows.
AddStoreNode(n) ==
  /\ n \in Stores \ storeNodes
  /\ storeNodes' = storeNodes \cup {n}
  /\ UNCHANGED <<pubVars, queryVars, info, part>>

\* The ticker of the validator.
RefreshAllPeersNetworkInfo ==
  /\ known
  /\ \E v \in ItemsOf(Nodes) : Fetch(v) /\ info' = v.relay
  /\ PublisherStands /\ UNCHANGED <<queryVars, storeNodes, part>>

\* A peer that was not seen for a day is dropped when the fetch fails, once.
ValidateStalePeers ==
  /\ known
  /\ \/ \E v \in ItemsOf(Nodes) : Fetch(v) /\ info' = v.relay /\ UNCHANGED known
     \/ FetchFails /\ known' = FALSE /\ UNCHANGED info
  /\ PublisherStands /\ UNCHANGED <<pending, inflight, caller, storeNodes, part>>

Publishes(A) == part = "record" /\ A /\ UNCHANGED <<queryVars, recordVars, part>>
Queries(A)   == part = "query" /\ A /\ UNCHANGED <<pubVars, recordVars, part>>

Next ==
  \/ /\ part = "record"
     /\ \/ exchangeIdentities \/ RefreshAllPeersNetworkInfo \/ ValidateStalePeers
        \/ \E n \in Stores : AddStoreNode(n)
  \/ Publishes(PubNext)
  \/ Queries(QueryNext)

Spec == Init /\ [][Next]_vars

\* Goroutines go on, and the tickers of publisher, monitor, validator and scheduler tick.
Fairness ==
  /\ WF_vars(Publishes(publishInitialMetadata)) /\ WF_vars(Publishes(SetInitialMetadata))
  /\ WF_vars(Publishes(StartMonitor)) /\ WF_vars(Publishes(checkForChanges))
  /\ WF_vars(Publishes(NotifyIPChange)) /\ WF_vars(Publishes(Republish))
  /\ \A t \in Putters : WF_vars(Publishes(PutStep(t)))
  /\ WF_vars(part = "record" /\ RefreshAllPeersNetworkInfo)
  /\ WF_vars(Queries(forgetQuery)) /\ WF_vars(Queries(retryPendingFetches))
  /\ \A c \in Callers : WF_vars(Queries(executeQuery(c)))

FairSpec == Spec /\ Fairness

TypeOK ==
  /\ PubTypeOK /\ QueryTypeOK
  /\ part \in {"record", "query"} /\ storeNodes \subseteq Stores
  /\ info \in NoRelay .. MaxChanges

\* The node publishes, and its monitor knew the address that the metadata began with.
Publishing == phase = "on" /\ republishing /\ (nat \/ agreed)

\* Once nothing changes any more, the DHT says of the node what is true, and so does its record
\* on a node that reads from the DHT, if the store nodes it reads from are still known to the
\* publisher: lost and overtaken puts, restarts and failed look-ups of the address are all made
\* good by the tickers (Republish, checkForChanges, RefreshAllPeersNetworkInfo).
PublishedIsTrue ==
  <>[](Publishing => /\ \A n \in Boots \cup storePeers : True(held[n])
                     /\ known /\ storeNodes \subseteq storePeers => info = content.relay)
=============================================================================
