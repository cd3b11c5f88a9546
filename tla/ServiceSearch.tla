---------------------------- MODULE ServiceSearch ----------------------------
(***************************************************************************)
(* A search for services that a browser asks of its node                   *)
(* (api/websocket/service_search_handler.go): the handler collects whom to *)
(* ask from the connections, the known peers and their metadata, asks them *)
(* in one goroutine each, and sends what comes within 45 seconds, peer by  *)
(* peer, and then that it is complete.                                     *)
(*                                                                         *)
(* A target has the identity it was entered with (NoName for a connection  *)
(* whose peer is not known yet), the way it is asked, and the peer that    *)
(* really answers there: two peers behind one public address look alike.   *)
(***************************************************************************)
EXTENDS Naturals, Sequences, FiniteSets

CONSTANTS SearchPeers,     \* the other peers
          Me, NoName, NoFilter,
          Filters,         \* the peer_ids of requests, and NoFilter
          MaxRelayQueries, \* known peers that are looked up at most
          MaxSearchFaults  \* bound on queries that fail

ASSUME SearchAssumption ==
  /\ {MaxRelayQueries, MaxSearchFaults} \subseteq Nat
  /\ IsFiniteSet(SearchPeers)
  /\ {Me, NoName, "complete"} \cap SearchPeers = {} /\ Me # NoName
  /\ "complete" \notin {Me, NoName}
  /\ \A f \in Filters : f = NoFilter \/ f \subseteq SearchPeers \cup {Me}

VARIABLES
  line,      \* the connection of each peer when the search begins
  metadata,  \* what is known of each peer, and its metadata say
  answersAt, \* the peer that answers at the public address of each
  filter,    \* peer_ids of the request, NoFilter without
  spc, toCheck, targets,  \* of the handler: step, peersToCheckForRelay, queryTargets
  running, falling,       \* targets whose goroutine asks, or asks through a relay
  results,   \* the channel: a target and the peer that answered, NoName for an error
  sent,      \* the messages to the browser, in order
  taken,     \* results the handler has received
  blurred,   \* history: a connection was asked whose peer was not known
  searchFaults

searchWorld == <<line, metadata, answersAt, filter>>
searchVars  == <<searchWorld, spc, toCheck, targets, running, falling, results, sent,
                 taken, blurred, searchFaults>>

Everyone == SearchPeers \cup {Me}
Target(id, via, at) == [id |-> id, via |-> via, at |-> at]
Targets == [id : SearchPeers \cup {NoName}, via : {"direct", "public", "relay", "ownRelay"},
            at : SearchPeers]

Allowed(q) == filter = NoFilter \/ q \in filter

\* The types of the handler, its goroutines and its messages.
SearchTypeOK ==
  /\ line \in [SearchPeers -> {"none", "direct", "inbound", "unnamed"}]
  /\ metadata \in [SearchPeers -> {"unknown", "nothing", "relay", "ownRelay", "public"}]
  /\ answersAt \in [SearchPeers -> SearchPeers]
  /\ spc \in {"connections", "candidates", "lookups", "collect", "over"}
  /\ toCheck \subseteq Everyone /\ targets \subseteq Targets
  /\ running \subseteq targets /\ falling \subseteq targets
  /\ results \subseteq targets \X (SearchPeers \cup {NoName})
  /\ Cardinality(results) + Cardinality(running) + Cardinality(falling) + taken
       <= Cardinality(targets)
  /\ \A i \in DOMAIN sent : sent[i] \in Everyone \cup {"complete"}
  /\ blurred \in BOOLEAN /\ searchFaults \in 0 .. MaxSearchFaults

SearchInit ==
  /\ line \in [SearchPeers -> {"none", "direct", "inbound", "unnamed"}]
  /\ metadata \in [SearchPeers -> {"unknown", "nothing", "relay", "ownRelay", "public"}]
  /\ answersAt \in {f \in [SearchPeers -> SearchPeers] : \A q \in SearchPeers : f[f[q]] = f[q]}
  /\ filter \in Filters
  /\ spc = "connections" /\ toCheck = {} /\ targets = {}
  /\ running = {} /\ falling = {} /\ results = {} /\ sent = <<>> /\ taken = 0
  /\ blurred = FALSE /\ searchFaults = 0

SearchFault == searchFaults < MaxSearchFaults /\ searchFaults' = searchFaults + 1

-----------------------------------------------------------------------------
(* Whom to ask.                                                             *)

\* Local services are of the node itself; a connection whose peer is known is a target, or a
\* candidate for a relay if its port says that the peer is behind NAT.
FromConnections ==
  /\ spc = "connections" /\ spc' = "candidates"
  /\ targets' = {Target(q, "direct", q) : q \in {p \in SearchPeers : line[p] = "direct" /\ Allowed(p)}}
                \cup {Target(NoName, "direct", q) :
                        q \in {p \in SearchPeers : line[p] = "unnamed" /\ filter = NoFilter}}
  /\ toCheck' = {q \in SearchPeers : line[q] = "inbound" /\ Allowed(q)}
  /\ UNCHANGED <<searchWorld, running, falling, results, sent, taken, blurred, searchFaults>>

\* The peers of the request, or the first known peers.
FromKnownPeers ==
  /\ spc = "candidates" /\ spc' = "lookups"
  /\ \E S \in SUBSET ({q \in SearchPeers : metadata[q] # "unknown"} \ toCheck) :
       /\ \/ Cardinality(S) = MaxRelayQueries
          \/ /\ Cardinality(S) < MaxRelayQueries
             /\ S = {q \in SearchPeers : metadata[q] # "unknown"} \ toCheck
       /\ toCheck' = toCheck \cup IF filter = NoFilter THEN S ELSE filter
  /\ UNCHANGED <<searchWorld, targets, running, falling, results, sent, taken, blurred,
                 searchFaults>>

\* Mutant: the target is added beside the one the peer has.
AddTarget(q, t) == targets \cup {t}

\* A new target takes the place of the one with the same identity.
PutTarget(q, t) == {u \in targets : u.id # q} \cup {t}

RelayTarget(q)  == Target(q, metadata[q], q)

\* The connection of the peer is used if there is one.
PublicTarget(q) ==
  Target(q, "public", IF line[q] \in {"direct", "inbound"} THEN q ELSE answersAt[q])

\* The metadata of a candidate, if it can be had, say how it is asked.
LookUpCandidate(q) ==
  /\ spc = "lookups" /\ q \in toCheck /\ toCheck' = toCheck \ {q}
  /\ IF q = Me THEN UNCHANGED <<targets, searchFaults>>
     ELSE \/ /\ targets' = CASE metadata[q] \in {"relay", "ownRelay"} -> PutTarget(q, RelayTarget(q))
                             [] metadata[q] = "public" -> PutTarget(q, PublicTarget(q))
                             [] OTHER -> targets
             /\ UNCHANGED searchFaults
          \/ SearchFault /\ UNCHANGED targets
  /\ UNCHANGED <<searchWorld, spc, running, falling, results, sent, taken, blurred>>

\* A goroutine for each target, and the local services at once.
StartQueries ==
  /\ spc = "lookups" /\ toCheck = {} /\ spc' = "collect"
  /\ running' = targets
  /\ sent' = IF Allowed(Me) THEN Append(sent, Me) ELSE sent
  /\ UNCHANGED <<searchWorld, toCheck, targets, falling, results, taken, blurred, searchFaults>>

-----------------------------------------------------------------------------
(* The goroutines.                                                          *)

\* The one result a goroutine puts into the channel, which has room for all.
PutResult(t, who) == results' = results \cup {<<t, who>>}

\* Another peer is connected at the address the metadata name.
Mismatch(t) == t.via = "public" /\ answersAt[t.id] # t.id

\* queryPeerServices over the connection of the peer, or of its address.  The peer at the
\* address is compared if it is known by then.
DirectAnswer(t) ==
  /\ t.via \in {"direct", "public"} /\ t \in running /\ running' = running \ {t}
  /\ \/ t.at = t.id /\ UNCHANGED <<blurred, searchFaults>>
     \/ t.id = NoName /\ blurred' = TRUE /\ UNCHANGED searchFaults
     \/ t.id # NoName /\ t.at # t.id /\ SearchFault /\ blurred' = TRUE
  /\ PutResult(t, t.at)
  /\ UNCHANGED <<searchWorld, spc, toCheck, targets, falling, sent, taken>>

\* It fails, or the peer is another one: a relay is tried if the metadata name one.
DirectFails(t) ==
  /\ t.via \in {"direct", "public"} /\ t \in running /\ running' = running \ {t}
  /\ IF Mismatch(t) THEN UNCHANGED searchFaults ELSE SearchFault
  /\ IF t.id # NoName /\ metadata[t.id] \in {"relay", "ownRelay"}
     THEN falling' = falling \cup {t} /\ UNCHANGED results
     ELSE PutResult(t, NoName) /\ UNCHANGED falling
  /\ UNCHANGED <<searchWorld, spc, toCheck, targets, sent, taken, blurred>>

\* queryPeerViaRelay, with its retry, and queryPeerViaLocalRelay.  A panic ends in the
\* same way as an error.
RelayQuery(t) ==
  /\ t \in falling \cup {u \in running : u.via \in {"relay", "ownRelay"}}
  /\ running' = running \ {t} /\ falling' = falling \ {t}
  /\ \/ PutResult(t, t.id) /\ UNCHANGED searchFaults
     \/ PutResult(t, NoName) /\ SearchFault
  /\ UNCHANGED <<searchWorld, spc, toCheck, targets, sent, taken, blurred>>

-----------------------------------------------------------------------------
(* Collecting.                                                              *)

sendPartialSearchResponse(m) == sent' = Append(sent, m)

\* A result with services is sent on.
Collect ==
  /\ spc = "collect" /\ taken < Cardinality(targets)
  /\ \E x \in results :
       /\ results' = results \ {x}
       /\ IF x[2] = NoName THEN UNCHANGED sent ELSE sendPartialSearchResponse(x[2])
  /\ taken' = taken + 1
  /\ UNCHANGED <<searchWorld, spc, toCheck, targets, running, falling, blurred, searchFaults>>

\* All have answered, or 45 seconds have passed.
CompleteSearch ==
  /\ spc = "collect" /\ spc' = "over"
  /\ sendPartialSearchResponse("complete")
  /\ UNCHANGED <<searchWorld, toCheck, targets, running, falling, results, taken, blurred,
                 searchFaults>>

-----------------------------------------------------------------------------
HandleServiceSearchRequest ==
  \/ FromConnections \/ FromKnownPeers
  \/ \E q \in Everyone : LookUpCandidate(q)
  \/ StartQueries \/ Collect \/ CompleteSearch

SearchNext ==
  \/ HandleServiceSearchRequest
  \/ \E t \in targets : DirectAnswer(t) \/ DirectFails(t) \/ RelayQuery(t)

\* The browser is shown every peer once, only peers it asked for, and nothing after
\* "complete", although a peer may be found on a connection, among the known peers and at
\* an address it shares, may answer directly and through its relay, and may answer late.
\* A connection whose peer is not known when it is asked is the exception.
SearchIsSound ==
  /\ \A i \in DOMAIN sent : sent[i] = "complete" <=> (spc = "over" /\ i = Len(sent))
  /\ ~blurred => \A i \in DOMAIN sent : sent[i] # "complete" =>
                   /\ Allowed(sent[i])
                   /\ \A j \in DOMAIN sent : sent[j] = sent[i] => j = i
=============================================================================
