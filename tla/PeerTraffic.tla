----------------------------- MODULE PeerTraffic -----------------------------
(***************************************************************************)
(* What a node has under way with other peers: the session with its relay  *)
(* (RelayClient), requests that wait for an answer (PeerRequests) and a    *)
(* search among all peers (ServiceSearch).  Each reads of the others only  *)
(* what it cannot rely on (a session that may be over, an answer that may  *)
(* not come), so a behaviour is about one of them.                         *)
(***************************************************************************)
EXTENDS RelayClient, PeerRequests, ServiceSearch

VARIABLE part   \* what the behaviour is about

trafficVars == <<vars, requestVars, searchVars, part>>

Parts == {"relay", "requests", "search"}

Keeps(A)    == part = "relay"    /\ A /\ UNCHANGED <<requestVars, searchVars, part>>
Asks(A)     == part = "requests" /\ A /\ UNCHANGED <<vars, searchVars, part>>
Searches(A) == part = "search"   /\ A /\ UNCHANGED <<vars, requestVars, part>>

\* The world of a part that the behaviour is not about is not varied.
TrafficInit ==
  /\ part \in Parts
  /\ Init /\ RequestInit /\ SearchInit
  /\ part # "requests" => connected /\ asks = CHOOSE f \in AskedFor : TRUE
  /\ part # "search" => /\ \A q \in SearchPeers : /\ line[q] = "none" /\ metadata[q] = "unknown"
                                                  /\ answersAt[q] = q
                        /\ filter = NoFilter

TrafficNext == Keeps(Next) \/ Asks(RequestNext) \/ Searches(SearchNext)

\* The goroutines of all parts go on, as does the peer that is asked.  A behaviour is about
\* one part, so a disjunction is as strong as fairness of each.
TrafficFairness ==
  /\ \A t \in Threads : WF_trafficVars(Keeps(Connect(t)))
  /\ WF_trafficVars(\/ Keeps(\E t \in Threads : Notice(t))
                    \/ Asks(PeerHandles \/ Relays)
                    \/ Searches(HandleServiceSearchRequest))
  /\ \A s \in Sessions :
       /\ WF_trafficVars(Keeps(IdleTimeout(s) /\ UNCHANGED clientVars))
       /\ WF_trafficVars(Keeps(HandleRelayReceiveStreamReady(s) /\ UNCHANGED clientVars))
  /\ \A d \in Deliverers : WF_trafficVars(Keeps(Deliver(d) /\ UNCHANGED clientVars))
  /\ \A r \in Requests : WF_trafficVars(Asks(Call(r)))

TrafficSpec == TrafficInit /\ [][TrafficNext]_trafficVars /\ TrafficFairness

\* The types of all parts.
TrafficTypeOK == TypeOK /\ RequestTypeOK /\ SearchTypeOK /\ part \in Parts

\* Every request ends, with an answer or an error, and so does a search, whatever is lost or
\* late (trySendWithRetry of job_handler.go, HandleServiceSearchRequest of
\* service_search_handler.go).
RequestsEnd ==
  <>(/\ part = "requests" => \A r \in Requests : callPc[r] = "done"
     /\ part = "search" => spc = "over")
=============================================================================
