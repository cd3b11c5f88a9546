---------------------------- MODULE MetadataQuery ----------------------------
(***************************************************************************)
(* The queries for the metadata of a peer that goroutines share            *)
(* (internal/p2p/metadata_query.go), and the scheduler of the fetches that *)
(* failed (metadata_retry_scheduler.go), which takes the peer off the list *)
(* of known peers when it gives up.  Any fetch may fail.                   *)
(***************************************************************************)
EXTENDS Integers

CONSTANTS Callers,    \* goroutines that call QueryMetadata
          MaxRetries  \* metadata_fetch_retry_count

ASSUME QueryAssumption == MaxRetries \in Nat \ {0}

VARIABLES
  known,      \* the peer is a known peer
  pending,    \* attempts of its entry in pendingFetches, 0 without one
  inflight,   \* its entry in inflightQueries
  caller      \* what the callers of QueryMetadata are doing

queryVars == <<known, pending, inflight, caller>>

QueryInit ==
  /\ known = FALSE /\ pending = 0
  /\ inflight = "none"
  /\ caller = [c \in Callers |-> "idle"]

\* The caller that makes the entry runs the query; others wait for it, or take its answer in
\* the second it is still there.
QueryMetadata(c) ==
  /\ caller[c] = "idle" /\ known
  /\ inflight' = IF inflight = "none" THEN "running" ELSE inflight
  /\ caller' = [caller EXCEPT ![c] = CASE inflight = "none"    -> "running"
                                       [] inflight = "running" -> "waiting"
                                       [] OTHER                -> inflight]
  /\ UNCHANGED <<known, pending>>

\* Mutant: the waiting callers are told of a result and not of an error.
executeQuietly(c) ==
  /\ caller[c] = "running"
  /\ \E r \in {"found", "error"} :
       /\ inflight' = r
       /\ caller' = [d \in Callers |-> IF d = c \/ (caller[d] = "waiting" /\ r = "found")
                                       THEN r ELSE caller[d]]
  /\ UNCHANGED <<known, pending>>

\* The result or the error, and close(ready).
executeQuery(c) ==
  /\ caller[c] = "running"
  /\ \E r \in {"found", "error"} :
       /\ inflight' = r
       /\ caller' = [d \in Callers |-> IF d = c \/ caller[d] = "waiting" THEN r ELSE caller[d]]
  /\ UNCHANGED <<known, pending>>

\* The timer of the entry.
forgetQuery ==
  /\ inflight \in {"found", "error"}
  /\ inflight' = "none"
  /\ UNCHANGED <<known, pending, caller>>

\* The caller goes on, and may ask again.
Return(c) ==
  /\ caller[c] \in {"found", "error"}
  /\ caller' = [caller EXCEPT ![c] = "idle"]
  /\ UNCHANGED <<known, pending, inflight>>

\* connectToPeerWithMetadata, when its fetch fails and then that of the scheduler.
ScheduleFetch ==
  /\ known /\ pending = 0
  /\ pending' = 1
  /\ UNCHANGED <<known, inflight, caller>>

\* The ticker of the scheduler: given up after too many attempts or too long a time, or another
\* fetch.
retryPendingFetches ==
  /\ pending > 0
  /\ \/ pending' = 0 /\ known' = FALSE
     \/ pending < MaxRetries /\ pending' \in {0, pending + 1} /\ UNCHANGED known
  /\ UNCHANGED <<inflight, caller>>

\* A handshake with the peer, or with a peer that knows it.
StoreKnownPeer ==
  /\ ~known
  /\ known' = TRUE
  /\ UNCHANGED <<pending, inflight, caller>>

QueryNext ==
  \/ forgetQuery \/ ScheduleFetch \/ retryPendingFetches \/ StoreKnownPeer
  \/ \E c \in Callers : QueryMetadata(c) \/ executeQuery(c) \/ Return(c)

QueryTypeOK ==
  /\ known \in BOOLEAN /\ pending \in 0 .. MaxRetries
  /\ inflight \in {"none", "running", "found", "error"}
  /\ (inflight = "running") <=> \E c \in Callers : caller[c] = "running"
  /\ (\E c \in Callers : caller[c] = "waiting") => inflight = "running"

\* Who asks for metadata gets an answer, and a peer whose metadata could not be fetched is
\* fetched or forgotten (QueryMetadata, retryPendingFetches), although callers come and go, join
\* a query that is about to end and start another one.
LookupsEnd ==
  /\ \A c \in Callers : caller[c] \in {"running", "waiting"} ~> caller[c] \in {"found", "error"}
  /\ pending > 0 ~> pending = 0
=============================================================================
