---------------------------- MODULE PeerRequests ----------------------------
(***************************************************************************)
(* Requests that wait for an answer, from the goroutines of one node to    *)
(* one peer: orders of jobs, start commands, status requests, cancels,     *)
(* capability queries and service searches.  A request goes over a         *)
(* connection if there is one and otherwise, or when that fails, through   *)
(* the peer's relay, with one retry (p2p/job_handler.go, p2p/quic.go); the *)
(* relay keeps the stream of a request under the names of the two peers    *)
(* until an answer passes (p2p/relay.go, p2p/relay_manager.go).            *)
(*                                                                         *)
(* A copy of a request is <<r, n>>: n = 0 goes over a connection, n = 1    *)
(* and 2 through the relay.  A copy and its answer take any time, and a    *)
(* deadline may pass while they are under way.  The session a request      *)
(* names comes from a cache or from metadata, and may be over.             *)
(***************************************************************************)
EXTENDS Naturals, FiniteSets

CONSTANTS Requests,        \* goroutines that send one request each
          AskedFor,        \* what they ask for, functions from Requests to RequestKinds
          MaxRequestFaults,\* bound on lost connections, failed forwards, old sessions
          NoCopy, NoAnswer

RequestKinds == {"paid", "free", "start", "status", "cancel", "capabilities", "search"}

ASSUME RequestConstantsAssumption ==
  /\ IsFiniteSet(Requests) /\ MaxRequestFaults \in Nat
  /\ AskedFor \subseteq [Requests -> RequestKinds]
  /\ NoCopy \notin Requests \cup (Requests \X (0..2))
  /\ NoAnswer \notin [of : Requests, ok : BOOLEAN]

VARIABLES asks,       \* what each request asks for
          callPc, try,   \* of its goroutine: the step, the copy
          result,     \* what the caller got
          connected,  \* the node has a connection of the peer
          atRelay,    \* copies on their way to the relay
          atPeer,     \* copies on their way to the peer
          answers,    \* answers on their way to the relay
          noted,      \* pendingRequests for the two peers: the copy that waits
          jobs,       \* job executions of the peer, per order
          reqFaults,
          overlap     \* history: a copy came to the relay while one of another
                      \* request was noted or under way

caller == <<asks, callPc, try, result>>
wires  == <<atRelay, atPeer, answers, noted, overlap>>
requestVars == <<caller, wires, connected, jobs, reqFaults>>

Orders == {"paid", "free"}
Copies == Requests \X (0..2)
Answers == [of : Requests, ok : BOOLEAN]
Failed == [of |-> NoCopy, ok |-> FALSE]     \* an error, or a text that is no message

\* The types of the goroutines, of what is under way, and of the peer's jobs.
RequestTypeOK ==
  /\ asks \in [Requests -> RequestKinds]
  /\ callPc \in [Requests -> {"begin", "direct", "send", "await", "done"}]
  /\ try \in [Requests -> 0..2]
  /\ \A r \in Requests : result[r] \in Answers \cup {Failed, NoAnswer}
  /\ connected \in BOOLEAN
  /\ atRelay \subseteq Copies /\ atPeer \subseteq Copies
  /\ answers \subseteq Copies \X BOOLEAN
  /\ noted \in Copies \cup {NoCopy}
  /\ jobs \in [Requests -> 0..3]
  /\ reqFaults \in 0..MaxRequestFaults /\ overlap \in BOOLEAN

RequestInit ==
  /\ asks \in AskedFor
  /\ callPc = [r \in Requests |-> "begin"] /\ try = [r \in Requests |-> 0]
  /\ result = [r \in Requests |-> NoAnswer]
  /\ connected \in BOOLEAN
  /\ atRelay = {} /\ atPeer = {} /\ answers = {} /\ noted = NoCopy
  /\ jobs = [r \in Requests |-> 0]
  /\ reqFaults = 0 /\ overlap = FALSE

RequestFault == reqFaults < MaxRequestFaults /\ reqFaults' = reqFaults + 1

-----------------------------------------------------------------------------
(* The caller *)

CallTo(r, to) == callPc' = [callPc EXCEPT ![r] = to]

Return(r, answer) == /\ result' = [result EXCEPT ![r] = answer]
                     /\ CallTo(r, "done")

\* The caller reads the stream of this copy.
Waits(c) == /\ c # NoCopy
            /\ \/ callPc[c[1]] = "direct" /\ c[2] = 0
               \/ callPc[c[1]] = "await" /\ c[2] = try[c[1]]

\* What is written to the stream of a copy reaches its caller if that still reads.
WriteTo(c, answer) ==
  IF Waits(c) THEN Return(c[1], answer) ELSE UNCHANGED <<result, callPc>>

\* Where the relay is not tried, the error is returned.
TryRelay(r, tried) == IF tried THEN CallTo(r, "send") /\ UNCHANGED result
                               ELSE Return(r, Failed)

\* SendMessageWithResponse writes the request to a stream of the connection.  It reads
\* without a deadline: until the answer, or the connection is lost.  A cancel is sent over
\* a connection or not at all.
SendMessageWithResponse(r) ==
  /\ callPc[r] = "begin"
  /\ IF connected THEN /\ CallTo(r, "direct") /\ atPeer' = atPeer \cup {<<r, 0>>}
                       /\ UNCHANGED result
                  ELSE TryRelay(r, asks[r] # "cancel") /\ UNCHANGED atPeer
  /\ UNCHANGED <<asks, try, atRelay, answers, noted, overlap, connected, jobs, reqFaults>>

\* FetchPeerCapabilities goes through the relay only if there was no connection.
ReadFails(r) ==
  /\ callPc[r] = "direct" /\ ~connected
  /\ TryRelay(r, asks[r] \notin {"cancel", "capabilities"})
  /\ UNCHANGED <<asks, try, wires, connected, jobs, reqFaults>>

\* No relay is known for the peer, or it cannot be reached.
getRelayInfoFails(r) ==
  /\ RequestFault /\ Return(r, Failed)
  /\ UNCHANGED <<try, atRelay>>

\* The copy is written to a stream to the relay.
doSendMessageWithResponse(r) ==
  /\ try' = [try EXCEPT ![r] = @ + 1]
  /\ atRelay' = atRelay \cup {<<r, try[r] + 1>>}
  /\ CallTo(r, "await")
  /\ UNCHANGED <<result, reqFaults>>

sendMessageViaRelay(r) ==
  /\ callPc[r] = "send"
  /\ getRelayInfoFails(r) \/ doSendMessageWithResponse(r)
  /\ UNCHANGED <<asks, atPeer, answers, noted, overlap, connected, jobs>>

\* A query of capabilities is not tried again.
MaxTries(r) == IF asks[r] = "capabilities" THEN 1 ELSE 2

\* A mutant: a request that timed out is sent again as often as it takes.
RetryForEver(r) ==
  /\ callPc[r] = "await"
  /\ try' = [try EXCEPT ![r] = 0] /\ CallTo(r, "send")
  /\ UNCHANGED <<asks, result, wires, connected, jobs, reqFaults>>

\* The read deadline of 30 seconds passes, and the cached relay is forgotten; the answer
\* may still come.
trySendWithRetry(r) ==
  /\ callPc[r] = "await"
  /\ IF try[r] < MaxTries(r) THEN CallTo(r, "send") /\ UNCHANGED result
                             ELSE Return(r, Failed)
  /\ UNCHANGED <<asks, try, wires, connected, jobs, reqFaults>>

-----------------------------------------------------------------------------
(* The peer *)

\* A mutant: the payment is not looked up.
TakenNever(r) == FALSE

\* A payment is taken once, by its nonce.
Taken(r) == asks[r] = "paid" /\ jobs[r] > 0

\* An order makes the job, or is refused.
onJobRequest(r) ==
  /\ asks[r] \in Orders
  /\ jobs' = IF Taken(r) THEN jobs ELSE [jobs EXCEPT ![r] = @ + 1]

\* Start commands, status requests and cancels are answered, whatever the answer says of
\* the job (JobExecution).
onJobCommand(r) == asks[r] \in {"start", "status", "cancel"} /\ UNCHANGED jobs

\* Queries are answered from what the peer offers.
answerQuery(r) == asks[r] \in {"capabilities", "search"} /\ UNCHANGED jobs

Execute(r) == onJobRequest(r) \/ onJobCommand(r) \/ answerQuery(r)

\* The stream is read until it holds a message, which its type hands to a handler.
handleStream(c) == c \in atPeer /\ atPeer' = atPeer \ {c}

\* The answer goes back on the stream of the connection.
HandleJobMessage(c) ==
  /\ c[2] = 0
  /\ IF connected THEN WriteTo(c, [of |-> c[1], ok |-> ~Taken(c[1])])
                  ELSE UNCHANGED <<result, callPc>>
  /\ UNCHANGED answers

\* The relay names the sender in the messages of its list; a start command is not in it, and
\* what has no sender has no answer.
NamesSender(r) == asks[r] # "start"

\* The answer goes to the relay, in a message of its own.
sendResponseViaRelay(c) == answers' = answers \cup {<<c, ~Taken(c[1])>>}

HandleRelayedJobMessage(c) ==
  IF NamesSender(c[1]) THEN sendResponseViaRelay(c) ELSE UNCHANGED answers

HandleRelayedMessage(c) ==
  /\ c[2] # 0 /\ HandleRelayedJobMessage(c)
  /\ UNCHANGED <<result, callPc>>

HandleCopy(c) ==
  /\ handleStream(c)
  /\ Execute(c[1])
  /\ HandleJobMessage(c) \/ HandleRelayedMessage(c)
  /\ UNCHANGED <<asks, try, atRelay, noted, overlap, connected, reqFaults>>

-----------------------------------------------------------------------------
(* The relay *)

\* A copy of another request is noted, or between the relay and an answer.
Overlaps(c) == \E d \in Copies : /\ d[1] # c[1] /\ d[2] # 0
                                 /\ \/ d = noted \/ d \in atPeer
                                    \/ \E ok \in BOOLEAN : <<d, ok>> \in answers

\* The stream of a request is noted, in the place of what is there.
NoteRequest(c) == noted' = c

\* It is forwarded; if that fails, an error is written and the note stays.
ForwardNoted(c) ==
  \/ /\ atPeer' = atPeer \cup {c}
     /\ UNCHANGED <<result, callPc, reqFaults>>
  \/ /\ RequestFault /\ WriteTo(c, Failed) /\ UNCHANGED atPeer

\* A request of a session that is over is forwarded without being noted, and answered with a
\* word.
ForwardUnnoted(c) ==
  /\ RequestFault /\ atPeer' = atPeer \cup {c}
  /\ WriteTo(c, Failed) /\ UNCHANGED noted

HandleRelayForward(c) ==
  /\ c \in atRelay /\ atRelay' = atRelay \ {c}
  /\ overlap' = (overlap \/ Overlaps(c))
  /\ (NoteRequest(c) /\ ForwardNoted(c)) \/ ForwardUnnoted(c)
  /\ UNCHANGED <<asks, try, answers, connected, jobs>>

\* The answer goes to the stream that is noted, whoever waits on it.
handleRelayResponse(c, ok) ==
  /\ <<c, ok>> \in answers /\ answers' = answers \ {<<c, ok>>}
  /\ WriteTo(noted, [of |-> c[1], ok |-> ok])
  /\ noted' = NoCopy
  /\ UNCHANGED <<asks, try, atRelay, atPeer, overlap, connected, jobs, reqFaults>>

DirectConnectionLost ==
  /\ connected /\ RequestFault /\ connected' = FALSE
  /\ UNCHANGED <<caller, wires, jobs>>

-----------------------------------------------------------------------------
Steps(r) == \/ SendMessageWithResponse(r) \/ ReadFails(r)
            \/ sendMessageViaRelay(r) \/ trySendWithRetry(r)

SendJobRequest(r)        == asks[r] \in Orders /\ Steps(r)
SendJobStart(r)          == asks[r] = "start" /\ Steps(r)
SendJobStatusRequest(r)  == asks[r] = "status" /\ Steps(r)
SendJobCancel(r)         == asks[r] = "cancel" /\ Steps(r)
FetchPeerCapabilities(r) == asks[r] = "capabilities" /\ Steps(r)
queryPeerServices(r)     == asks[r] = "search" /\ Steps(r)

Call(r) == \/ SendJobRequest(r) \/ SendJobStart(r) \/ SendJobStatusRequest(r)
           \/ SendJobCancel(r) \/ FetchPeerCapabilities(r) \/ queryPeerServices(r)

PeerHandles == \E c \in atPeer : HandleCopy(c)

Relays == \/ \E c \in atRelay : HandleRelayForward(c)
          \/ \E a \in answers : handleRelayResponse(a[1], a[2])

RequestNext == \/ \E r \in Requests : Call(r)
               \/ PeerHandles \/ Relays \/ DirectConnectionLost

-----------------------------------------------------------------------------
\* A paid order makes at most one job at the provider, although it is sent again through
\* the relay when the connection or the relay fails, and the first copy may have been
\* executed (job_handler.go, SendJobRequest and trySendJobRequestWithRetry).  A caller that
\* is told "accepted" has a job there, and is told of its own request, if the requests of
\* the two peers did not overlap at the relay.
OrdersAreSound ==
  \A r \in Requests :
    /\ asks[r] = "paid" => jobs[r] <= 1
    /\ ~overlap /\ result[r] \in Answers
         => /\ result[r].of = r
            /\ asks[r] \in Orders /\ result[r].ok => jobs[r] > 0

\* An answer is that of the caller's own request: "key: correlationID
\* (sourcePeerID:targetPeerID:timestamp)" (relay.go).
AnswersAreOwn == \A r \in Requests : result[r] \in Answers => result[r].of = r
=============================================================================
