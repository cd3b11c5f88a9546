------------------------- MODULE PeerTraffic_proofs -------------------------
(***************************************************************************)
(* Proofs about PeerTraffic, for any numbers of sessions, goroutines,      *)
(* messages, rows, requests and peers: its types (TrafficTypeOK), that an  *)
(* order is executed and answered as it should be (OrdersAreSound), that a *)
(* message whose sender was told "success" is kept (ConfirmedIsKept), and  *)
(* that a search shows every peer once (SearchIsSound).                    *)
(***************************************************************************)
EXTENDS PeerTraffic, FiniteSetTheorems, TLAPS

-----------------------------------------------------------------------------
(* Requests.                                                                *)

\* The types, and where a goroutine of a request can be.
CallInv ==
  /\ asks \in [Requests -> RequestKinds]
  /\ callPc \in [Requests -> {"begin", "direct", "send", "await", "done"}]
  /\ try \in [Requests -> 0..2]
  /\ result \in [Requests -> Answers \cup {Failed, NoAnswer}]
  /\ \A r \in Requests : callPc[r] = "send" => try[r] < 2
  /\ \A r \in Requests : callPc[r] \in {"begin", "direct"} => try[r] = 0
  /\ connected \in BOOLEAN /\ overlap \in BOOLEAN
  /\ reqFaults \in 0..MaxRequestFaults

\* A copy is at one place, was sent, and goes through the relay unless it is the first.
WireInv ==
  /\ atRelay \subseteq Copies /\ atPeer \subseteq Copies
  /\ answers \subseteq Copies \X BOOLEAN
  /\ noted \in Copies \cup {NoCopy}
  /\ \A c \in atRelay : c[2] # 0 /\ c[2] <= try[c[1]] /\ c \notin atPeer
  /\ \A c \in atPeer : c[2] <= try[c[1]] /\ (c[2] = 0 => callPc[c[1]] # "begin")
  /\ noted # NoCopy => noted[2] # 0
  /\ \A a \in answers : a[1][2] # 0

\* A copy that the peer may still be handed.
ToCome(r, n) == \/ n = 0 /\ callPc[r] = "begin"
                \/ n > try[r]
                \/ <<r, n>> \in atRelay \cup atPeer

Count(P) == IF P THEN 1 ELSE 0

\* Each copy makes at most one job, and a payment at most one.
JobInv ==
  /\ jobs \in [Requests -> Nat]
  /\ \A r \in Requests :
       jobs[r] + Count(ToCome(r, 0)) + Count(ToCome(r, 1)) + Count(ToCome(r, 2)) <= 3
  /\ \A r \in Requests : asks[r] = "paid" => jobs[r] <= 1

\* A copy between the relay and its answer.
UnderWay(d) == \/ d = noted \/ d \in atPeer
               \/ \E ok \in BOOLEAN : <<d, ok>> \in answers

\* Without an overlap, what is under way through the relay is of one request; an answer,
\* and what a caller got, is true.
AnswerInv ==
  /\ ~overlap => \A d, e \in Copies :
       d[2] # 0 /\ e[2] # 0 /\ UnderWay(d) /\ UnderWay(e) => d[1] = e[1]
  /\ \A a \in answers : asks[a[1][1]] \in Orders /\ a[2] => jobs[a[1][1]] > 0
  /\ ~overlap => \A r \in Requests : result[r] \in Answers =>
       /\ result[r].of = r
       /\ asks[r] \in Orders /\ result[r].ok => jobs[r] > 0

RequestInv == CallInv /\ WireInv /\ JobInv /\ AnswerInv

\* An error and "no answer yet" are not answers (relay.go, job_handler.go: an error text is
\* not a message).
LEMMA FailedIsNoAnswer == Failed \notin Answers /\ NoAnswer \notin Answers
  BY RequestConstantsAssumption DEF Failed, Answers

\* What a write to the stream of a copy does (handleRelayResponse of relay.go).
LEMMA WriteToEffect ==
  ASSUME CallInv, NEW c, NEW a \in Answers \cup {Failed}, WriteTo(c, a)
  PROVE  /\ callPc' \in [Requests -> {"begin", "direct", "send", "await", "done"}]
         /\ \A r \in Requests : callPc'[r] \in {callPc[r], "done"}
         /\ result' \in [Requests -> Answers \cup {Failed, NoAnswer}]
         /\ \A r \in Requests : result'[r] = result[r]
                                  \/ (c # NoCopy /\ r = c[1] /\ result'[r] = a)
  BY DEF CallInv, WriteTo, Waits, Return, CallTo

\* Where the relay is tried or the error returned (SendJobRequest of job_handler.go).
LEMMA TryRelayEffect ==
  ASSUME CallInv, NEW r \in Requests, NEW b, TryRelay(r, b)
  PROVE  /\ callPc' \in [Requests -> {"begin", "direct", "send", "await", "done"}]
         /\ callPc'[r] \in {"send", "done"}
         /\ \A u \in Requests \ {r} : callPc'[u] = callPc[u]
         /\ result' \in [Requests -> Answers \cup {Failed, NoAnswer}]
         /\ \A u \in Requests : result'[u] \in {result[u], Failed}
  BY DEF CallInv, TryRelay, Return, CallTo

\* The steps of the caller: what they send, and that they get no answer.
LEMMA CallerEffect ==
  ASSUME CallInv, NEW r \in Requests,
         \/ SendMessageWithResponse(r) \/ ReadFails(r)
         \/ sendMessageViaRelay(r) \/ trySendWithRetry(r)
  PROVE  /\ CallInv'
         /\ UNCHANGED <<asks, answers, noted, overlap, jobs>>
         /\ \A u \in Requests : result'[u] \in {result[u], Failed}
         /\ \A u \in Requests : try'[u] \in {try[u], try[u] + 1}
         /\ \A u \in Requests : callPc'[u] = "begin" => callPc[u] = "begin"
         /\ atPeer' = atPeer \/ (/\ atPeer' = atPeer \cup {<<r, 0>>}
                                 /\ callPc[r] = "begin" /\ callPc'[r] # "begin"
                                 /\ try' = try /\ atRelay' = atRelay)
         /\ (atRelay' = atRelay /\ try' = try)
              \/ (/\ atRelay' = atRelay \cup {<<r, try[r] + 1>>} /\ atPeer' = atPeer
                  /\ try'[r] = try[r] + 1 /\ \A u \in Requests \ {r} : try'[u] = try[u])
<1>1. CASE SendMessageWithResponse(r)
  <2>0. UNCHANGED <<asks, try, atRelay, answers, noted, overlap, connected, jobs, reqFaults>>
    BY <1>1 DEF SendMessageWithResponse
  <2>1. CASE connected
    <3>1. /\ callPc' = [callPc EXCEPT ![r] = "direct"] /\ callPc[r] = "begin"
          /\ atPeer' = atPeer \cup {<<r, 0>>} /\ result' = result
      BY <1>1, <2>1 DEF SendMessageWithResponse, CallTo
    <3> QED BY <2>0, <3>1 DEF CallInv
  <2>2. CASE ~connected
    <3>1. atPeer' = atPeer /\ TryRelay(r, asks[r] # "cancel") /\ callPc[r] = "begin"
      BY <1>1, <2>2 DEF SendMessageWithResponse
    <3> QED BY <2>0, <3>1, TryRelayEffect DEF CallInv
  <2> QED BY <2>1, <2>2
<1>2. CASE ReadFails(r)
  <2>1. UNCHANGED <<asks, try, wires, connected, jobs, reqFaults>> /\ callPc[r] = "direct"
    BY <1>2 DEF ReadFails
  <2>2. TryRelay(r, asks[r] \notin {"cancel", "capabilities"})
    BY <1>2 DEF ReadFails
  <2> QED BY <2>1, <2>2, TryRelayEffect DEF CallInv, wires
<1>3. CASE sendMessageViaRelay(r)
  <2>1. CASE getRelayInfoFails(r)
    BY <1>3, <2>1, RequestConstantsAssumption DEF CallInv, sendMessageViaRelay, getRelayInfoFails, CallTo, Return, RequestFault
  <2>2. CASE doSendMessageWithResponse(r)
    BY <1>3, <2>2 DEF CallInv, sendMessageViaRelay, doSendMessageWithResponse, CallTo
  <2> QED BY <1>3, <2>1, <2>2 DEF sendMessageViaRelay
<1>4. CASE trySendWithRetry(r)
  BY <1>4 DEF CallInv, trySendWithRetry, CallTo, Return, wires, MaxTries
<1> QED BY <1>1, <1>2, <1>3, <1>4

\* The steps of the caller keep the invariant.
LEMMA CallerKeeps ==
  ASSUME RequestInv, NEW r \in Requests,
         \/ SendMessageWithResponse(r) \/ ReadFails(r)
         \/ sendMessageViaRelay(r) \/ trySendWithRetry(r)
  PROVE  RequestInv'
<1>1. CallInv /\ WireInv /\ JobInv /\ AnswerInv
  BY DEF RequestInv
<1>2. CallInv' /\ UNCHANGED <<asks, answers, noted, overlap, jobs>>
  BY <1>1, CallerEffect
<1>3. \A u \in Requests : result'[u] \in {result[u], Failed}
  BY <1>1, CallerEffect
<1>4. \A u \in Requests : /\ try'[u] \in {try[u], try[u] + 1}
                          /\ callPc'[u] = "begin" => callPc[u] = "begin"
  BY <1>1, CallerEffect
<1>5. atPeer' = atPeer \/ (/\ atPeer' = atPeer \cup {<<r, 0>>}
                           /\ callPc[r] = "begin" /\ callPc'[r] # "begin"
                           /\ try' = try /\ atRelay' = atRelay)
  BY <1>1, CallerEffect
<1>6. (atRelay' = atRelay /\ try' = try)
              \/ (/\ atRelay' = atRelay \cup {<<r, try[r] + 1>>} /\ atPeer' = atPeer
                  /\ try'[r] = try[r] + 1 /\ \A u \in Requests \ {r} : try'[u] = try[u])
  BY <1>1, CallerEffect
<1>7. try \in [Requests -> 0..2] /\ try' \in [Requests -> 0..2]
  BY <1>1, <1>2 DEF CallInv
<1>8. WireInv'
  BY <1>1, <1>2, <1>4, <1>5, <1>6, <1>7 DEF WireInv, Copies
<1>9. JobInv'
  <2>1. ASSUME NEW u \in Requests, NEW n \in 0..2, ToCome(u, n)'
        PROVE  ToCome(u, n)
    BY <2>1, <1>4, <1>5, <1>6, <1>7 DEF ToCome
  <2> QED BY <1>1, <1>2, <2>1 DEF JobInv, Count
<1>10. AnswerInv'
  <2>1. \A d \in Copies : d[2] # 0 /\ UnderWay(d)' => UnderWay(d)
    BY <1>2, <1>5 DEF UnderWay, Copies
  <2>2. \A u \in Requests : result'[u] \in Answers => result'[u] = result[u]
    BY <1>3, FailedIsNoAnswer
  <2> QED BY <1>1, <1>2, <2>1, <2>2 DEF AnswerInv
<1> QED BY <1>2, <1>8, <1>9, <1>10 DEF RequestInv

\* What a handler of the peer does: one job at most, and an answer that is true
\* (HandleJobMessage and HandleRelayedJobMessage of job_handler.go).
LEMMA HandleEffect ==
  ASSUME RequestInv, NEW c \in atPeer, HandleCopy(c)
  PROVE  /\ CallInv'
         /\ UNCHANGED <<asks, try, atRelay, noted, overlap>>
         /\ atPeer' = atPeer \ {c}
         /\ \A u \in Requests : callPc'[u] \in {callPc[u], "done"}
         /\ jobs' = jobs \/ (/\ ~Taken(c[1]) /\ asks[c[1]] \in Orders
                             /\ jobs' = [jobs EXCEPT ![c[1]] = @ + 1])
         /\ asks[c[1]] \in Orders /\ ~Taken(c[1]) => jobs'[c[1]] = jobs[c[1]] + 1
         /\ answers' = answers
              \/ (c[2] # 0 /\ answers' = answers \cup {<<c, ~Taken(c[1])>>})
         /\ \A u \in Requests :
              \/ result'[u] = result[u]
              \/ u = c[1] /\ result'[u] = [of |-> c[1], ok |-> ~Taken(c[1])]
<1>0. CallInv /\ WireInv /\ JobInv /\ c \in Copies
  BY DEF RequestInv, WireInv
<1>1. /\ UNCHANGED <<asks, try, atRelay, noted, overlap, connected, reqFaults>>
      /\ atPeer' = atPeer \ {c}
  BY DEF HandleCopy, handleStream
<1>2. c[1] \in Requests /\ Taken(c[1]) \in BOOLEAN /\ [of |-> c[1], ok |-> ~Taken(c[1])] \in Answers
  BY <1>0 DEF Copies, Answers, Taken
<1>3. /\ jobs' = jobs \/ (/\ ~Taken(c[1]) /\ asks[c[1]] \in Orders
                          /\ jobs' = [jobs EXCEPT ![c[1]] = @ + 1])
      /\ asks[c[1]] \in Orders /\ ~Taken(c[1]) => jobs' = [jobs EXCEPT ![c[1]] = @ + 1]
  BY DEF HandleCopy, Execute, onJobRequest, onJobCommand, answerQuery, Orders
<1>4. asks[c[1]] \in Orders /\ ~Taken(c[1]) => jobs'[c[1]] = jobs[c[1]] + 1
  BY <1>0, <1>2, <1>3 DEF JobInv
<1>5. answers' = answers \/ (c[2] # 0 /\ answers' = answers \cup {<<c, ~Taken(c[1])>>})
  BY DEF HandleCopy, HandleJobMessage, HandleRelayedMessage, HandleRelayedJobMessage,
         sendResponseViaRelay
<1>6. WriteTo(c, [of |-> c[1], ok |-> ~Taken(c[1])]) \/ UNCHANGED <<result, callPc>>
  BY DEF HandleCopy, HandleJobMessage, HandleRelayedMessage
<1>7. /\ callPc' \in [Requests -> {"begin", "direct", "send", "await", "done"}]
      /\ \A u \in Requests : callPc'[u] \in {callPc[u], "done"}
      /\ result' \in [Requests -> Answers \cup {Failed, NoAnswer}]
      /\ \A u \in Requests : result'[u] = result[u]
           \/ (c # NoCopy /\ u = c[1] /\ result'[u] = [of |-> c[1], ok |-> ~Taken(c[1])])
  <2>1. CASE WriteTo(c, [of |-> c[1], ok |-> ~Taken(c[1])])
    BY <1>0, <1>2, <2>1, WriteToEffect
  <2>2. CASE UNCHANGED <<result, callPc>>
    BY <1>0, <2>2 DEF CallInv
  <2> QED BY <1>6, <2>1, <2>2
<1>8. CallInv'
  BY <1>0, <1>1, <1>7 DEF CallInv
<1> QED BY <1>1, <1>3, <1>4, <1>5, <1>7, <1>8

\* A copy is handled: at most one job, an answer on the stream it came by or to the relay.
LEMMA HandleKeeps ==
  ASSUME RequestInv, NEW c \in atPeer, HandleCopy(c)
  PROVE  RequestInv'
<1>1. CallInv /\ WireInv /\ JobInv /\ AnswerInv /\ c \in Copies /\ c[1] \in Requests
  BY DEF RequestInv, WireInv, Copies
<1>2. CallInv' /\ UNCHANGED <<asks, try, atRelay, noted, overlap>> /\ atPeer' = atPeer \ {c}
  BY HandleEffect
<1>3. \A u \in Requests : callPc'[u] \in {callPc[u], "done"}
  BY HandleEffect
<1>4. jobs' = jobs \/ (/\ ~Taken(c[1]) /\ asks[c[1]] \in Orders
                       /\ jobs' = [jobs EXCEPT ![c[1]] = @ + 1])
  BY HandleEffect
<1>5. asks[c[1]] \in Orders /\ ~Taken(c[1]) => jobs'[c[1]] = jobs[c[1]] + 1
  BY HandleEffect
<1>0. PICK ok \in BOOLEAN : ok = ~Taken(c[1])
  OBVIOUS
<1>12. asks[c[1]] \in Orders /\ ok => jobs'[c[1]] = jobs[c[1]] + 1
  BY <1>0, <1>5, Zenon
<1>6. answers' = answers \/ (c[2] # 0 /\ answers' = answers \cup {<<c, ok>>})
  BY <1>0, HandleEffect
<1>7. \A u \in Requests :
              \/ result'[u] = result[u]
              \/ u = c[1] /\ result'[u] = [of |-> c[1], ok |-> ok]
  BY <1>0, HandleEffect
<1>8. WireInv'
  BY <1>1, <1>2, <1>3, <1>6 DEF WireInv, Copies
<1>9. jobs \in [Requests -> Nat] /\ jobs' \in [Requests -> Nat]
      /\ \A u \in Requests : jobs'[u] >= jobs[u] /\ (u # c[1] => jobs'[u] = jobs[u])
      /\ jobs'[c[1]] <= jobs[c[1]] + 1
  BY <1>1, <1>4 DEF JobInv
<1>10. JobInv'
  <2>1. ASSUME NEW u \in Requests, NEW n \in 0..2, ToCome(u, n)'
        PROVE  ToCome(u, n)
    BY <2>1, <1>2, <1>3 DEF ToCome
  <2>2. ToCome(c[1], c[2]) /\ ~ToCome(c[1], c[2])' /\ c[2] \in 0..2
    BY <1>1, <1>2, <1>3 DEF ToCome, WireInv, Copies, CallInv
  <2>3. ASSUME NEW u \in Requests
        PROVE  jobs'[u] + Count(ToCome(u, 0))' + Count(ToCome(u, 1))' + Count(ToCome(u, 2))' <= 3
    <3>1. CASE u = c[1]
      <4>1. c[2] = 0 \/ c[2] = 1 \/ c[2] = 2
        BY <2>2
      <4> QED BY <3>1, <4>1, <1>1, <1>9, <2>1, <2>2 DEF JobInv, Count
    <3>2. CASE u # c[1]
      BY <3>2, <1>1, <1>9, <2>1 DEF JobInv, Count
    <3> QED BY <3>1, <3>2
  <2>4. ASSUME NEW u \in Requests, asks[u] = "paid"
        PROVE  jobs'[u] <= 1
    BY <2>4, <1>1, <1>4, <1>9 DEF JobInv, Taken
  <2> QED BY <1>2, <1>9, <2>3, <2>4 DEF JobInv
<1>11. AnswerInv'
  <2>1. \A d \in Copies : d[2] # 0 /\ UnderWay(d)' => UnderWay(d)
    BY <1>1, <1>2, <1>6 DEF UnderWay, Copies
  <2>2. \A a \in answers' : asks[a[1][1]] \in Orders /\ a[2] => jobs'[a[1][1]] > 0
    <3>1. \A a \in answers : a[1][1] \in Requests
      BY <1>1 DEF WireInv, Copies
    <3>2. \A a \in answers : asks[a[1][1]] \in Orders /\ a[2] => jobs'[a[1][1]] > 0
      BY <1>1, <1>9, <3>1 DEF AnswerInv
    <3>3. asks[c[1]] \in Orders /\ ok => jobs'[c[1]] > 0
      BY <1>1, <1>12, <1>9
    <3> QED BY <1>6, <3>2, <3>3
  <2>3. ~overlap => \A r \in Requests : result'[r] \in Answers =>
          /\ result'[r].of = r
          /\ asks[r] \in Orders /\ result'[r].ok => jobs'[r] > 0
    <3>1. asks[c[1]] \in Orders /\ ok => jobs'[c[1]] > 0
      BY <1>1, <1>12, <1>9
    <3> QED BY <1>1, <1>7, <1>9, <3>1 DEF AnswerInv
  <2> QED BY <1>1, <1>2, <2>1, <2>2, <2>3 DEF AnswerInv
<1> QED BY <1>2, <1>8, <1>10, <1>11 DEF RequestInv

\* A copy comes to the relay: it is noted and forwarded, or an error is written.
LEMMA ForwardKeeps ==
  ASSUME RequestInv, NEW c \in atRelay, HandleRelayForward(c)
  PROVE  RequestInv'
<1>1. CallInv /\ WireInv /\ JobInv /\ AnswerInv /\ c \in Copies /\ c[1] \in Requests
      /\ c[2] # 0
  BY DEF RequestInv, WireInv, Copies
<1>2. /\ UNCHANGED <<asks, try, answers, connected, jobs>>
      /\ atRelay' = atRelay \ {c} /\ overlap' = (overlap \/ Overlaps(c))
      /\ noted' \in {c, noted} /\ atPeer' \in {atPeer, atPeer \cup {c}}
      /\ reqFaults' = reqFaults \/ RequestFault
      /\ WriteTo(c, Failed) \/ UNCHANGED <<result, callPc>>
  BY DEF HandleRelayForward, NoteRequest, ForwardNoted, ForwardUnnoted
<1>3. /\ callPc' \in [Requests -> {"begin", "direct", "send", "await", "done"}]
      /\ \A u \in Requests : callPc'[u] \in {callPc[u], "done"}
      /\ result' \in [Requests -> Answers \cup {Failed, NoAnswer}]
      /\ \A u \in Requests : result'[u] \in {result[u], Failed}
  <2>1. CASE WriteTo(c, Failed)
    BY <1>1, <2>1, WriteToEffect
  <2>2. CASE UNCHANGED <<result, callPc>>
    BY <1>1, <2>2 DEF CallInv
  <2> QED BY <1>2, <2>1, <2>2
<1>4. CallInv'
  <2>1. reqFaults' \in 0..MaxRequestFaults
    BY <1>1, <1>2, RequestConstantsAssumption DEF CallInv, RequestFault
  <2>2. overlap' \in BOOLEAN
    BY <1>2
  <2> QED BY <1>1, <1>2, <1>3, <2>1, <2>2 DEF CallInv
<1>5. WireInv'
  BY <1>1, <1>2, <1>3 DEF WireInv, Copies
<1>6. JobInv'
  <2>1. ASSUME NEW u \in Requests, NEW n \in 0..2, ToCome(u, n)'
        PROVE  ToCome(u, n)
    BY <2>1, <1>2, <1>3 DEF ToCome
  <2> QED BY <1>1, <1>2, <2>1 DEF JobInv, Count
<1>7. AnswerInv'
  <2>1. \A u \in Requests : result'[u] \in Answers => result'[u] = result[u]
    BY <1>3, FailedIsNoAnswer
  <2>2. \A d \in Copies : UnderWay(d)' => d = c \/ UnderWay(d)
    BY <1>2 DEF UnderWay
  <2>3. ~overlap' => \A d \in Copies : d[2] # 0 /\ UnderWay(d) => d[1] = c[1]
    BY <1>2 DEF Overlaps, UnderWay
  <2>4. ~overlap' => ~overlap
    BY <1>2
  <2>5. ~overlap' => \A d, e \in Copies :
          d[2] # 0 /\ e[2] # 0 /\ UnderWay(d)' /\ UnderWay(e)' => d[1] = e[1]
    BY <2>2, <2>3
  <2> QED BY <1>1, <1>2, <2>1, <2>4, <2>5 DEF AnswerInv
<1> QED BY <1>4, <1>5, <1>6, <1>7 DEF RequestInv

\* An answer passes the relay and goes to the stream that is noted.
LEMMA ResponseKeeps ==
  ASSUME RequestInv, NEW a \in answers, handleRelayResponse(a[1], a[2])
  PROVE  RequestInv'
<1>0. CallInv /\ WireInv /\ JobInv /\ AnswerInv
  BY DEF RequestInv
<1>1. PICK c \in Copies, ok \in BOOLEAN : a = <<c, ok>>
  BY <1>0 DEF WireInv
<1>2. c[1] \in Requests /\ c[2] # 0 /\ UnderWay(c) /\ [of |-> c[1], ok |-> ok] \in Answers
  BY <1>0, <1>1 DEF WireInv, Copies, UnderWay, Answers
<1>3. /\ answers' = answers \ {<<c, ok>>} /\ noted' = NoCopy
      /\ UNCHANGED <<asks, try, atRelay, atPeer, overlap, connected, jobs, reqFaults>>
      /\ WriteTo(noted, [of |-> c[1], ok |-> ok])
  BY <1>1 DEF handleRelayResponse
<1>4. /\ callPc' \in [Requests -> {"begin", "direct", "send", "await", "done"}]
      /\ \A u \in Requests : callPc'[u] \in {callPc[u], "done"}
      /\ result' \in [Requests -> Answers \cup {Failed, NoAnswer}]
      /\ \A u \in Requests : result'[u] = result[u]
           \/ (noted # NoCopy /\ u = noted[1] /\ result'[u] = [of |-> c[1], ok |-> ok])
  BY <1>0, <1>2, <1>3, WriteToEffect
<1>5. CallInv'
  BY <1>0, <1>3, <1>4 DEF CallInv
<1>6. WireInv'
  BY <1>0, <1>3, <1>4 DEF WireInv, Copies
<1>7. JobInv'
  <2>1. ASSUME NEW u \in Requests, NEW n \in 0..2, ToCome(u, n)'
        PROVE  ToCome(u, n)
    BY <2>1, <1>3, <1>4 DEF ToCome
  <2> QED BY <1>0, <1>3, <2>1 DEF JobInv, Count
<1>8. AnswerInv'
  <2>1. \A d \in Copies : UnderWay(d)' => UnderWay(d)
    BY <1>3, RequestConstantsAssumption DEF UnderWay, Copies
  <2>2. ~overlap /\ noted # NoCopy => noted[1] = c[1]
    <3>1. noted # NoCopy => noted \in Copies /\ noted[2] # 0 /\ UnderWay(noted)
      BY <1>0 DEF WireInv, UnderWay
    <3> QED BY <1>0, <1>2, <3>1 DEF AnswerInv
  <2>3. asks[c[1]] \in Orders /\ ok => jobs[c[1]] > 0
    BY <1>0, <1>1 DEF AnswerInv
  <2>4. ~overlap => \A u \in Requests :
          \/ result'[u] = result[u]
          \/ u = c[1] /\ result'[u] = [of |-> c[1], ok |-> ok]
    BY <1>4, <2>2
  <2>5. ~overlap => \A u \in Requests : result'[u] \in Answers =>
          /\ result'[u].of = u
          /\ asks[u] \in Orders /\ result'[u].ok => jobs[u] > 0
    BY <1>0, <2>3, <2>4 DEF AnswerInv
  <2> QED BY <1>0, <1>3, <2>1, <2>5 DEF AnswerInv
<1> QED BY <1>5, <1>6, <1>7, <1>8 DEF RequestInv

\* The initial state, and every step of any part.
LEMMA RequestInvInit ==
  ASSUME RequestInit
  PROVE  RequestInv
<1>0. /\ asks \in [Requests -> RequestKinds] /\ connected \in BOOLEAN
      /\ try \in [Requests -> 0..2] /\ 0 \in 0..MaxRequestFaults
  BY RequestConstantsAssumption DEF RequestInit
<1>1. CallInv /\ WireInv
  BY <1>0 DEF RequestInit, CallInv, WireInv
<1>2. JobInv
  BY DEF RequestInit, JobInv, Count, ToCome
<1>3. AnswerInv
  BY RequestConstantsAssumption, FailedIsNoAnswer DEF RequestInit, AnswerInv, UnderWay, Copies
<1> QED BY <1>1, <1>2, <1>3 DEF RequestInv

\* Steps of the other parts change nothing of a request.
LEMMA RequestFrame ==
  ASSUME RequestInv, UNCHANGED requestVars
  PROVE  RequestInv'
BY ZenonT(30) DEF RequestInv, CallInv, WireInv, JobInv, AnswerInv, ToCome, Count, UnderWay,
       requestVars, caller, wires

\* Every step of the requests keeps the invariant.
LEMMA RequestInvNext ==
  ASSUME RequestInv, RequestNext
  PROVE  RequestInv'
<1>1. ASSUME NEW r \in Requests, Call(r)
      PROVE  RequestInv'
  BY <1>1, CallerKeeps DEF Call, SendJobRequest, SendJobStart, SendJobStatusRequest,
     SendJobCancel, FetchPeerCapabilities, queryPeerServices, Steps
<1>2. CASE PeerHandles
  BY <1>2, HandleKeeps DEF PeerHandles
<1>3. CASE Relays
  BY <1>3, ForwardKeeps, ResponseKeeps DEF Relays
<1>4. CASE DirectConnectionLost
  <2>1. /\ UNCHANGED <<caller, wires, jobs>> /\ connected' = FALSE
        /\ reqFaults' = reqFaults + 1 /\ reqFaults < MaxRequestFaults
    BY <1>4 DEF DirectConnectionLost, RequestFault
  <2>2. CallInv'
    <3>1. reqFaults' \in 0..MaxRequestFaults
      BY <2>1, RequestConstantsAssumption DEF RequestInv, CallInv
    <3> QED BY <2>1, <3>1 DEF RequestInv, CallInv, caller, wires
  <2>3. WireInv' /\ JobInv' /\ AnswerInv'
    BY <2>1, ZenonT(30) DEF RequestInv, WireInv, JobInv, AnswerInv, ToCome, Count, UnderWay, caller, wires
  <2> QED BY <2>2, <2>3 DEF RequestInv
<1> QED BY <1>1, <1>2, <1>3, <1>4 DEF RequestNext

\* What the requests' part of the invariant gives.
LEMMA RequestInvImplies ==
  ASSUME RequestInv
  PROVE  OrdersAreSound /\ RequestTypeOK
<1>1. CallInv /\ WireInv /\ JobInv /\ AnswerInv
  BY DEF RequestInv
<1>2. OrdersAreSound
  BY <1>1 DEF OrdersAreSound, JobInv, AnswerInv
<1>3. jobs \in [Requests -> 0..3]
  BY <1>1 DEF JobInv, Count
<1>4. RequestTypeOK
  BY <1>1, <1>3 DEF RequestTypeOK, CallInv, WireInv
<1> QED BY <1>2, <1>4

\* The requests' part of every reachable state (job_handler.go, relay.go).
THEOREM RequestInvariant == TrafficSpec => []RequestInv
<1>1. TrafficInit => RequestInv
  BY RequestInvInit DEF TrafficInit
<1>2. RequestInv /\ [TrafficNext]_trafficVars => RequestInv'
  <2> SUFFICES ASSUME RequestInv, [TrafficNext]_trafficVars PROVE RequestInv'
    OBVIOUS
  <2>1. CASE Asks(RequestNext)
    BY <2>1, RequestInvNext DEF Asks
  <2>2. CASE UNCHANGED requestVars
    BY <2>2, RequestFrame
  <2> QED BY <2>1, <2>2 DEF TrafficNext, Keeps, Searches, trafficVars
<1> QED BY <1>1, <1>2, PTL DEF TrafficSpec

\* A paid order makes at most one job at the provider, however often it is sent again; a
\* caller that is told "accepted" has a job there and is told of its own request, as long
\* as requests do not overlap at the relay: for any number of requests of any kinds and any
\* number of faults (SendJobRequest and trySendWithRetry of job_handler.go,
\* handleRelayResponse of relay.go).
THEOREM OrdersSound == TrafficSpec => []OrdersAreSound
<1>1. RequestInv => OrdersAreSound
  BY RequestInvImplies
<1> QED BY <1>1, RequestInvariant, PTL

-----------------------------------------------------------------------------
(* The relay: its table and the goroutines that forward.                    *)

Working == {"find", "write", "quota", "insert", "count", "return"}

\* The types of the table, of the goroutines and of the outcomes; who works on a message,
\* and a row that waits, has one.
StoreTypes ==
  /\ rows \in [Rows -> Row] /\ usage \in Nat
  /\ rpc \in [Routines -> {"idle", "next"} \cup Working]
  /\ rmsg \in [Routines -> Messages \cup {NoMessage}]
  /\ rsess \in [Routines -> Sessions \cup {NoSession}]
  /\ todo \in [Deliverers -> SUBSET (Rows \X Messages)]
  /\ now \in [Deliverers -> Rows \cup {NoRow}]
  /\ done \in [Deliverers -> Nat]
  /\ confirmed \subseteq Messages /\ received \subseteq Messages /\ gone \subseteq Messages
  /\ \A r \in Routines : rpc[r] \in Working => rmsg[r] \in Messages
  /\ \A n \in Rows : rows[n].status = "pending" => rows[n].msg \in Messages

\* The types of the sessions at the relay.
SessionTypes ==
  /\ sessions \subseteq Sessions /\ streams \subseteq Sessions
  /\ registered \in Sessions \cup {NoSession} /\ stuck \in BOOLEAN
  /\ link \in [Sessions -> {"none", "up", "silent", "down"}]
  /\ ending \subseteq Sessions /\ ready \subseteq Sessions
  /\ faults \in 0 .. MaxFaults

\* The rows in which a message waits, and the deliveries that have stored it again and
\* will take a row away.
Waiting(m) == {n \in Rows : rows[n].status = "pending" /\ rows[n].msg = m}
Again(m)   == {d \in Deliverers : rpc[d] \in {"count", "return"} /\ rmsg[d] = m}

\* More rows hold the message than deliveries will take away.
Kept(m) == m \in received \cup gone \/ Cardinality(Waiting(m)) > Cardinality(Again(m))

\* The relay has the message in its table or in a delivery, or has answered for it.
Known(m) == \/ m \in confirmed \/ Waiting(m) # {}
            \/ \E r \in Forwarders : rpc[r] \in {"count", "return"} /\ rmsg[r] = m
            \/ \E d \in Deliverers : \/ rpc[d] \in Working /\ rmsg[d] = m
                                     \/ \E n \in Rows : <<n, m>> \in todo[d]

KeptInv == \A m \in Messages : Known(m) => Kept(m)

\* Goroutines that have passed the quota and not yet counted.
Storing == {r \in Routines : rpc[r] \in {"insert", "count"}}

\* The quota is passed by the goroutines that looked at it together, at most.
UsageInv == usage + Cardinality(Storing) <= MaxStored + Cardinality(Routines)

\* A delivery counts each row it has read once.
DoneInv ==
  \A d \in Deliverers :
    /\ IsFiniteSet(todo[d])
    /\ done[d] + Cardinality(todo[d]) + Count(rpc[d] \in Working) <= Cardinality(Rows)
    /\ rpc[d] = "idle" => done[d] = 0 /\ todo[d] = {}

StoreInv == StoreTypes /\ KeptInv /\ UsageInv /\ DoneInv

\* Sets of rows, of deliveries and of goroutines are finite.
LEMMA StoreFinite ==
  /\ IsFiniteSet(Routines) /\ IsFiniteSet(Storing)
  /\ Cardinality(Routines) \in Nat /\ Cardinality(Rows) \in Nat
  /\ Cardinality(Storing) \in Nat /\ Cardinality(Storing) <= Cardinality(Routines)
  /\ \A m : /\ IsFiniteSet(Waiting(m)) /\ IsFiniteSet(Again(m))
            /\ Cardinality(Waiting(m)) \in Nat /\ Cardinality(Again(m)) \in Nat
<1>1. IsFiniteSet(Rows) /\ IsFiniteSet(Forwarders) /\ IsFiniteSet(Deliverers)
  BY RelayConstantsAssumption
<1>2. IsFiniteSet(Routines)
  BY <1>1, FS_Union DEF Routines
<1>3. IsFiniteSet(Storing) /\ Cardinality(Storing) <= Cardinality(Routines)
  BY <1>2, FS_Subset DEF Storing
<1>4. \A m : IsFiniteSet(Waiting(m)) /\ IsFiniteSet(Again(m))
  BY <1>1, FS_Subset DEF Waiting, Again
<1> QED BY <1>1, <1>2, <1>3, <1>4, FS_CardinalityType

\* A message stays kept while no row of it is taken away and no delivery stores it again.
LEMMA KeptStays ==
  ASSUME NEW m, Kept(m), received \subseteq received', gone \subseteq gone',
         Waiting(m) \subseteq Waiting(m)', Again(m)' \subseteq Again(m)
  PROVE  Kept(m)'
<1>1. CASE m \in received \cup gone
  BY <1>1 DEF Kept
<1>2. CASE Cardinality(Waiting(m)) > Cardinality(Again(m))
  <2>1. /\ IsFiniteSet(Waiting(m)') /\ IsFiniteSet(Again(m))
        /\ Cardinality(Waiting(m)') \in Nat /\ Cardinality(Again(m)') \in Nat
        /\ Cardinality(Waiting(m)) \in Nat /\ Cardinality(Again(m)) \in Nat
    <3>1. IsFiniteSet(Waiting(m)') /\ IsFiniteSet(Again(m)')
      BY RelayConstantsAssumption, FS_Subset DEF Waiting, Again
    <3> QED BY <3>1, StoreFinite, FS_CardinalityType
  <2>2. Cardinality(Waiting(m)) <= Cardinality(Waiting(m)')
    BY <2>1, FS_Subset
  <2>3. Cardinality(Again(m)') <= Cardinality(Again(m))
    BY <2>1, FS_Subset
  <2> QED BY <1>2, <2>1, <2>2, <2>3 DEF Kept
<1> QED BY <1>1, <1>2 DEF Kept

\* Steps that leave the table, the goroutines and the outcomes alone.
LEMMA StoreFrame ==
  ASSUME StoreInv, UNCHANGED <<table, routine, outcome>>
  PROVE  StoreInv'
BY ZenonT(30) DEF StoreInv, StoreTypes, KeptInv, UsageInv, DoneInv, Kept, Known, Waiting, Again,
       Storing, Count, table, routine, outcome

\* The count of what is stored grows by the goroutines that have passed the quota.
LEMMA StoringGrows ==
  ASSUME NEW r \in Routines, Storing' \subseteq Storing \cup {r}
  PROVE  /\ Cardinality(Storing)' \in Nat
         /\ Cardinality(Storing)' <= Cardinality(Storing) + 1
         /\ Cardinality(Storing)' <= Cardinality(Routines)
         /\ Storing' \subseteq Storing => Cardinality(Storing)' <= Cardinality(Storing)
         /\ (r \in Storing /\ Storing' \subseteq Storing \ {r})
               => Cardinality(Storing)' <= Cardinality(Storing) - 1
<1>1. IsFiniteSet(Storing) /\ IsFiniteSet(Storing \cup {r}) /\ IsFiniteSet(Storing \ {r})
      /\ IsFiniteSet(Routines)
  BY StoreFinite, FS_AddElement, FS_RemoveElement
<1>2. Cardinality(Storing \cup {r}) <= Cardinality(Storing) + 1
  BY <1>1, FS_AddElement, FS_CardinalityType
<1>3. r \in Storing => Cardinality(Storing \ {r}) = Cardinality(Storing) - 1
  BY <1>1, FS_RemoveElement
<1>4. /\ IsFiniteSet(Storing') /\ Cardinality(Storing') <= Cardinality(Storing \cup {r})
      /\ Storing' \subseteq Storing => Cardinality(Storing') <= Cardinality(Storing)
      /\ Storing' \subseteq Storing \ {r} => Cardinality(Storing') <= Cardinality(Storing \ {r})
  BY <1>1, FS_Subset
<1>5. Storing' \subseteq Routines
  BY DEF Storing
<1>6. Cardinality(Storing') <= Cardinality(Routines)
  BY <1>1, <1>5, FS_Subset
<1> QED BY <1>1, <1>2, <1>3, <1>4, <1>6, FS_CardinalityType

\* A step of one goroutine to another place, with the same table, keeps the message it
\* works on and all others.
LEMMA KeptOnMove ==
  ASSUME StoreInv, NEW r \in Routines, rows' = rows, confirmed' = confirmed,
         received \subseteq received', gone \subseteq gone', todo' = todo,
         \A u \in Routines \ {r} : rpc'[u] = rpc[u] /\ rmsg'[u] = rmsg[u],
         \/ rpc[r] \in Working \ {"count", "return"}
              /\ rpc'[r] \in ({"idle", "next"} \cup Working) \ {"count", "return"}
              /\ (rpc'[r] \in Working => rmsg'[r] = rmsg[r])
         \/ rpc[r] = "count" /\ rpc'[r] = "return" /\ rmsg'[r] = rmsg[r]
         \/ rpc[r] \in Working /\ rpc'[r] = "return" /\ rmsg'[r] = rmsg[r]
              /\ rmsg[r] \in received' \cup gone'
         \/ rpc[r] \in {"idle", "next"} /\ rpc'[r] \in {"idle", "next"}
         \/ r \in Forwarders /\ rpc[r] = "idle" /\ rpc'[r] = "find"
  PROVE  KeptInv'
<1> SUFFICES ASSUME NEW m \in Messages, Known(m)', m \notin received' \cup gone'
             PROVE  Kept(m)'
  BY DEF KeptInv, Kept
<1>1. r \notin Deliverers \/ r \notin Forwarders
  BY RelayConstantsAssumption
<1>2. Waiting(m)' = Waiting(m)
  BY DEF Waiting
<1>3. Again(m)' \subseteq Again(m)
  BY <1>1 DEF Again, Routines, Working
<1>4. Known(m)
  BY <1>1, <1>2 DEF Known, Routines, Working
<1> QED BY <1>2, <1>3, <1>4, KeptStays DEF StoreInv, KeptInv

\* The numbers of DoneInv (deliverPendingMessages).
LEMMA DoneTypes ==
  ASSUME StoreInv
  PROVE  /\ Cardinality(Rows) \in Nat
         /\ \A d \in Deliverers : done[d] \in Nat /\ Cardinality(todo[d]) \in Nat
BY StoreFinite, FS_CardinalityType DEF StoreInv, StoreTypes, DoneInv

\* forwardDataToTarget finds the stream of the client, or none.
LEMMA FindKeeps ==
  ASSUME StoreInv, SessionTypes, NEW r \in Routines, forwardDataToTarget(r)
  PROVE  StoreInv'
<1>0. StoreTypes /\ UsageInv /\ DoneInv
  BY DEF StoreInv
<1>1. /\ rows' = rows /\ usage' = usage /\ rmsg' = rmsg /\ todo' = todo /\ now' = now
      /\ done' = done /\ confirmed' = confirmed /\ received' = received /\ gone' = gone
      /\ rpc[r] = "find" /\ rpc'[r] \in {"write", "quota"}
      /\ rpc' \in [Routines -> {"idle", "next"} \cup Working]
      /\ \A u \in Routines \ {r} : rpc'[u] = rpc[u]
      /\ rsess' \in [Routines -> Sessions \cup {NoSession}]
  BY <1>0 DEF forwardDataToTarget, Goto, table, outcome, StoreTypes, SessionTypes, Working
<1>2. StoreTypes'
  BY <1>0, <1>1 DEF StoreTypes, Working
<1>3. KeptInv'
  BY <1>1, KeptOnMove DEF Working
<1>4. UsageInv'
  <2>1. Storing' \subseteq Storing
    BY <1>1 DEF Storing
  <2> QED BY <1>0, <1>1, <2>1, StoreFinite, StoringGrows, RelayConstantsAssumption
          DEF UsageInv, StoreTypes
<1>5. DoneInv'
  BY <1>0, <1>1 DEF DoneInv, Count, Working, Routines
<1> QED BY <1>2, <1>3, <1>4, <1>5 DEF StoreInv

\* The write reaches the client, dies with the connection, or breaks the stream.
LEMMA WriteKeeps ==
  ASSUME StoreInv, SessionTypes, NEW r \in Routines, WriteToStream(r)
  PROVE  StoreInv'
<1>0. StoreTypes /\ UsageInv /\ DoneInv
  BY DEF StoreInv
<1>1. /\ rows' = rows /\ usage' = usage /\ rmsg' = rmsg /\ todo' = todo /\ now' = now
      /\ done' = done /\ confirmed' = confirmed
      /\ received' \in {received, received \cup {rmsg[r]}}
      /\ gone' \in {gone, gone \cup {rmsg[r]}}
      /\ rpc[r] = "write" /\ rpc'[r] \in {"return", "quota"}
      /\ rpc'[r] = "return" => rmsg[r] \in received' \cup gone'
      /\ rpc' \in [Routines -> {"idle", "next"} \cup Working]
      /\ \A u \in Routines \ {r} : rpc'[u] = rpc[u]
      /\ rsess' \in [Routines -> Sessions \cup {NoSession}]
  BY <1>0 DEF WriteToStream, Goto, table, StoreTypes, Working
<1>2. StoreTypes'
  BY <1>0, <1>1 DEF StoreTypes, Working
<1>3. KeptInv'
  BY <1>1, KeptOnMove DEF Working
<1>4. UsageInv'
  <2>1. Storing' \subseteq Storing
    BY <1>1 DEF Storing
  <2> QED BY <1>0, <1>1, <2>1, StoreFinite, StoringGrows, RelayConstantsAssumption
          DEF UsageInv, StoreTypes
<1>5. DoneInv'
  BY <1>0, <1>1 DEF DoneInv, Count, Working, Routines
<1> QED BY <1>2, <1>3, <1>4, <1>5 DEF StoreInv

\* The quota is looked at.
LEMMA QuotaKeeps ==
  ASSUME StoreInv, NEW r \in Routines, canStoreMessage(r)
  PROVE  StoreInv'
<1>0. StoreTypes /\ UsageInv /\ DoneInv
  BY DEF StoreInv
<1>1. /\ rows' = rows /\ usage' = usage /\ todo' = todo /\ rsess' = rsess
      /\ done' = done /\ confirmed' = confirmed /\ received' = received /\ gone' = gone
      /\ rpc[r] = "quota" /\ rpc'[r] \in {"insert", "idle", "next"}
      /\ rpc'[r] = "insert" => rmsg' = rmsg /\ usage < MaxStored
      /\ rpc' \in [Routines -> {"idle", "next"} \cup Working]
      /\ \A u \in Routines \ {r} : rpc'[u] = rpc[u] /\ rmsg'[u] = rmsg[u]
      /\ rmsg' \in [Routines -> Messages \cup {NoMessage}]
      /\ now' \in [Deliverers -> Rows \cup {NoRow}]
      /\ r \in Deliverers => rpc'[r] # "idle"
  BY <1>0 DEF canStoreMessage, StoreRefused, Fails, Goto, table, outcome, StoreTypes, Working
<1>2. StoreTypes'
  BY <1>0, <1>1 DEF StoreTypes, Working
<1>3. KeptInv'
  BY <1>1, KeptOnMove DEF Working
<1>4. UsageInv'
  <2>1. Storing' \subseteq Storing \cup {r}
    BY <1>1 DEF Storing
  <2>2. rpc'[r] # "insert" => Storing' \subseteq Storing
    BY <1>1 DEF Storing
  <2> QED BY <1>0, <1>1, <2>1, <2>2, StoreFinite, StoringGrows, RelayConstantsAssumption
          DEF UsageInv, StoreTypes
<1>5. DoneInv'
  BY <1>0, <1>1, DoneTypes DEF DoneInv, Count, Working, Routines
<1> QED BY <1>2, <1>3, <1>4, <1>5 DEF StoreInv

\* The usage is counted.
LEMMA IncrementKeeps ==
  ASSUME StoreInv, NEW r \in Routines, IncrementStorageUsage(r)
  PROVE  StoreInv'
<1>0. StoreTypes /\ UsageInv /\ DoneInv
  BY DEF StoreInv
<1>1. /\ rows' = rows /\ usage' = usage + 1 /\ rmsg' = rmsg /\ todo' = todo /\ now' = now
      /\ done' = done /\ confirmed' = confirmed /\ received' = received /\ gone' = gone
      /\ rpc[r] = "count" /\ rpc'[r] = "return"
      /\ rpc' \in [Routines -> {"idle", "next"} \cup Working]
      /\ \A u \in Routines \ {r} : rpc'[u] = rpc[u]
      /\ rsess' = rsess
  BY <1>0 DEF IncrementStorageUsage, Goto, outcome, StoreTypes, Working
<1>2. StoreTypes'
  BY <1>0, <1>1 DEF StoreTypes, Working
<1>3. KeptInv'
  BY <1>1, KeptOnMove DEF Working
<1>4. UsageInv'
  <2>1. Storing' \subseteq Storing \ {r} /\ r \in Storing
    BY <1>1 DEF Storing
  <2> QED BY <1>0, <1>1, <2>1, StoreFinite, StoringGrows, RelayConstantsAssumption
          DEF UsageInv, StoreTypes
<1>5. DoneInv'
  BY <1>0, <1>1 DEF DoneInv, Count, Working, Routines
<1> QED BY <1>2, <1>3, <1>4, <1>5 DEF StoreInv

\* A message is stored: a delivery that stores it again has one row more and one to take
\* away.
LEMMA StoreKeeps ==
  ASSUME StoreInv, NEW r \in Routines, StorePendingMessage(r)
  PROVE  StoreInv'
<1>0. StoreTypes /\ UsageInv /\ DoneInv /\ KeptInv
  BY DEF StoreInv
<1>1. PICK n \in Rows : /\ rows[n].status = "free"
                        /\ rows' = [rows EXCEPT ![n] = [status |-> "pending", msg |-> rmsg[r]]]
  BY DEF StorePendingMessage
<1>2. /\ usage' = usage /\ rmsg' = rmsg /\ todo' = todo /\ now' = now
      /\ done' = done /\ confirmed' = confirmed /\ received' = received /\ gone' = gone
      /\ rpc[r] = "insert" /\ rpc'[r] = "count" /\ rsess' = rsess
      /\ rpc' \in [Routines -> {"idle", "next"} \cup Working]
      /\ \A u \in Routines \ {r} : rpc'[u] = rpc[u]
  BY <1>0 DEF StorePendingMessage, Goto, outcome, StoreTypes, Working
<1>3. rmsg[r] \in Messages
  BY <1>0, <1>2 DEF StoreTypes, Working
<1>4. StoreTypes'
  <2>1. rows' \in [Rows -> Row]
    BY <1>0, <1>1, <1>3 DEF StoreTypes, Row
  <2>2. \A x \in Rows : rows'[x].status = "pending" => rows'[x].msg \in Messages
    BY <1>0, <1>1, <1>3 DEF StoreTypes, Row
  <2> QED BY <1>0, <1>2, <2>1, <2>2 DEF StoreTypes, Working
<1>5. KeptInv'
  <2> SUFFICES ASSUME NEW m \in Messages, Known(m)' PROVE Kept(m)'
    BY DEF KeptInv
  <2>1. CASE m # rmsg[r]
    <3>1. Waiting(m)' = Waiting(m)
      BY <1>0, <1>1, <2>1 DEF Waiting, StoreTypes, Row
    <3>2. Again(m)' \subseteq Again(m)
      BY <1>2, <2>1 DEF Again, Routines
    <3>3. Known(m)
      BY <1>2, <2>1, <3>1 DEF Known, Routines, Working
    <3> QED BY <1>0, <1>2, <3>1, <3>2, <3>3, KeptStays DEF KeptInv
  <2>2. CASE m = rmsg[r]
    <3>1. n \notin Waiting(m) /\ Waiting(m)' = Waiting(m) \cup {n}
      BY <1>0, <1>1, <2>2 DEF Waiting, StoreTypes, Row
    <3>2. Again(m)' \subseteq Again(m) \cup {r}
      BY <1>2 DEF Again, Routines
    <3>3. CASE r \in Deliverers
      <4>1. Kept(m)
        BY <1>0, <1>2, <2>2, <3>3 DEF KeptInv, Known, Working
      <4>2. Cardinality(Waiting(m)') = Cardinality(Waiting(m)) + 1
        BY <3>1, StoreFinite, FS_AddElement
      <4>3. Cardinality(Again(m)') <= Cardinality(Again(m)) + 1
            /\ Cardinality(Again(m)') \in Nat
        <5>0. IsFiniteSet(Again(m)) /\ Cardinality(Again(m)) \in Nat
          BY StoreFinite
        <5>1. IsFiniteSet(Again(m) \cup {r})
              /\ Cardinality(Again(m) \cup {r}) <= Cardinality(Again(m)) + 1
          <6>1. /\ IsFiniteSet(Again(m) \cup {r})
                /\ Cardinality(Again(m) \cup {r}) = IF r \in Again(m) THEN Cardinality(Again(m))
                                                    ELSE Cardinality(Again(m)) + 1
            BY ONLY <5>0, FS_AddElement
          <6> QED BY ONLY <5>0, <6>1
        <5> QED BY <3>2, <5>1, StoreFinite, FS_Subset, FS_CardinalityType
      <4> QED BY <1>2, <4>1, <4>2, <4>3, StoreFinite DEF Kept
    <3>4. CASE r \notin Deliverers
      <4>1. Again(m)' \subseteq Again(m)
        BY <3>2, <3>4 DEF Again
      <4>2. CASE Known(m)
        BY <1>0, <1>2, <3>1, <4>1, <4>2, KeptStays DEF KeptInv
      <4>3. CASE ~Known(m)
        <5>1. Again(m) = {} /\ Waiting(m) = {}
          BY <4>3 DEF Known, Again, Working
        <5>2. Again(m)' = {} /\ Waiting(m)' = {n}
          BY <5>1, <4>1, <3>1
        <5> QED BY <5>2, FS_EmptySet, FS_Singleton DEF Kept
      <4> QED BY <4>2, <4>3
    <3> QED BY <3>3, <3>4
  <2> QED BY <2>1, <2>2
<1>6. UsageInv'
  <2>1. Storing' \subseteq Storing
    BY <1>2 DEF Storing
  <2> QED BY <1>0, <1>2, <2>1, StoreFinite, StoringGrows, RelayConstantsAssumption
          DEF UsageInv, StoreTypes
<1>7. DoneInv'
  BY <1>0, <1>2 DEF DoneInv, Count, Working, Routines
<1> QED BY <1>4, <1>5, <1>6, <1>7 DEF StoreInv

\* A peer forwards a message.
LEMMA RequestKeeps ==
  ASSUME StoreInv, NEW r \in Forwarders, NEW m \in Messages, handleRelayRequest(r, m)
  PROVE  StoreInv'
<1>0. StoreTypes /\ UsageInv /\ DoneInv
  BY DEF StoreInv
<1>1. /\ rows' = rows /\ usage' = usage /\ todo' = todo /\ now' = now
      /\ done' = done /\ confirmed' = confirmed /\ received' = received /\ gone' = gone
      /\ rpc[r] = "idle" /\ rpc'[r] = "find" /\ rmsg'[r] = m
      /\ rpc' \in [Routines -> {"idle", "next"} \cup Working]
      /\ rmsg' \in [Routines -> Messages \cup {NoMessage}]
      /\ \A u \in Routines \ {r} : rpc'[u] = rpc[u] /\ rmsg'[u] = rmsg[u]
      /\ rsess' = rsess /\ r \in Routines /\ r \notin Deliverers
  BY <1>0, RelayConstantsAssumption
     DEF handleRelayRequest, Goto, table, outcome, StoreTypes, Working, Routines
<1>2. StoreTypes'
  BY <1>0, <1>1 DEF StoreTypes, Working
<1>3. KeptInv'
  BY <1>1, KeptOnMove DEF Working
<1>4. UsageInv'
  <2>1. Storing' \subseteq Storing
    BY <1>1 DEF Storing
  <2> QED BY <1>0, <1>1, <2>1, StoreFinite, StoringGrows, RelayConstantsAssumption
          DEF UsageInv, StoreTypes
<1>5. DoneInv'
  BY <1>0, <1>1 DEF DoneInv, Count, Working, Routines
<1> QED BY <1>2, <1>3, <1>4, <1>5 DEF StoreInv

\* The sender is told "success".
LEMMA AnswerKeeps ==
  ASSUME StoreInv, NEW r \in Forwarders, AnswerSuccess(r)
  PROVE  StoreInv'
<1>0. StoreTypes /\ UsageInv /\ DoneInv /\ KeptInv
  BY DEF StoreInv
<1>1. /\ rows' = rows /\ usage' = usage /\ todo' = todo /\ now' = now
      /\ done' = done /\ received' = received /\ gone' = gone
      /\ confirmed' = confirmed \cup {rmsg[r]}
      /\ rpc[r] = "return" /\ rpc'[r] = "idle"
      /\ rpc' \in [Routines -> {"idle", "next"} \cup Working]
      /\ rmsg' \in [Routines -> Messages \cup {NoMessage}]
      /\ \A u \in Routines \ {r} : rpc'[u] = rpc[u] /\ rmsg'[u] = rmsg[u]
      /\ rsess' = rsess /\ r \in Routines /\ r \notin Deliverers
  BY <1>0, RelayConstantsAssumption
     DEF AnswerSuccess, Goto, table, StoreTypes, Working, Routines
<1>2. StoreTypes'
  BY <1>0, <1>1 DEF StoreTypes, Working
<1>3. KeptInv'
  <2> SUFFICES ASSUME NEW m \in Messages, Known(m)' PROVE Kept(m)'
    BY DEF KeptInv
  <2>1. Waiting(m)' = Waiting(m)
    BY <1>1 DEF Waiting
  <2>2. Again(m)' \subseteq Again(m)
    BY <1>1 DEF Again, Routines
  <2>3. Known(m)
    BY <1>1, <2>1 DEF Known, Routines
  <2> QED BY <1>0, <1>1, <2>1, <2>2, <2>3, KeptStays DEF KeptInv
<1>4. UsageInv'
  <2>1. Storing' \subseteq Storing
    BY <1>1 DEF Storing
  <2> QED BY <1>0, <1>1, <2>1, StoreFinite, StoringGrows, RelayConstantsAssumption
          DEF UsageInv, StoreTypes
<1>5. DoneInv'
  BY <1>0, <1>1 DEF DoneInv, Count, Working, Routines
<1> QED BY <1>2, <1>3, <1>4, <1>5 DEF StoreInv

\* A delivery takes the next message it has read.
LEMMA DeliverKeeps ==
  ASSUME StoreInv, NEW d \in Deliverers, deliverPendingMessages(d)
  PROVE  StoreInv'
<1>0. StoreTypes /\ UsageInv /\ DoneInv /\ KeptInv
  BY DEF StoreInv
<1>1. PICK x \in todo[d] : /\ todo' = [todo EXCEPT ![d] = @ \ {x}]
                           /\ now' = [now EXCEPT ![d] = x[1]]
                           /\ rmsg' = [rmsg EXCEPT ![d] = x[2]]
  BY DEF deliverPendingMessages
<1>2. x = <<x[1], x[2]>> /\ x[1] \in Rows /\ x[2] \in Messages /\ d \in Routines
  BY <1>0 DEF StoreTypes, Routines
<1>3. /\ rows' = rows /\ usage' = usage /\ done' = done
      /\ confirmed' = confirmed /\ received' = received /\ gone' = gone
      /\ rpc[d] = "next" /\ rpc'[d] = "find" /\ rmsg'[d] = x[2]
      /\ rpc' \in [Routines -> {"idle", "next"} \cup Working]
      /\ rmsg' \in [Routines -> Messages \cup {NoMessage}]
      /\ \A u \in Routines \ {d} : rpc'[u] = rpc[u] /\ rmsg'[u] = rmsg[u]
      /\ rsess' = rsess
  BY <1>0, <1>1, <1>2 DEF deliverPendingMessages, Goto, table, outcome, StoreTypes, Working
<1>4. /\ todo' \in [Deliverers -> SUBSET (Rows \X Messages)]
      /\ todo'[d] = todo[d] \ {x} /\ \A e \in Deliverers \ {d} : todo'[e] = todo[e]
      /\ now' \in [Deliverers -> Rows \cup {NoRow}]
  BY <1>0, <1>1, <1>2 DEF StoreTypes
<1>5. StoreTypes'
  BY <1>0, <1>2, <1>3, <1>4 DEF StoreTypes, Working
<1>6. KeptInv'
  <2> SUFFICES ASSUME NEW m \in Messages, Known(m)' PROVE Kept(m)'
    BY DEF KeptInv
  <2>1. Waiting(m)' = Waiting(m)
    BY <1>3 DEF Waiting
  <2>2. Again(m)' \subseteq Again(m)
    BY <1>3 DEF Again, Routines
  <2>3. Known(m)
    <3>1. CASE m = x[2]
      BY <1>2, <3>1 DEF Known
    <3>2. CASE m # x[2]
      <4>1. \A r \in Forwarders : r # d
        BY RelayConstantsAssumption
      <4>2. \A e \in Deliverers : todo'[e] \subseteq todo[e]
        BY <1>4
      <4> QED BY <1>3, <2>1, <3>2, <4>1, <4>2 DEF Known, Routines
    <3> QED BY <3>1, <3>2
  <2> QED BY <1>0, <1>3, <2>1, <2>2, <2>3, KeptStays DEF KeptInv
<1>7. UsageInv'
  <2>1. Storing' \subseteq Storing
    BY <1>3 DEF Storing
  <2> QED BY <1>0, <1>2, <1>3, <2>1, StoreFinite, StoringGrows, RelayConstantsAssumption
          DEF UsageInv, StoreTypes
<1>8. DoneInv'
  <2>1. IsFiniteSet(todo'[d]) /\ Cardinality(todo'[d]) = Cardinality(todo[d]) - 1
    <3>1. IsFiniteSet(todo[d])
      BY <1>0 DEF DoneInv
    <3>2. IsFiniteSet(todo[d] \ {x}) /\ Cardinality(todo[d] \ {x}) = Cardinality(todo[d]) - 1
      BY <3>1, FS_RemoveElement
    <3> QED BY <1>4, <3>2
  <2>2. ASSUME NEW e \in Deliverers
        PROVE  /\ IsFiniteSet(todo'[e])
               /\ done'[e] + Cardinality(todo'[e]) + Count(rpc'[e] \in Working)
                    <= Cardinality(Rows)
               /\ rpc'[e] = "idle" => done'[e] = 0 /\ todo'[e] = {}
    <3>1. CASE e = d
      BY <3>1, <1>0, <1>3, <2>1, DoneTypes DEF DoneInv, Count, Working
    <3>2. CASE e # d
      BY <3>2, <1>0, <1>3, <1>4 DEF DoneInv, Routines
    <3> QED BY <3>1, <3>2
  <2> QED BY <2>2 DEF DoneInv
<1> QED BY <1>5, <1>6, <1>7, <1>8 DEF StoreInv

\* A delivery takes a row away: it has stored the message again, or the client has it.
LEMMA MarkKeeps ==
  ASSUME StoreInv, NEW d \in Deliverers, MarkMessageDelivered(d)
  PROVE  StoreInv'
<1>0. StoreTypes /\ UsageInv /\ DoneInv /\ KeptInv /\ d \in Routines
  BY DEF StoreInv, Routines
<1>1. /\ rows' = [n \in Rows |-> IF n = now[d] /\ rows[n].msg = rmsg[d]
                                 THEN [rows[n] EXCEPT !.status = "delivered"] ELSE rows[n]]
      /\ usage' = usage /\ rmsg' = rmsg /\ todo' = todo /\ rsess' = rsess
      /\ confirmed' = confirmed /\ received' = received /\ gone' = gone
      /\ rpc[d] = "return" /\ rpc'[d] = "next"
      /\ rpc' \in [Routines -> {"idle", "next"} \cup Working]
      /\ \A u \in Routines \ {d} : rpc'[u] = rpc[u]
      /\ now' \in [Deliverers -> Rows \cup {NoRow}]
      /\ done' \in [Deliverers -> Nat] /\ done'[d] = done[d] + 1
      /\ \A e \in Deliverers \ {d} : done'[e] = done[e]
  BY <1>0 DEF MarkMessageDelivered, Goto, outcome, StoreTypes, Working
<1>2. \A n \in Rows : /\ rows'[n] \in Row /\ rows'[n].msg = rows[n].msg
                      /\ rows'[n].status \in {rows[n].status, "delivered"}
                      /\ n # now[d] \/ rows[n].msg # rmsg[d] => rows'[n] = rows[n]
  BY <1>0, <1>1 DEF StoreTypes, Row
<1>3. StoreTypes'
  <2>1. rows' \in [Rows -> Row]
    BY <1>1, <1>2
  <2>2. \A n \in Rows : rows'[n].status = "pending" => rows'[n].msg \in Messages
    BY <1>0, <1>2 DEF StoreTypes
  <2> QED BY <1>0, <1>1, <2>1, <2>2 DEF StoreTypes, Working
<1>4. KeptInv'
  <2> SUFFICES ASSUME NEW m \in Messages, Known(m)' PROVE Kept(m)'
    BY DEF KeptInv
  <2>1. Waiting(m)' \subseteq Waiting(m) /\ Waiting(m) \ {now[d]} \subseteq Waiting(m)'
    BY <1>2 DEF Waiting
  <2>2. Again(m)' \subseteq Again(m)
    BY <1>1 DEF Again, Routines
  <2>3. Known(m)
    BY <1>1, <2>1 DEF Known, Routines, Working
  <2>4. Kept(m)
    BY <1>0, <2>3 DEF KeptInv
  <2>5. CASE m # rmsg[d]
    <3>1. Waiting(m)' = Waiting(m)
      BY <1>2, <2>5 DEF Waiting
    <3> QED BY <1>1, <2>2, <2>4, <3>1, KeptStays
  <2>6. CASE m = rmsg[d]
    <3>1. d \in Again(m) /\ Again(m)' = Again(m) \ {d}
      BY <1>1, <2>6 DEF Again, Routines
    <3>2. /\ Cardinality(Again(m)') = Cardinality(Again(m)) - 1
          /\ Cardinality(Waiting(m) \ {now[d]}) >= Cardinality(Waiting(m)) - 1
          /\ IsFiniteSet(Waiting(m))
      <4>1. IsFiniteSet(Again(m)) /\ IsFiniteSet(Waiting(m)) /\ Cardinality(Waiting(m)) \in Nat
        BY StoreFinite
      <4>2. Cardinality(Again(m) \ {d}) = Cardinality(Again(m)) - 1
        BY ONLY <3>1, <4>1, FS_RemoveElement
      <4>3. Cardinality(Waiting(m) \ {now[d]}) = IF now[d] \in Waiting(m)
              THEN Cardinality(Waiting(m)) - 1 ELSE Cardinality(Waiting(m))
        BY ONLY <4>1, FS_RemoveElement
      <4> QED BY <3>1, <4>1, <4>2, <4>3
    <3>3. /\ Cardinality(Waiting(m) \ {now[d]}) <= Cardinality(Waiting(m)')
          /\ Cardinality(Waiting(m)') \in Nat
          /\ Cardinality(Waiting(m) \ {now[d]}) \in Nat
      <4>1. IsFiniteSet(Waiting(m)')
        BY <2>1, <3>2, FS_Subset
      <4>2. Cardinality(Waiting(m) \ {now[d]}) <= Cardinality(Waiting(m)')
            /\ IsFiniteSet(Waiting(m) \ {now[d]})
        BY <2>1, <4>1, FS_Subset
      <4> QED BY <4>1, <4>2, FS_CardinalityType
    <3> QED BY <1>1, <2>4, <3>2, <3>3, StoreFinite DEF Kept
  <2> QED BY <2>5, <2>6
<1>5. UsageInv'
  <2>1. Storing' \subseteq Storing
    BY <1>1 DEF Storing
  <2> QED BY <1>0, <1>1, <2>1, StoreFinite, StoringGrows, RelayConstantsAssumption
          DEF UsageInv, StoreTypes
<1>6. DoneInv'
  <2>1. ASSUME NEW e \in Deliverers
        PROVE  /\ IsFiniteSet(todo'[e])
               /\ done'[e] + Cardinality(todo'[e]) + Count(rpc'[e] \in Working)
                    <= Cardinality(Rows)
               /\ rpc'[e] = "idle" => done'[e] = 0 /\ todo'[e] = {}
    <3>1. CASE e = d
      BY <3>1, <1>0, <1>1, DoneTypes DEF DoneInv, Count, Working
    <3>2. CASE e # d
      BY <3>2, <1>0, <1>1 DEF DoneInv, Routines
    <3> QED BY <3>1, <3>2
  <2> QED BY <2>1 DEF DoneInv
<1> QED BY <1>3, <1>4, <1>5, <1>6 DEF StoreInv

\* A delivery ends, and takes what it counted from the usage.
LEMMA DecrementKeeps ==
  ASSUME StoreInv, NEW d \in Deliverers, DecrementStorageUsage(d)
  PROVE  StoreInv'
<1>0. StoreTypes /\ UsageInv /\ DoneInv /\ d \in Routines
  BY DEF StoreInv, Routines
<1>1. /\ rows' = rows /\ todo' = todo /\ now' = now /\ rsess' = rsess
      /\ usage' \in Nat /\ usage' <= usage
      /\ confirmed' = confirmed /\ received' = received /\ gone' = gone
      /\ rpc[d] = "next" /\ rpc'[d] = "idle" /\ todo[d] = {}
      /\ rpc' \in [Routines -> {"idle", "next"} \cup Working]
      /\ rmsg' \in [Routines -> Messages \cup {NoMessage}]
      /\ \A u \in Routines \ {d} : rpc'[u] = rpc[u] /\ rmsg'[u] = rmsg[u]
      /\ done' \in [Deliverers -> Nat] /\ done'[d] = 0
      /\ \A e \in Deliverers \ {d} : done'[e] = done[e]
  BY <1>0 DEF DecrementStorageUsage, Goto, outcome, StoreTypes, Working
<1>2. StoreTypes'
  BY <1>0, <1>1 DEF StoreTypes, Working
<1>3. KeptInv'
  BY <1>0, <1>1, KeptOnMove DEF Working
<1>4. UsageInv'
  <2>1. Storing' \subseteq Storing
    BY <1>1 DEF Storing
  <2> QED BY <1>0, <1>1, <2>1, StoreFinite, StoringGrows, RelayConstantsAssumption
          DEF UsageInv, StoreTypes
<1>5. DoneInv'
  <2>1. ASSUME NEW e \in Deliverers
        PROVE  /\ IsFiniteSet(todo'[e])
               /\ done'[e] + Cardinality(todo'[e]) + Count(rpc'[e] \in Working)
                    <= Cardinality(Rows)
               /\ rpc'[e] = "idle" => done'[e] = 0 /\ todo'[e] = {}
    <3>1. CASE e = d
      <4>1. IsFiniteSet(todo'[d]) /\ Cardinality(todo'[d]) = 0 /\ todo'[d] = {}
        BY <1>1, FS_EmptySet
      <4> QED BY <3>1, <4>1, <1>1, DoneTypes DEF Count, Working
    <3>2. CASE e # d
      BY <3>2, <1>0, <1>1 DEF DoneInv, Routines
    <3> QED BY <3>1, <3>2
  <2> QED BY <2>1 DEF DoneInv
<1> QED BY <1>2, <1>3, <1>4, <1>5 DEF StoreInv

\* The cleanup removes a row that has expired, or was delivered.
LEMMA ExpireKeeps ==
  ASSUME StoreInv, NEW n \in Rows, DeleteExpiredMessages(n)
  PROVE  StoreInv'
<1>0. StoreTypes /\ UsageInv /\ DoneInv /\ KeptInv
  BY DEF StoreInv
<1>1. /\ rows' = [rows EXCEPT ![n] = Free]
      /\ UNCHANGED <<usage, rpc, rmsg, rsess, todo, now, done, confirmed, received>>
      /\ \/ rows[n].status = "pending" /\ gone' = gone \cup {rows[n].msg}
         \/ rows[n].status = "delivered" /\ gone' = gone
  BY DEF DeleteExpiredMessages, routine
<1>2. StoreTypes'
  <2>1. rows' \in [Rows -> Row] /\ gone' \subseteq Messages
    BY <1>0, <1>1 DEF StoreTypes, Row, Free
  <2>2. \A x \in Rows : rows'[x].status = "pending" => rows'[x].msg \in Messages
    BY <1>0, <1>1 DEF StoreTypes, Free
  <2> QED BY <1>0, <1>1, <2>1, <2>2 DEF StoreTypes
<1>3. KeptInv'
  <2> SUFFICES ASSUME NEW m \in Messages, Known(m)', m \notin received' \cup gone'
               PROVE  Kept(m)'
    BY DEF KeptInv, Kept
  <2>1. Waiting(m)' = Waiting(m)
    BY <1>0, <1>1 DEF Waiting, Free, StoreTypes, Row
  <2>2. Again(m)' = Again(m)
    BY <1>1 DEF Again
  <2>3. Known(m)
    BY <1>1, <2>1 DEF Known
  <2>4. gone \subseteq gone' /\ received' = received
    BY <1>1
  <2> QED BY <1>0, <2>1, <2>2, <2>3, <2>4, KeptStays DEF KeptInv
<1>4. UsageInv' /\ DoneInv'
  BY <1>0, <1>1 DEF UsageInv, DoneInv, Storing, Count
<1> QED BY <1>2, <1>3, <1>4 DEF StoreInv

\* A restart loses the goroutines, and no row.
LEMMA RestartKeeps ==
  ASSUME StoreInv, RelayRestart
  PROVE  StoreInv'
<1>0. StoreTypes /\ UsageInv /\ DoneInv /\ KeptInv
  BY DEF StoreInv
<1>1. /\ UNCHANGED <<rows, usage, confirmed, received, gone>>
      /\ rpc' = [r \in Routines |-> "idle"] /\ rmsg' = [r \in Routines |-> NoMessage]
      /\ rsess' = [r \in Routines |-> NoSession] /\ todo' = [d \in Deliverers |-> {}]
      /\ now' = [d \in Deliverers |-> NoRow] /\ done' = [d \in Deliverers |-> 0]
  BY DEF RelayRestart, table, outcome
<1>2. StoreTypes'
  BY <1>0, <1>1 DEF StoreTypes, Working
<1>3. Deliverers \subseteq Routines /\ Forwarders \subseteq Routines
  BY DEF Routines
<1>4. KeptInv'
  <2> SUFFICES ASSUME NEW m \in Messages, Known(m)' PROVE Kept(m)'
    BY DEF KeptInv
  <2>1. Waiting(m)' = Waiting(m)
    BY <1>1 DEF Waiting
  <2>2. Again(m)' \subseteq Again(m)
    BY <1>1, <1>3 DEF Again
  <2>3. Known(m)
    BY <1>1, <1>3, <2>1 DEF Known, Working
  <2> QED BY <1>0, <1>1, <2>1, <2>2, <2>3, KeptStays DEF KeptInv
<1>5. UsageInv'
  <2>1. Storing' = {}
    BY <1>1 DEF Storing
  <2>2. Cardinality(Storing)' = 0
    BY <2>1, FS_EmptySet
  <2> QED BY <1>0, <1>1, <2>2, StoreFinite, RelayConstantsAssumption DEF UsageInv, StoreTypes
<1>6. DoneInv'
  BY <1>1, <1>3, FS_EmptySet, StoreFinite DEF DoneInv, Count, Working
<1> QED BY <1>2, <1>4, <1>5, <1>6 DEF StoreInv

\* What a batch of rows is read as has at most as many members.
LEMMA BatchSize ==
  ASSUME NEW batch \in SUBSET Rows
  PROVE  LET T == {<<n, rows[n].msg>> : n \in batch}
         IN  IsFiniteSet(T) /\ Cardinality(T) <= Cardinality(Rows) /\ Cardinality(T) \in Nat
<1> DEFINE T == {<<n, rows[n].msg>> : n \in batch}
           f == [x \in T |-> x[1]]
<1>1. f \in Injection(T, Rows)
  <2>1. f \in [T -> Rows]
    OBVIOUS
  <2>2. \A a, b \in T : f[a] = f[b] => a = b
    OBVIOUS
  <2> QED BY <2>1, <2>2 DEF Injection, IsInjective
<1>2. IsFiniteSet(Rows)
  BY RelayConstantsAssumption
<1> HIDE DEF T, f
<1>3. IsFiniteSet(T) /\ Cardinality(T) <= Cardinality(Rows)
  BY <1>1, <1>2, FS_Injection
<1>4. Cardinality(T) \in Nat
  BY <1>3, FS_CardinalityType
<1> QED BY <1>3, <1>4 DEF T

\* The stream of a session is ready: a delivery reads what waits.
LEMMA ReadyKeeps ==
  ASSUME StoreInv, NEW s \in Sessions, HandleRelayReceiveStreamReady(s)
  PROVE  StoreInv'
<1>0. StoreTypes /\ UsageInv /\ DoneInv /\ KeptInv
  BY DEF StoreInv
<1>1. UNCHANGED <<table, rmsg, rsess, now, done, outcome>>
  BY DEF HandleRelayReceiveStreamReady
<1>2. CASE UNCHANGED <<rpc, todo>>
  BY <1>1, <1>2, StoreFrame DEF routine
<1>3. CASE \E batch \in GetPendingMessagesForPeer : \E d \in Deliverers :
             /\ rpc[d] = "idle" /\ rpc' = [rpc EXCEPT ![d] = "next"]
             /\ todo' = [todo EXCEPT ![d] = {<<n, rows[n].msg>> : n \in batch}]
  <2>1. PICK batch \in GetPendingMessagesForPeer, d \in Deliverers :
             /\ rpc[d] = "idle" /\ rpc' = [rpc EXCEPT ![d] = "next"]
             /\ todo' = [todo EXCEPT ![d] = {<<n, rows[n].msg>> : n \in batch}]
    BY <1>3
  <2>2. batch \in SUBSET Rows /\ \A n \in batch : rows[n].status = "pending"
    BY DEF GetPendingMessagesForPeer, Pending
  <2>3. d \in Routines
    BY DEF Routines
  <2> DEFINE T == {<<n, rows[n].msg>> : n \in batch}
  <2>4. IsFiniteSet(T) /\ Cardinality(T) <= Cardinality(Rows) /\ Cardinality(T) \in Nat
    BY <2>2, BatchSize
  <2>5. T \in SUBSET (Rows \X Messages)
    BY <1>0, <2>2 DEF StoreTypes
  <2>6. \A n, m : <<n, m>> \in T => n \in Waiting(m)
    BY <2>2 DEF Waiting
  <2> HIDE DEF T
  <2>7. /\ UNCHANGED <<rows, usage, rmsg, rsess, now, done, confirmed, received, gone>>
        /\ todo' \in [Deliverers -> SUBSET (Rows \X Messages)]
        /\ todo'[d] = T /\ \A e \in Deliverers \ {d} : todo'[e] = todo[e]
        /\ rpc' \in [Routines -> {"idle", "next"} \cup Working]
        /\ rpc[d] = "idle" /\ rpc'[d] = "next"
        /\ \A u \in Routines \ {d} : rpc'[u] = rpc[u]
    BY <1>0, <1>1, <2>1, <2>3, <2>5 DEF StoreTypes, table, outcome, T
  <2>8. StoreTypes'
    BY <1>0, <2>3, <2>7 DEF StoreTypes, Working
  <2>9. KeptInv'
    <3> SUFFICES ASSUME NEW m \in Messages, Known(m)' PROVE Kept(m)'
      BY DEF KeptInv
    <3>1. Waiting(m)' = Waiting(m)
      BY <2>7 DEF Waiting
    <3>2. Again(m)' \subseteq Again(m)
      BY <2>7 DEF Again, Routines
    <3>3. Known(m)
      <4>1. CASE \E n \in Rows : <<n, m>> \in T
        BY <4>1, <2>6 DEF Known
      <4>2. CASE ~ \E n \in Rows : <<n, m>> \in T
        BY <4>2, <2>7, <3>1 DEF Known, Routines, Working
      <4> QED BY <4>1, <4>2
    <3> QED BY <1>0, <2>7, <3>1, <3>2, <3>3, KeptStays DEF KeptInv
  <2>10. UsageInv'
    <3>1. Storing' \subseteq Storing
      BY <2>7 DEF Storing
    <3> QED BY <1>0, <2>3, <2>7, <3>1, StoreFinite, StoringGrows, RelayConstantsAssumption
          DEF UsageInv, StoreTypes
  <2>11. DoneInv'
    <3>1. ASSUME NEW e \in Deliverers
          PROVE  /\ IsFiniteSet(todo'[e])
                 /\ done'[e] + Cardinality(todo'[e]) + Count(rpc'[e] \in Working)
                      <= Cardinality(Rows)
                 /\ rpc'[e] = "idle" => done'[e] = 0 /\ todo'[e] = {}
      <4>1. CASE e = d
        <5>1. done'[d] = 0
          BY <1>0, <2>7 DEF DoneInv
        <5> QED BY <4>1, <5>1, <2>4, <2>7, DoneTypes DEF Count, Working
      <4>2. CASE e # d
        BY <4>2, <1>0, <2>7 DEF DoneInv, Routines
      <4> QED BY <4>1, <4>2
    <3> QED BY <3>1 DEF DoneInv
  <2> QED BY <2>8, <2>9, <2>10, <2>11 DEF StoreInv
<1> QED BY <1>2, <1>3 DEF HandleRelayReceiveStreamReady

-----------------------------------------------------------------------------
(* The client of the relay, and the relay session.                          *)

\* Threads; one that has registered holds the session until it is installed and announced.
ThreadsInv ==
  /\ tpc \in [Threads -> {"idle", "loss", "disconnect", "register", "install",
                          "publish", "open", "clear"}]
  /\ kind \in [Threads -> Kinds]
  /\ held \in [Threads -> Sessions \cup {NoSession}]
  /\ tries \in [Threads -> 0 .. MaxRetries]
  /\ \A t \in Threads : tpc[t] \in {"install", "publish", "open"} => held[t] \in Sessions

ClientInv ==
  /\ current \in Sessions \cup {NoSession} /\ published \in Sessions \cup {NoSession}
  /\ listening \subseteq Sessions /\ keepers \in 0 .. MaxKeepers
  /\ ThreadsInv

RelayInv == SessionTypes /\ StoreInv /\ ClientInv

\* A fault keeps the bound on faults.
LEMMA FaultKeeps ==
  ASSUME SessionTypes, Fault
  PROVE  faults' \in 0 .. MaxFaults
BY RelayConstantsAssumption DEF SessionTypes, Fault

\* A new goroutine of the relay manager.
LEMMA BeginKeeps ==
  ASSUME ThreadsInv, NEW t \in Threads, NEW what \in Kinds,
         NEW pc \in {"loss", "disconnect"}, Begin(t, what, pc)
  PROVE  ThreadsInv'
<1>1. 0 \in 0 .. MaxRetries
  BY ClientConstantsAssumption
<1> QED BY <1>1 DEF ThreadsInv, Begin, At

\* The end of a goroutine of the relay manager.
LEMMA EndKeeps ==
  ASSUME ThreadsInv, NEW t \in Threads, End(t)
  PROVE  ThreadsInv'
<1>1. 0 \in 0 .. MaxRetries
  BY ClientConstantsAssumption
<1> QED BY <1>1 DEF ThreadsInv, End, At, Kinds

\* ConnectToRelay fails: another try, or the end.
LEMMA ConnectFailsKeeps ==
  ASSUME ThreadsInv, NEW t \in Threads, ConnectFails(t)
  PROVE  ThreadsInv'
<1>1. CASE kind[t] # "loss"
  BY <1>1, EndKeeps DEF ConnectFails
<1>2. CASE kind[t] = "loss"
  <2>1. tries[t] < MaxRetries => tries[t] + 1 \in 0 .. MaxRetries
    BY ClientConstantsAssumption DEF ThreadsInv
  <2>2. tries' \in [Threads -> 0 .. MaxRetries]
    BY <1>2, <2>1 DEF ThreadsInv, ConnectFails
  <2> QED BY <1>2, <2>2 DEF ThreadsInv, ConnectFails, At
<1> QED BY <1>1, <1>2

\* The steps of ConnectToRelay and of the loss handler.
LEMMA ConnectKeeps ==
  ASSUME SessionTypes, ClientInv, NEW t \in Threads, Connect(t)
  PROVE  SessionTypes' /\ ClientInv' /\ UNCHANGED <<table, routine, outcome>>
<1> USE DEF ClientInv
<1>1. CASE DisconnectRelay(t)
  <2>1. ThreadsInv'
    BY <1>1 DEF DisconnectRelay, ThreadsInv, At
  <2>2. keepers' \in 0 .. MaxKeepers
    BY <1>1, ClientConstantsAssumption DEF DisconnectRelay
  <2>3. /\ current' \in Sessions \cup {NoSession} /\ published' \in Sessions \cup {NoSession}
        /\ listening' = listening /\ UNCHANGED <<service, ready, table, routine, outcome, faults>>
        /\ link' \in [Sessions -> {"none", "up", "silent", "down"}] /\ ending' \subseteq Sessions
    BY <1>1 DEF DisconnectRelay, SessionTypes
  <2> QED BY <2>1, <2>2, <2>3 DEF SessionTypes, service
<1>2. CASE RegisterAtRelay(t)
  <2>0. /\ UNCHANGED <<ending, ready, table, routine, outcome>>
        /\ UNCHANGED <<current, published, listening, keepers>>
    BY <1>2 DEF RegisterAtRelay
  <2>1. CASE \E s \in Sessions :
          /\ HandleRelayRegister(s)
          /\ \/ /\ link' = [link EXCEPT ![s] = "up"]
                /\ held' = [held EXCEPT ![t] = s]
                /\ At(t, "install")
                /\ UNCHANGED <<faults, kind, tries>>
             \/ /\ link' = [link EXCEPT ![s] = "down"]
                /\ Fault /\ ConnectFails(t)
    <3>1. PICK s \in Sessions :
            /\ HandleRelayRegister(s)
            /\ \/ /\ link' = [link EXCEPT ![s] = "up"]
                  /\ held' = [held EXCEPT ![t] = s]
                  /\ At(t, "install")
                  /\ UNCHANGED <<faults, kind, tries>>
               \/ /\ link' = [link EXCEPT ![s] = "down"]
                  /\ Fault /\ ConnectFails(t)
      BY <2>1
    <3>2. /\ sessions' \subseteq Sessions /\ registered' = s /\ UNCHANGED <<streams, stuck>>
          /\ link' \in [Sessions -> {"none", "up", "silent", "down"}]
      BY <3>1 DEF HandleRelayRegister, SessionTypes
    <3>3. ThreadsInv'
      <4>1. CASE held' = [held EXCEPT ![t] = s] /\ At(t, "install") /\ UNCHANGED <<kind, tries>>
        BY <4>1 DEF ThreadsInv, At
      <4> QED BY <3>1, <4>1, ConnectFailsKeeps
    <3>4. faults' \in 0 .. MaxFaults
      BY <3>1, FaultKeeps DEF SessionTypes
    <3> QED BY <2>0, <3>2, <3>3, <3>4 DEF SessionTypes
  <2>2. CASE /\ \/ RegisterRefused /\ UNCHANGED faults
                \/ Fault
             /\ ConnectFails(t)
             /\ UNCHANGED <<service, link>>
    <3>1. faults' \in 0 .. MaxFaults
      BY <2>2, FaultKeeps DEF SessionTypes
    <3>2. ThreadsInv'
      BY <2>2, ConnectFailsKeeps
    <3> QED BY <2>0, <2>2, <3>1, <3>2 DEF SessionTypes, service
  <2> QED BY <1>2, <2>1, <2>2 DEF RegisterAtRelay
<1>3. CASE InstallRelay(t)
  BY <1>3 DEF InstallRelay, ThreadsInv, At, relayVars, SessionTypes, service
<1>4. CASE updateOurMetadataWithRelay(t)
  BY <1>4 DEF updateOurMetadataWithRelay, ThreadsInv, At, relayVars, SessionTypes, service
<1>5. CASE openReceiveStream(t)
  <2>0. /\ UNCHANGED <<service, ending, table, routine, outcome, faults>>
        /\ UNCHANGED <<current, published>> /\ held[t] \in Sessions
    BY <1>5 DEF openReceiveStream, ThreadsInv
  <2>1. /\ keepers' \in 0 .. MaxKeepers
        /\ ready' \subseteq Sessions /\ listening' \subseteq Sessions
        /\ link' \in [Sessions -> {"none", "up", "silent", "down"}]
    BY <1>5, <2>0, ClientConstantsAssumption DEF openReceiveStream, SessionTypes
  <2>2. ThreadsInv'
    BY <1>5, EndKeeps, ConnectFailsKeeps DEF openReceiveStream
  <2> QED BY <2>0, <2>1, <2>2 DEF SessionTypes, service
<1>6. CASE ensureDHTDisconnected(t)
  BY <1>6, EndKeeps DEF ensureDHTDisconnected, relayVars, SessionTypes, service
<1>7. CASE handleRelayConnectionLoss(t)
  <2>1. ThreadsInv'
    <3>1. CASE current = NoSession
      BY <1>7, <3>1, EndKeeps DEF handleRelayConnectionLoss
    <3>2. CASE current # NoSession
      BY <1>7, <3>2 DEF handleRelayConnectionLoss, ThreadsInv, At
    <3> QED BY <3>1, <3>2
  <2> QED BY <1>7, <2>1 DEF handleRelayConnectionLoss, relayVars, SessionTypes, service
<1> QED BY <1>1, <1>2, <1>3, <1>4, <1>5, <1>6, <1>7 DEF Connect

\* New goroutines: the relay was found, the user chose, a loss was noticed.
LEMMA NewThreadKeeps ==
  ASSUME SessionTypes, ClientInv, NEW t \in Threads,
         \/ Notice(t) \/ AddRelayCandidate(t) \/ EvaluateAndSelectRelay(t)
         \/ ConnectToSpecificRelay(t) \/ ReconnectRelay(t)
  PROVE  SessionTypes' /\ ClientInv' /\ UNCHANGED <<table, routine, outcome>>
<1> USE DEF ClientInv
<1>1. CASE KeepaliveFails(t)
  <2>1. ThreadsInv'
    BY <1>1, BeginKeeps DEF KeepaliveFails, Kinds
  <2>2. keepers' \in 0 .. MaxKeepers
    BY <1>1, ClientConstantsAssumption DEF KeepaliveFails
  <2> QED BY <1>1, <2>1, <2>2 DEF KeepaliveFails, relayVars, SessionTypes, service
<1>2. CASE \E s \in Sessions : listenForRelayedMessages(s, t)
  <2>1. ThreadsInv'
    BY <1>2, BeginKeeps DEF listenForRelayedMessages, Kinds
  <2> QED BY <1>2, <2>1 DEF listenForRelayedMessages, relayVars, SessionTypes, service
<1>3. CASE SelectAndConnectRelay(t)
  <2>1. ThreadsInv'
    BY <1>3, BeginKeeps DEF SelectAndConnectRelay, Kinds
  <2> QED BY <1>3, <2>1 DEF SelectAndConnectRelay, relayVars, SessionTypes, service
<1>4. CASE ConnectAgain(t)
  <2>1. ThreadsInv'
    BY <1>4, BeginKeeps DEF ConnectAgain, Kinds
  <2>2. faults' \in 0 .. MaxFaults
    BY <1>4, FaultKeeps DEF ConnectAgain
  <2> QED BY <1>4, <2>1, <2>2 DEF ConnectAgain, SessionTypes, service
<1> QED BY <1>1, <1>2, <1>3, <1>4 DEF Notice, AddRelayCandidate, EvaluateAndSelectRelay,
        ConnectToSpecificRelay, ReconnectRelay

\* The sessions at the relay in a step of the service.
LEMMA ServiceSessions ==
  ASSUME SessionTypes, ServiceStep \/ RelayRestart
  PROVE  SessionTypes'
<1>1. ASSUME NEW s \in Sessions, HandleRelayReceiveStreamReady(s)
      PROVE  SessionTypes'
  BY <1>1 DEF HandleRelayReceiveStreamReady, SessionTypes
<1>2. ASSUME NEW s \in Sessions,
             terminateSession(s) \/ DisconnectSession(s) \/ LinkFails(s) \/ IdleTimeout(s)
               \/ HandleRelayDisconnect(s)
      PROVE  SessionTypes'
  <2>1. faults' \in 0 .. MaxFaults
    BY <1>2, FaultKeeps DEF terminateSession, DisconnectSession, LinkFails, IdleTimeout,
       HandleRelayDisconnect, SessionTypes
  <2> QED BY <1>2, <2>1 DEF terminateSession, DisconnectSession, LinkFails, IdleTimeout,
       HandleRelayDisconnect, SessionTypes, service
<1>3. ASSUME NEW r \in Routines, Forward(r)
      PROVE  SessionTypes'
  BY <1>3 DEF Forward, forwardDataToTarget, WriteToStream, canStoreMessage,
     StorePendingMessage, IncrementStorageUsage, SessionTypes, service
<1>4. ASSUME NEW r \in Forwarders, AnswerSuccess(r) \/ \E m \in Messages : handleRelayRequest(r, m)
      PROVE  SessionTypes'
  BY <1>4 DEF AnswerSuccess, handleRelayRequest, SessionTypes, service
<1>5. ASSUME NEW d \in Deliverers,
             deliverPendingMessages(d) \/ MarkMessageDelivered(d) \/ DecrementStorageUsage(d)
      PROVE  SessionTypes'
  BY <1>5 DEF deliverPendingMessages, MarkMessageDelivered, DecrementStorageUsage,
     SessionTypes, service
<1>6. ASSUME NEW n \in Rows, DeleteExpiredMessages(n)
      PROVE  SessionTypes'
  BY <1>6, FaultKeeps DEF DeleteExpiredMessages, SessionTypes, service
<1>7. CASE RelayRestart
  <2>1. faults' \in 0 .. MaxFaults
    BY <1>7, FaultKeeps DEF RelayRestart
  <2> QED BY <1>7, <2>1 DEF RelayRestart, SessionTypes
<1> QED BY <1>1, <1>2, <1>3, <1>4, <1>5, <1>6, <1>7 DEF ServiceStep, Deliver, Routines

\* The table and the goroutines in a step of the service.
LEMMA ServiceStore ==
  ASSUME SessionTypes, StoreInv, ServiceStep \/ RelayRestart
  PROVE  StoreInv'
<1>1. ASSUME NEW s \in Sessions,
             terminateSession(s) \/ DisconnectSession(s) \/ LinkFails(s) \/ IdleTimeout(s)
               \/ HandleRelayDisconnect(s)
      PROVE  StoreInv'
  BY <1>1, StoreFrame DEF terminateSession, DisconnectSession, LinkFails, IdleTimeout,
     HandleRelayDisconnect
<1>2. ASSUME NEW r \in Routines, Forward(r)
      PROVE  StoreInv'
  BY <1>2, FindKeeps, WriteKeeps, QuotaKeeps, StoreKeeps, IncrementKeeps DEF Forward
<1> QED BY <1>1, <1>2, ReadyKeeps, RequestKeeps, AnswerKeeps, DeliverKeeps, MarkKeeps,
        DecrementKeeps, ExpireKeeps, RestartKeeps DEF ServiceStep, Deliver, Routines

\* The initial state of the relay and its client.
LEMMA RelayInvInit ==
  ASSUME Init
  PROVE  RelayInv
<1>1. 0 \in 0 .. MaxFaults /\ 0 \in 0 .. MaxKeepers /\ 0 \in 0 .. MaxRetries
  BY RelayConstantsAssumption, ClientConstantsAssumption
<1>2. SessionTypes
  BY <1>1 DEF Init, ServiceInit, SessionTypes
<1>3. ClientInv
  BY <1>1 DEF Init, ClientInv, ThreadsInv, Kinds
<1>4. StoreTypes
  BY DEF Init, ServiceInit, StoreTypes, Row, Free, Working
<1>5. Deliverers \subseteq Routines /\ Forwarders \subseteq Routines
  BY DEF Routines
<1>6. KeptInv
  <2>1. \A m \in Messages : ~Known(m)
    BY <1>5 DEF Init, ServiceInit, Known, Waiting, Free, Working
  <2> QED BY <2>1 DEF KeptInv
<1>7. UsageInv
  <2>1. Storing = {}
    BY DEF Init, ServiceInit, Storing
  <2>2. Cardinality(Storing) = 0 /\ usage = 0
    BY <2>1, FS_EmptySet DEF Init, ServiceInit
  <2> QED BY <2>2, StoreFinite, RelayConstantsAssumption DEF UsageInv
<1>8. DoneInv
  BY <1>5, FS_EmptySet, StoreFinite DEF Init, ServiceInit, DoneInv, Count, Working
<1> QED BY <1>2, <1>3, <1>4, <1>6, <1>7, <1>8 DEF RelayInv, StoreInv

\* Every step of the relay, its client and the senders.
LEMMA RelayInvNext ==
  ASSUME RelayInv, Next
  PROVE  RelayInv'
<1>0. SessionTypes /\ StoreInv /\ ClientInv
  BY DEF RelayInv
<1>1. ASSUME NEW t \in Threads,
             \/ Connect(t) \/ Notice(t) \/ AddRelayCandidate(t) \/ EvaluateAndSelectRelay(t)
             \/ ConnectToSpecificRelay(t) \/ ReconnectRelay(t)
      PROVE  RelayInv'
  <2>1. SessionTypes' /\ ClientInv' /\ UNCHANGED <<table, routine, outcome>>
    BY <1>0, <1>1, ConnectKeeps, NewThreadKeeps
  <2> QED BY <1>0, <2>1, StoreFrame DEF RelayInv
<1>2. CASE sendKeepalives
  <2>1. keepers' \in 0 .. MaxKeepers
    BY <1>0, <1>2, ClientConstantsAssumption DEF sendKeepalives, ClientInv
  <2>2. ClientInv' /\ SessionTypes'
    BY <1>0, <1>2, <2>1
       DEF sendKeepalives, ClientInv, ThreadsInv, threads, relayVars, SessionTypes, service
  <2>3. StoreInv'
    BY <1>0, <1>2, StoreFrame DEF sendKeepalives, relayVars
  <2> QED BY <2>2, <2>3 DEF RelayInv
<1>3. CASE (ServiceStep \/ RelayRestart) /\ UNCHANGED clientVars
  <2>1. ClientInv'
    BY <1>0, <1>3 DEF ClientInv, ThreadsInv, clientVars, threads
  <2> QED BY <1>0, <1>3, <2>1, ServiceSessions, ServiceStore DEF RelayInv
<1> QED BY <1>1, <1>2, <1>3 DEF Next

\* Steps of the other parts leave the relay and its client alone.
LEMMA RelayFrame ==
  ASSUME RelayInv, UNCHANGED vars
  PROVE  RelayInv'
<1>1. StoreInv'
  BY StoreFrame DEF RelayInv, vars, relayVars
<1> QED BY <1>1 DEF RelayInv, SessionTypes, ClientInv, ThreadsInv, vars, relayVars, service,
        clientVars, threads

\* What the relay's part of the invariant gives.
LEMMA RelayInvImplies ==
  ASSUME RelayInv
  PROVE  TypeOK /\ ConfirmedIsKept
<1>0. SessionTypes /\ StoreTypes /\ KeptInv /\ UsageInv /\ DoneInv /\ ClientInv
  BY DEF RelayInv, StoreInv
<1>1. usage \in 0 .. MaxStored + Cardinality(Routines)
  BY <1>0, StoreFinite, RelayConstantsAssumption DEF StoreTypes, UsageInv
<1>2. done \in [Deliverers -> 0 .. Cardinality(Rows)]
  <2>1. \A d \in Deliverers : done[d] \in 0 .. Cardinality(Rows)
    BY <1>0, DoneTypes DEF DoneInv, Count, RelayInv
  <2> QED BY <1>0, <2>1 DEF StoreTypes
<1>3. ServiceTypeOK
  BY <1>0, <1>1, <1>2 DEF ServiceTypeOK, SessionTypes, StoreTypes, Working
<1>4. TypeOK
  BY <1>0, <1>3 DEF TypeOK, ClientInv, ThreadsInv
<1>5. ConfirmedIsKept
  <2> SUFFICES ASSUME NEW m \in confirmed, m \notin received \cup gone
               PROVE  \E n \in Rows : rows[n].status = "pending" /\ rows[n].msg = m
    BY DEF ConfirmedIsKept
  <2>1. Kept(m)
    BY <1>0 DEF KeptInv, Known, StoreTypes
  <2>2. Cardinality(Waiting(m)) > Cardinality(Again(m))
    BY <2>1 DEF Kept
  <2>3. Waiting(m) # {}
    <3>1. Cardinality(Waiting(m)) \in Nat /\ Cardinality(Again(m)) \in Nat
      BY StoreFinite
    <3>2. Cardinality(Waiting(m)) # 0
      BY <2>2, <3>1
    <3> QED BY <3>2, FS_EmptySet
  <2> QED BY <2>3 DEF Waiting
<1> QED BY <1>4, <1>5

\* The relay's part of every reachable state (relay.go, relay_manager.go, database/relay.go).
THEOREM RelayInvariant == TrafficSpec => []RelayInv
<1>1. TrafficInit => RelayInv
  BY RelayInvInit DEF TrafficInit
<1>2. RelayInv /\ [TrafficNext]_trafficVars => RelayInv'
  <2> SUFFICES ASSUME RelayInv, [TrafficNext]_trafficVars PROVE RelayInv'
    OBVIOUS
  <2>1. CASE Keeps(Next)
    BY <2>1, RelayInvNext DEF Keeps
  <2>2. CASE UNCHANGED vars
    BY <2>2, RelayFrame
  <2> QED BY <2>1, <2>2 DEF TrafficNext, Asks, Searches, trafficVars
<1> QED BY <1>1, <1>2, PTL DEF TrafficSpec

\* A message whose sender was told "success" was read by the client, waits in the table, or
\* has expired or died with the connection: for any numbers of senders, deliveries, rows and
\* messages, full stores, broken streams, failed writes and restarts (tryStoreAndForward and
\* deliverPendingMessages of relay.go).
THEOREM ConfirmedKept == TrafficSpec => []ConfirmedIsKept
<1>1. RelayInv => ConfirmedIsKept
  BY RelayInvImplies
<1> QED BY <1>1, RelayInvariant, PTL

-----------------------------------------------------------------------------
(* The search.                                                              *)

Before == {"connections", "candidates", "lookups"}

\* The types of the search, and what there is before the queries start.
SearchTypes ==
  /\ line \in [SearchPeers -> {"none", "direct", "inbound", "unnamed"}]
  /\ metadata \in [SearchPeers -> {"unknown", "nothing", "relay", "ownRelay", "public"}]
  /\ answersAt \in [SearchPeers -> SearchPeers] /\ filter \in Filters
  /\ spc \in Before \cup {"collect", "over"}
  /\ toCheck \subseteq Everyone /\ targets \subseteq Targets
  /\ blurred \in BOOLEAN /\ searchFaults \in 0 .. MaxSearchFaults
  /\ spc \in Before => running = {} /\ falling = {} /\ results = {} /\ sent = <<>> /\ taken = 0
  /\ spc = "connections" => toCheck = {} /\ targets = {}

\* A peer has one target, and is asked for; only a connection has no name.
TargetInv ==
  /\ \A q \in toCheck : Allowed(q)
  /\ \A t \in targets : IF t.id = NoName THEN t.via = "direct" ELSE Allowed(t.id)
  /\ \A t, u \in targets : t.id = u.id /\ t.id # NoName => t = u

\* A target is asked by one goroutine, which puts one result into the channel; the result
\* names the target's own peer.
QueryInv ==
  /\ running \subseteq targets /\ falling \subseteq targets
  /\ results \subseteq targets \X (SearchPeers \cup {NoName})
  /\ running \cap falling = {} /\ \A t \in falling : t.id # NoName
  /\ \A x \in results : x[1] \notin running \cup falling
  /\ \A x, y \in results : x[1] = y[1] => x = y
  /\ ~blurred => \A x \in results : x[2] \in {x[1].id, NoName}

\* What was sent is settled: the peer's target is neither asked nor in the channel.
SentInv ==
  /\ sent \in Seq(Everyone \cup {"complete"})
  /\ \A i \in DOMAIN sent : sent[i] = "complete" <=> (spc = "over" /\ i = Len(sent))
  /\ ~blurred => \A i \in DOMAIN sent :
       /\ sent[i] # "complete" => Allowed(sent[i])
       /\ sent[i] \in SearchPeers =>
            \E t \in targets : /\ t.id = sent[i] /\ t \notin running \cup falling
                               /\ \A x \in results : x[1] # t
       /\ sent[i] # "complete" => \A j \in DOMAIN sent : sent[j] = sent[i] => j = i

\* Each target has at most one result, waiting or taken.
ResultInv ==
  /\ IsFiniteSet(results) /\ taken \in Nat
  /\ Cardinality(results) + Cardinality(running) + Cardinality(falling) + taken
       <= Cardinality(targets)

SearchInv == SearchTypes /\ TargetInv /\ QueryInv /\ SentInv /\ ResultInv

\* There are finitely many targets.
LEMMA TargetsFinite == IsFiniteSet(Targets)
<1> DEFINE Vias == {"direct", "public", "relay", "ownRelay"}
           D == (SearchPeers \cup {NoName}) \X (Vias \X SearchPeers)
           f == [t \in Targets |-> <<t.id, <<t.via, t.at>>>>]
<1>1. IsFiniteSet(Vias)
  <2>1. IsFiniteSet({"direct"})
    BY FS_Singleton
  <2>2. IsFiniteSet({"direct"} \cup {"public"})
    BY <2>1, FS_AddElement
  <2>3. IsFiniteSet(({"direct"} \cup {"public"}) \cup {"relay"})
    BY <2>2, FS_AddElement
  <2>4. IsFiniteSet((({"direct"} \cup {"public"}) \cup {"relay"}) \cup {"ownRelay"})
    BY <2>3, FS_AddElement
  <2>5. Vias = (({"direct"} \cup {"public"}) \cup {"relay"}) \cup {"ownRelay"}
    OBVIOUS
  <2> QED BY <2>4, <2>5
<1>2. IsFiniteSet(SearchPeers) /\ IsFiniteSet(SearchPeers \cup {NoName})
  BY SearchAssumption, FS_AddElement
<1>3. f \in [Targets -> D]
  BY DEF Targets
<1>4. \A a, b \in Targets : f[a] = f[b] => a = b
  BY DEF Targets
<1> HIDE DEF Vias
<1>5. IsFiniteSet(Vias \X SearchPeers)
  BY <1>1, <1>2, FS_Product
<1>6. IsFiniteSet(D)
  BY <1>2, <1>5, FS_Product
<1>7. f \in Injection(Targets, D)
  BY <1>3, <1>4 DEF Injection, IsInjective
<1> HIDE DEF D, f
<1> QED BY <1>6, <1>7, FS_Injection

\* The numbers of ResultInv.
LEMMA SearchFinite ==
  ASSUME SearchTypes, QueryInv, IsFiniteSet(results)
  PROVE  /\ IsFiniteSet(targets) /\ IsFiniteSet(running) /\ IsFiniteSet(falling)
         /\ Cardinality(targets) \in Nat /\ Cardinality(running) \in Nat
         /\ Cardinality(falling) \in Nat /\ Cardinality(results) \in Nat
<1>1. IsFiniteSet(targets)
  BY TargetsFinite, FS_Subset DEF SearchTypes
<1>2. IsFiniteSet(running) /\ IsFiniteSet(falling)
  BY <1>1, FS_Subset DEF QueryInv
<1> QED BY <1>1, <1>2, FS_CardinalityType

\* The steps before the queries start: only the candidates and targets change.
LEMMA BeforeKeeps ==
  ASSUME SearchInv, spc \in Before, spc' \in Before, spc' # "connections",
         UNCHANGED <<searchWorld, running, falling, results, sent, taken, blurred>>,
         toCheck' \subseteq Everyone, targets' \subseteq Targets,
         searchFaults' \in 0 .. MaxSearchFaults, TargetInv'
  PROVE  SearchInv'
<1>1. running = {} /\ falling = {} /\ results = {} /\ sent = <<>> /\ taken = 0
  BY DEF SearchInv, SearchTypes
<1>2. SearchTypes'
  BY DEF SearchInv, SearchTypes, searchWorld, Before
<1>3. QueryInv'
  BY <1>1 DEF QueryInv
<1>4. SentInv'
  BY <1>1 DEF SentInv
<1>5. ResultInv'
  <2>1. /\ Cardinality(results') = 0 /\ Cardinality(running') = 0 /\ Cardinality(falling') = 0
        /\ taken' = 0 /\ IsFiniteSet(results')
    BY <1>1, FS_EmptySet
  <2>2. Cardinality(targets') \in Nat
    BY TargetsFinite, FS_Subset, FS_CardinalityType
  <2> QED BY <2>1, <2>2 DEF ResultInv
<1> QED BY <1>2, <1>3, <1>4, <1>5 DEF SearchInv

\* Whom to ask, from the connections.
LEMMA ConnectionsKeep ==
  ASSUME SearchInv, FromConnections
  PROVE  SearchInv'
<1>0. SearchTypes
  BY DEF SearchInv
<1>1. /\ spc = "connections" /\ spc' = "candidates"
      /\ UNCHANGED <<searchWorld, running, falling, results, sent, taken, blurred, searchFaults>>
  BY DEF FromConnections
<1>2. \A t \in targets' :
        \/ \E q \in SearchPeers : Allowed(q) /\ t = [id |-> q, via |-> "direct", at |-> q]
        \/ \E q \in SearchPeers : t = [id |-> NoName, via |-> "direct", at |-> q]
  BY DEF FromConnections, Target
<1>3. toCheck' \subseteq SearchPeers /\ \A q \in toCheck' : Allowed(q)
  BY DEF FromConnections
<1>4. \A q : Allowed(q)' <=> Allowed(q)
  BY <1>1 DEF Allowed, searchWorld
<1>5. \A q \in SearchPeers : q # NoName
  BY SearchAssumption
<1>6. TargetInv'
  <2>1. \A t \in targets' : IF t.id = NoName THEN t.via = "direct" ELSE Allowed(t.id)
    BY <1>2, <1>5
  <2>2. \A t, u \in targets' : t.id = u.id /\ t.id # NoName => t = u
    BY <1>2, <1>5
  <2> QED BY <1>3, <1>4, <2>1, <2>2 DEF TargetInv
<1>7. targets' \subseteq Targets
  BY <1>2 DEF Targets
<1> QED BY <1>0, <1>1, <1>3, <1>6, <1>7, BeforeKeeps DEF Before, SearchTypes, Everyone

\* The peers of the request, or the first known ones.
LEMMA KnownKeep ==
  ASSUME SearchInv, FromKnownPeers
  PROVE  SearchInv'
<1>0. SearchTypes /\ TargetInv
  BY DEF SearchInv
<1>1. /\ spc = "candidates" /\ spc' = "lookups"
      /\ UNCHANGED <<searchWorld, targets, running, falling, results, sent, taken, blurred,
                     searchFaults>>
  BY DEF FromKnownPeers
<1>2. PICK S \in SUBSET SearchPeers :
        toCheck' = toCheck \cup IF filter = NoFilter THEN S ELSE filter
  BY DEF FromKnownPeers
<1>3. filter = NoFilter \/ filter \subseteq Everyone
  BY <1>0, SearchAssumption DEF SearchTypes, Everyone
<1>4. toCheck' \subseteq Everyone
  BY <1>0, <1>2, <1>3 DEF SearchTypes, Everyone
<1>5. \A q : Allowed(q)' <=> Allowed(q)
  BY <1>1 DEF Allowed, searchWorld
<1>6. \A q \in toCheck' : Allowed(q)
  BY <1>0, <1>2 DEF TargetInv, Allowed
<1>7. TargetInv'
  BY <1>0, <1>1, <1>5, <1>6 DEF TargetInv
<1> QED BY <1>0, <1>1, <1>4, <1>7, BeforeKeeps DEF Before, SearchTypes

\* A candidate is looked up: its target takes the place of the one it had.
LEMMA LookUpKeeps ==
  ASSUME SearchInv, NEW q \in Everyone, LookUpCandidate(q)
  PROVE  SearchInv'
<1>0. SearchTypes /\ TargetInv
  BY DEF SearchInv
<1>1. /\ spc = "lookups" /\ q \in toCheck /\ toCheck' = toCheck \ {q}
      /\ UNCHANGED <<searchWorld, spc, running, falling, results, sent, taken, blurred>>
  BY DEF LookUpCandidate
<1>2. targets' = targets
        \/ \E t : /\ q \in SearchPeers /\ t \in Targets /\ t.id = q
                  /\ targets' = {u \in targets : u.id # q} \cup {t}
  <2>1. CASE targets' = PutTarget(q, RelayTarget(q)) /\ metadata[q] \in {"relay", "ownRelay"}
             /\ q # Me
    <3>1. q \in SearchPeers
      BY <2>1 DEF Everyone
    <3>2. RelayTarget(q) \in Targets /\ RelayTarget(q).id = q
      BY <2>1, <3>1 DEF RelayTarget, Target, Targets
    <3> QED BY <2>1, <3>1, <3>2 DEF PutTarget
  <2>2. CASE targets' = PutTarget(q, PublicTarget(q)) /\ q # Me
    <3>1. q \in SearchPeers
      BY <2>2 DEF Everyone
    <3>2. PublicTarget(q) \in Targets /\ PublicTarget(q).id = q
      BY <1>0, <3>1 DEF PublicTarget, Target, Targets, SearchTypes
    <3> QED BY <2>2, <3>1, <3>2 DEF PutTarget
  <2> QED BY <2>1, <2>2 DEF LookUpCandidate
<1>3. searchFaults' \in 0 .. MaxSearchFaults
  BY <1>0, SearchAssumption DEF LookUpCandidate, SearchFault, SearchTypes
<1>4. \A p : Allowed(p)' <=> Allowed(p)
  BY <1>1 DEF Allowed, searchWorld
<1>5. Allowed(q) /\ (q \in SearchPeers => q # NoName)
  BY <1>0, <1>1, SearchAssumption DEF TargetInv
<1>6. TargetInv'
  <2>1. \A t \in targets' : IF t.id = NoName THEN t.via = "direct" ELSE Allowed(t.id)
    BY <1>0, <1>2, <1>5 DEF TargetInv
  <2>2. \A t, u \in targets' : t.id = u.id /\ t.id # NoName => t = u
    BY <1>0, <1>2 DEF TargetInv
  <2> QED BY <1>0, <1>1, <1>4, <2>1, <2>2 DEF TargetInv
<1>7. targets' \subseteq Targets
  BY <1>0, <1>2 DEF SearchTypes
<1> QED BY <1>0, <1>1, <1>3, <1>6, <1>7, BeforeKeeps DEF Before, SearchTypes

\* The queries start.
LEMMA StartKeeps ==
  ASSUME SearchInv, StartQueries
  PROVE  SearchInv'
<1>0. SearchTypes /\ TargetInv /\ QueryInv /\ ResultInv
  BY DEF SearchInv
<1>1. /\ spc = "lookups" /\ toCheck = {} /\ spc' = "collect" /\ running' = targets
      /\ sent' = IF Allowed(Me) THEN Append(sent, Me) ELSE sent
      /\ UNCHANGED <<searchWorld, toCheck, targets, falling, results, taken, blurred, searchFaults>>
  BY DEF StartQueries
<1>2. falling = {} /\ results = {} /\ sent = <<>> /\ taken = 0
  BY <1>0, <1>1 DEF SearchTypes, Before
<1>3. \A p : Allowed(p)' <=> Allowed(p)
  BY <1>1 DEF Allowed, searchWorld
<1>4. SearchTypes' /\ TargetInv'
  BY <1>0, <1>1, <1>3 DEF SearchTypes, TargetInv, searchWorld, Before
<1>5. QueryInv'
  BY <1>1, <1>2 DEF QueryInv
<1>6. SentInv'
  <2>1. sent' = <<>> \/ (sent' = <<Me>> /\ Allowed(Me))
    BY <1>1, <1>2
  <2>2. Me \notin SearchPeers /\ Me # "complete" /\ Me \in Everyone
    BY SearchAssumption DEF Everyone
  <2>3. CASE sent' = <<>>
    BY <2>3 DEF SentInv
  <2>4. CASE sent' = <<Me>> /\ Allowed(Me)
    <3>1. /\ DOMAIN sent' = {1} /\ sent'[1] = Me
          /\ sent' \in Seq(Everyone \cup {"complete"})
      BY <2>2, <2>4
    <3>2. Allowed(Me)' /\ spc' = "collect"
      BY <1>1, <1>3, <2>4
    <3> QED BY <2>2, <3>1, <3>2 DEF SentInv
  <2> QED BY <2>1, <2>3, <2>4
<1>7. ResultInv'
  <2>1. Cardinality(results') = 0 /\ Cardinality(falling') = 0 /\ taken' = 0
        /\ IsFiniteSet(results')
    BY <1>1, <1>2, FS_EmptySet
  <2>2. Cardinality(targets) \in Nat
    BY <1>0, SearchFinite DEF ResultInv
  <2> QED BY <1>1, <2>1, <2>2 DEF ResultInv
<1> QED BY <1>4, <1>5, <1>6, <1>7 DEF SearchInv

\* A goroutine ends its query, with a result or with a relay to try.
LEMMA QueryKeeps ==
  ASSUME SearchInv, NEW t \in running \cup falling, NEW who \in SearchPeers \cup {NoName},
         UNCHANGED <<searchWorld, spc, toCheck, targets, sent, taken>>,
         searchFaults' \in 0 .. MaxSearchFaults, blurred' \in {blurred, TRUE},
         running' = running \ {t},
         \/ /\ t \in running /\ t.id # NoName
            /\ falling' = falling \cup {t} /\ results' = results
         \/ /\ falling' = falling \ {t} /\ results' = results \cup {<<t, who>>}
            /\ ~blurred' => who \in {t.id, NoName}
  PROVE  SearchInv'
<1>0. SearchTypes /\ TargetInv /\ QueryInv /\ SentInv /\ ResultInv /\ t \in targets
  BY DEF SearchInv, QueryInv
<1>1. spc \notin Before
  BY <1>0 DEF SearchTypes
<1>2. \A p : Allowed(p)' <=> Allowed(p)
  BY DEF Allowed, searchWorld
<1>3. SearchTypes'
  BY <1>0, <1>1 DEF SearchTypes, searchWorld, Before
<1>4. TargetInv'
  BY <1>0, <1>2 DEF TargetInv
<1>5. QueryInv'
  <2>1. running' \subseteq targets' /\ falling' \subseteq targets' /\ running' \cap falling' = {}
    BY <1>0 DEF QueryInv
  <2>2. results' \subseteq targets' \X (SearchPeers \cup {NoName})
    BY <1>0 DEF QueryInv
  <2>3. \A u \in falling' : u.id # NoName
    BY <1>0 DEF QueryInv
  <2>4. \A x \in results : x[1] \notin running \cup falling /\ x[1] # t
    BY <1>0 DEF QueryInv
  <2>5. \A x \in results' : x \in results \/ (x = <<t, who>> /\ falling' = falling \ {t})
    OBVIOUS
  <2>6. \A x \in results' : x[1] \notin running' \cup falling'
    BY <2>4, <2>5
  <2>7. \A x, y \in results' : x[1] = y[1] => x = y
    <3>1. \A x, y \in results : x[1] = y[1] => x = y
      BY <1>0 DEF QueryInv
    <3> QED BY <2>4, <2>5, <3>1
  <2>8. ASSUME ~blurred', NEW x \in results'
        PROVE  x[2] \in {x[1].id, NoName}
    <3>1. ~blurred
      BY <2>8
    <3>2. CASE x \in results
      BY <1>0, <3>1, <3>2 DEF QueryInv
    <3>3. CASE x \notin results
      BY <2>8, <3>3
    <3> QED BY <3>2, <3>3
  <2> QED BY <2>1, <2>2, <2>3, <2>6, <2>7, <2>8 DEF QueryInv
<1>6. SentInv'
  <2>1. \A u \in targets : u \notin running \cup falling /\ (\A x \in results : x[1] # u)
          => u \notin running' \cup falling' /\ (\A x \in results' : x[1] # u)
    OBVIOUS
  <2>2. ~blurred' => ~blurred
    OBVIOUS
  <2> QED BY <1>0, <1>2, <2>1, <2>2 DEF SentInv
<1>7. ResultInv'
  <2>1. /\ IsFiniteSet(running) /\ IsFiniteSet(falling) /\ IsFiniteSet(results)
        /\ Cardinality(targets) \in Nat /\ Cardinality(running) \in Nat
        /\ Cardinality(falling) \in Nat /\ Cardinality(results) \in Nat
    BY <1>0, SearchFinite DEF ResultInv
  <2>2. t \notin running \/ t \notin falling
    BY <1>0 DEF QueryInv
  <2>3. Cardinality(running \ {t}) =
          IF t \in running THEN Cardinality(running) - 1 ELSE Cardinality(running)
    BY ONLY <2>1, FS_RemoveElement
  <2>4. Cardinality(falling \ {t}) =
          IF t \in falling THEN Cardinality(falling) - 1 ELSE Cardinality(falling)
    BY ONLY <2>1, FS_RemoveElement
  <2>5. Cardinality(falling \cup {t}) =
          IF t \in falling THEN Cardinality(falling) ELSE Cardinality(falling) + 1
    BY ONLY <2>1, FS_AddElement
  <2>6. /\ IsFiniteSet(results \cup {<<t, who>>})
        /\ Cardinality(results \cup {<<t, who>>}) =
             IF <<t, who>> \in results THEN Cardinality(results) ELSE Cardinality(results) + 1
    BY ONLY <2>1, FS_AddElement
  <2>7. CASE falling' = falling \cup {t} /\ results' = results /\ t \in running
    BY <1>0, <2>1, <2>2, <2>3, <2>5, <2>7 DEF ResultInv
  <2>8. CASE falling' = falling \ {t} /\ results' = results \cup {<<t, who>>}
    BY <1>0, <2>1, <2>2, <2>3, <2>4, <2>6, <2>8 DEF ResultInv
  <2> QED BY <2>7, <2>8
<1> QED BY <1>3, <1>4, <1>5, <1>6, <1>7 DEF SearchInv

\* A query that fails keeps the bound on failures.
LEMMA SearchFaultKeeps ==
  ASSUME searchFaults \in 0 .. MaxSearchFaults, SearchFault
  PROVE  searchFaults' \in 0 .. MaxSearchFaults
BY SearchAssumption DEF SearchFault

\* The queries: direct, to an address, and through relays.
LEMMA QueriesKeep ==
  ASSUME SearchInv, NEW t \in targets, DirectAnswer(t) \/ DirectFails(t) \/ RelayQuery(t)
  PROVE  SearchInv'
<1>0. running \cap falling = {} /\ \A u \in falling : u.id # NoName
  BY DEF SearchInv, QueryInv
<1>5. t.at \in SearchPeers /\ t.id \in SearchPeers \cup {NoName}
  BY DEF SearchInv, SearchTypes, Targets
<1>6. searchFaults \in 0 .. MaxSearchFaults
  BY DEF SearchInv, SearchTypes
<1>7. t.via \in {"relay", "ownRelay"} => t.id # NoName
  BY DEF SearchInv, TargetInv
<1>1. SearchFault => searchFaults' \in 0 .. MaxSearchFaults
  BY <1>6, SearchFaultKeeps
<1>2. CASE DirectAnswer(t)
  <2>1. /\ t \in running /\ running' = running \ {t}
        /\ UNCHANGED <<searchWorld, spc, toCheck, targets, sent, taken>>
        /\ falling' = falling \ {t} /\ results' = results \cup {<<t, t.at>>}
    BY <1>0, <1>2 DEF DirectAnswer, PutResult
  <2>2. searchFaults' \in 0 .. MaxSearchFaults
    BY <1>1, <1>2, <1>6 DEF DirectAnswer
  <2>3. blurred' \in {blurred, TRUE} /\ (~blurred' => t.at \in {t.id, NoName})
    BY <1>2 DEF DirectAnswer
  <2> QED BY <1>5, <2>1, <2>2, <2>3, QueryKeeps
<1>3. CASE DirectFails(t)
  <2>1. /\ t \in running /\ running' = running \ {t}
        /\ UNCHANGED <<searchWorld, spc, toCheck, targets, sent, taken, blurred>>
    BY <1>3 DEF DirectFails
  <2>2. searchFaults' \in 0 .. MaxSearchFaults
    BY <1>1, <1>3, <1>6 DEF DirectFails
  <2>3. \/ t.id # NoName /\ falling' = falling \cup {t} /\ results' = results
        \/ falling' = falling \ {t} /\ results' = results \cup {<<t, NoName>>}
    BY <1>0, <1>3, <2>1 DEF DirectFails, PutResult
  <2>4. NoName \in SearchPeers \cup {NoName}
    OBVIOUS
  <2> QED BY <2>1, <2>2, <2>3, <2>4, QueryKeeps
<1>4. CASE RelayQuery(t)
  <2>1. /\ t \in running \cup falling /\ running' = running \ {t} /\ falling' = falling \ {t}
        /\ UNCHANGED <<searchWorld, spc, toCheck, targets, sent, taken, blurred>>
    BY <1>4 DEF RelayQuery
  <2>2. searchFaults' \in 0 .. MaxSearchFaults
    BY <1>1, <1>4, <1>6 DEF RelayQuery
  <2>3. PICK who \in {t.id, NoName} : results' = results \cup {<<t, who>>}
    BY <1>4 DEF RelayQuery, PutResult
  <2> QED BY <1>5, <2>1, <2>2, <2>3, QueryKeeps
<1> QED BY <1>2, <1>3, <1>4

\* A result is taken from the channel and, if it has services, sent on.
LEMMA CollectKeeps ==
  ASSUME SearchInv, Collect
  PROVE  SearchInv'
<1>0. SearchTypes /\ TargetInv /\ QueryInv /\ SentInv /\ ResultInv
  BY DEF SearchInv
<1>1. /\ spc = "collect" /\ taken' = taken + 1
      /\ UNCHANGED <<searchWorld, spc, toCheck, targets, running, falling, blurred, searchFaults>>
  BY DEF Collect
<1>2. PICK x \in results : /\ results' = results \ {x}
                           /\ IF x[2] = NoName THEN UNCHANGED sent
                              ELSE sent' = Append(sent, x[2])
  BY DEF Collect, sendPartialSearchResponse
<1>3. \A p : Allowed(p)' <=> Allowed(p)
  BY <1>1 DEF Allowed, searchWorld
<1>4. SearchTypes' /\ TargetInv'
  BY <1>0, <1>1, <1>3 DEF SearchTypes, TargetInv, searchWorld, Before
<1>5. QueryInv'
  BY <1>0, <1>1, <1>2 DEF QueryInv
<1>6. SentInv'
  <2>0. /\ x[1] \in targets /\ x[2] \in SearchPeers \cup {NoName}
        /\ x[1] \notin running \cup falling /\ \A y \in results \ {x} : y[1] # x[1]
    BY <1>0 DEF QueryInv
  <2>1. CASE x[2] = NoName
    <3>1. sent' = sent
      BY <1>2, <2>1
    <3>2. \A u \in targets : u \notin running \cup falling /\ (\A y \in results : y[1] # u)
             => u \notin running' \cup falling' /\ (\A y \in results' : y[1] # u)
      BY <1>1, <1>2
    <3> QED BY <1>0, <1>1, <1>3, <3>1, <3>2 DEF SentInv
  <2>2. CASE x[2] # NoName
    <3> DEFINE n == Len(sent)
    <3>1. /\ sent' = Append(sent, x[2]) /\ x[2] \in SearchPeers /\ x[2] \in Everyone
          /\ x[2] # "complete" /\ sent \in Seq(Everyone \cup {"complete"})
      BY <1>0, <1>2, <2>0, <2>2, SearchAssumption DEF SentInv, Everyone
    <3>2. /\ n \in Nat /\ DOMAIN sent = 1 .. n /\ DOMAIN sent' = 1 .. n + 1
          /\ sent'[n + 1] = x[2] /\ \A i \in 1 .. n : sent'[i] = sent[i]
          /\ sent' \in Seq(Everyone \cup {"complete"}) /\ Len(sent') = n + 1
      BY <3>1
    <3>3. \A i \in DOMAIN sent : sent[i] # "complete"
      BY <1>0, <1>1 DEF SentInv
    <3>4. \A i \in DOMAIN sent' : i = n + 1 \/ i \in DOMAIN sent
      BY <3>2
    <3>5. \A i \in DOMAIN sent : i # n + 1 /\ sent'[i] = sent[i]
      BY <3>2
    <3>6. \A i \in DOMAIN sent' : sent'[i] = "complete" <=> (spc' = "over" /\ i = Len(sent'))
      BY <1>1, <3>1, <3>2, <3>3, <3>4, <3>5
    <3>7. ASSUME ~blurred
          PROVE  \A i \in DOMAIN sent' :
                   /\ sent'[i] # "complete" => Allowed(sent[i])'
                   /\ sent'[i] \in SearchPeers =>
                        \E t \in targets' : /\ t.id = sent'[i] /\ t \notin running' \cup falling'
                                            /\ \A y \in results' : y[1] # t
                   /\ sent'[i] # "complete" => \A j \in DOMAIN sent' : sent'[j] = sent'[i] => j = i
      <4>1. x[1].id = x[2] /\ x[1].id # NoName
        BY <1>0, <2>2, <3>7 DEF QueryInv
      <4>2. Allowed(x[2])
        BY <1>0, <2>0, <4>1 DEF TargetInv
      <4>3. \A i \in DOMAIN sent : sent[i] # x[2]
        <5> SUFFICES ASSUME NEW i \in DOMAIN sent, sent[i] = x[2] PROVE FALSE
          OBVIOUS
        <5>1. PICK t \in targets : t.id = x[2] /\ \A y \in results : y[1] # t
          BY <1>0, <3>1, <3>7 DEF SentInv
        <5>2. t = x[1]
          BY <1>0, <2>0, <4>1, <5>1 DEF TargetInv
        <5> QED BY <5>1, <5>2
      <4>4. \A i \in DOMAIN sent' : sent'[i] # "complete" => Allowed(sent[i])'
        <5>1. \A i \in DOMAIN sent : sent[i] # "complete" => Allowed(sent[i])
          BY <1>0, <3>7 DEF SentInv
        <5>2. \A i \in DOMAIN sent' : sent'[i] # "complete" => Allowed(sent'[i])
          BY <3>2, <3>4, <3>5, <4>2, <5>1
        <5> QED BY <1>1, <5>2 DEF Allowed, searchWorld
      <4>5. \A i \in DOMAIN sent' : sent'[i] \in SearchPeers =>
              \E t \in targets' : /\ t.id = sent'[i] /\ t \notin running' \cup falling'
                                  /\ \A y \in results' : y[1] # t
        <5>1. \A i \in DOMAIN sent : sent[i] \in SearchPeers =>
                \E t \in targets : /\ t.id = sent[i] /\ t \notin running \cup falling
                                   /\ \A y \in results : y[1] # t
          BY <1>0, <3>7 DEF SentInv
        <5>2. \A y \in results' : y \in results /\ y[1] # x[1]
          BY <1>2, <2>0
        <5> QED BY <1>1, <2>0, <3>2, <3>4, <3>5, <4>1, <5>1, <5>2
      <4>6. \A i \in DOMAIN sent : \A j \in DOMAIN sent : sent[j] = sent[i] => j = i
        BY <1>0, <3>3, <3>7 DEF SentInv
      <4>7. \A i \in DOMAIN sent' : \A j \in DOMAIN sent' : sent'[j] = sent'[i] => j = i
        BY <3>2, <3>4, <3>5, <4>3, <4>6
      <4> QED BY <4>4, <4>5, <4>7
    <3> HIDE DEF n
    <3>8. ~blurred' => ~blurred
      BY <1>1
    <3>9. sent' \in Seq(Everyone \cup {"complete"})
      BY <3>2
    <3> QED BY <3>6, <3>7, <3>8, <3>9 DEF SentInv
  <2> QED BY <2>1, <2>2
<1>7. ResultInv'
  <2>1. /\ Cardinality(targets) \in Nat /\ Cardinality(running) \in Nat
        /\ Cardinality(falling) \in Nat /\ Cardinality(results) \in Nat
    BY <1>0, SearchFinite DEF ResultInv
  <2>2. IsFiniteSet(results \ {x}) /\ Cardinality(results \ {x}) = Cardinality(results) - 1
    BY <1>0, FS_RemoveElement DEF ResultInv
  <2> QED BY <1>0, <1>1, <1>2, <2>1, <2>2 DEF ResultInv
<1> QED BY <1>4, <1>5, <1>6, <1>7 DEF SearchInv

\* The search is complete, or 45 seconds have passed.
LEMMA CompleteKeeps ==
  ASSUME SearchInv, CompleteSearch
  PROVE  SearchInv'
<1>0. SearchTypes /\ TargetInv /\ QueryInv /\ SentInv /\ ResultInv
  BY DEF SearchInv
<1>1. /\ spc = "collect" /\ spc' = "over" /\ sent' = Append(sent, "complete")
      /\ UNCHANGED <<searchWorld, toCheck, targets, running, falling, results, taken, blurred,
                     searchFaults>>
  BY DEF CompleteSearch, sendPartialSearchResponse
<1>2. \A p : Allowed(p)' <=> Allowed(p)
  BY <1>1 DEF Allowed, searchWorld
<1>3. SearchTypes' /\ TargetInv' /\ QueryInv' /\ ResultInv'
  BY <1>0, <1>1, <1>2 DEF SearchTypes, TargetInv, QueryInv, ResultInv, searchWorld, Before
<1>4. SentInv'
  <2> DEFINE n == Len(sent)
  <2>1. /\ n \in Nat /\ DOMAIN sent = 1 .. n /\ DOMAIN sent' = 1 .. n + 1
        /\ sent'[n + 1] = "complete" /\ \A i \in 1 .. n : sent'[i] = sent[i]
        /\ sent' \in Seq(Everyone \cup {"complete"}) /\ Len(sent') = n + 1
    BY <1>0, <1>1 DEF SentInv
  <2>2. \A i \in DOMAIN sent : sent[i] # "complete"
    BY <1>0, <1>1 DEF SentInv
  <2>3. \A i \in DOMAIN sent' : i = n + 1 \/ i \in DOMAIN sent
    BY <2>1
  <2>4. \A i \in DOMAIN sent : i # n + 1 /\ sent'[i] = sent[i]
    BY <2>1
  <2>5. \A i \in DOMAIN sent' : sent'[i] = "complete" <=> (spc' = "over" /\ i = Len(sent'))
    BY <1>1, <2>1, <2>2, <2>3, <2>4
  <2>6. "complete" \notin SearchPeers
    BY SearchAssumption
  <2>7. ASSUME ~blurred
        PROVE  \A i \in DOMAIN sent' :
          /\ sent'[i] # "complete" => Allowed(sent[i])'
          /\ sent'[i] \in SearchPeers =>
               \E t \in targets' : /\ t.id = sent'[i] /\ t \notin running' \cup falling'
                                   /\ \A y \in results' : y[1] # t
          /\ sent'[i] # "complete" => \A j \in DOMAIN sent' : sent'[j] = sent'[i] => j = i
    <3>1. \A i \in DOMAIN sent' : sent'[i] # "complete" => i \in DOMAIN sent /\ sent'[i] = sent[i]
      BY <2>1, <2>3, <2>4
    <3>2. \A i \in DOMAIN sent' : sent'[i] \in SearchPeers => i \in DOMAIN sent /\ sent'[i] = sent[i]
      BY <2>6, <3>1
    <3>3. \A i \in DOMAIN sent :
            /\ sent[i] # "complete" => Allowed(sent[i])
            /\ sent[i] \in SearchPeers =>
                 \E t \in targets : /\ t.id = sent[i] /\ t \notin running \cup falling
                                    /\ \A x \in results : x[1] # t
            /\ sent[i] # "complete" => \A j \in DOMAIN sent : sent[j] = sent[i] => j = i
      BY <1>0, <2>7 DEF SentInv
    <3>4. \A i \in DOMAIN sent' : sent'[i] # "complete" => Allowed(sent[i])'
      <4>1. \A i \in DOMAIN sent' : sent'[i] # "complete" => Allowed(sent'[i])
        BY <3>1, <3>3
      <4> QED BY <1>1, <4>1 DEF Allowed, searchWorld
    <3>5. \A i \in DOMAIN sent' : sent'[i] \in SearchPeers =>
            \E t \in targets' : /\ t.id = sent'[i] /\ t \notin running' \cup falling'
                                /\ \A y \in results' : y[1] # t
      BY <1>1, <3>2, <3>3
    <3>6. \A i \in DOMAIN sent' : sent'[i] # "complete" =>
            \A j \in DOMAIN sent' : sent'[j] = sent'[i] => j = i
      BY <3>1, <3>3
    <3> QED BY <3>4, <3>5, <3>6
  <2>8. ~blurred' => ~blurred
    BY <1>1
  <2>9. sent' \in Seq(Everyone \cup {"complete"})
    BY <2>1
  <2> HIDE DEF n
  <2> QED BY <2>5, <2>7, <2>8, <2>9 DEF SentInv
<1> QED BY <1>3, <1>4 DEF SearchInv

\* The initial state of a search.
LEMMA SearchInvInit ==
  ASSUME SearchInit
  PROVE  SearchInv
<1>0. 0 \in 0 .. MaxSearchFaults
  BY SearchAssumption
<1>1. SearchTypes
  BY <1>0 DEF SearchInit, SearchTypes, Before
<1>2. TargetInv /\ QueryInv
  BY DEF SearchInit, TargetInv, QueryInv
<1>3. SentInv
  BY DEF SearchInit, SentInv
<1>4. ResultInv
  BY FS_EmptySet DEF SearchInit, ResultInv
<1> QED BY <1>1, <1>2, <1>3, <1>4 DEF SearchInv

\* Every step of a search.
LEMMA SearchInvNext ==
  ASSUME SearchInv, SearchNext
  PROVE  SearchInv'
BY ConnectionsKeep, KnownKeep, LookUpKeeps, StartKeeps, QueriesKeep, CollectKeeps,
   CompleteKeeps DEF SearchNext, HandleServiceSearchRequest

\* Steps of the other parts leave the search alone.
LEMMA SearchFrame ==
  ASSUME SearchInv, UNCHANGED searchVars
  PROVE  SearchInv'
BY DEF SearchInv, SearchTypes, TargetInv, QueryInv, SentInv, ResultInv, Allowed, searchVars,
       searchWorld

\* What the search's part of the invariant gives.
LEMMA SearchInvImplies ==
  ASSUME SearchInv
  PROVE  SearchIsSound /\ SearchTypeOK
<1>0. SearchTypes /\ TargetInv /\ QueryInv /\ SentInv /\ ResultInv
  BY DEF SearchInv
<1>1. SearchIsSound
  BY <1>0 DEF SearchIsSound, SentInv
<1>2. \A i \in DOMAIN sent : sent[i] \in Everyone \cup {"complete"}
  BY <1>0 DEF SentInv
<1>3. SearchTypeOK
  BY <1>0, <1>2 DEF SearchTypeOK, SearchTypes, QueryInv, ResultInv, Before
<1> QED BY <1>1, <1>3

\* The search's part of every reachable state (service_search_handler.go).
THEOREM SearchInvariant == TrafficSpec => []SearchInv
<1>1. TrafficInit => SearchInv
  BY SearchInvInit DEF TrafficInit
<1>2. SearchInv /\ [TrafficNext]_trafficVars => SearchInv'
  <2> SUFFICES ASSUME SearchInv, [TrafficNext]_trafficVars PROVE SearchInv'
    OBVIOUS
  <2>1. CASE Searches(SearchNext)
    BY <2>1, SearchInvNext DEF Searches
  <2>2. CASE UNCHANGED searchVars
    BY <2>2, SearchFrame
  <2> QED BY <2>1, <2>2 DEF TrafficNext, Keeps, Asks, trafficVars
<1> QED BY <1>1, <1>2, PTL DEF TrafficSpec

\* A browser is shown every peer once, only peers it asked for, and nothing after
\* "complete", unless a connection was asked whose peer was not known: for any number of
\* peers, filters and failures, peers that share an address, and late answers
\* (HandleServiceSearchRequest of service_search_handler.go).
THEOREM SearchSound == TrafficSpec => []SearchIsSound
<1>1. SearchInv => SearchIsSound
  BY SearchInvImplies
<1> QED BY <1>1, SearchInvariant, PTL

\* The types of all parts, the relay's usage of at most its quota and one message for each
\* goroutine, and a peer's jobs of at most one for each copy of a request among them
\* (relay.go, job_handler.go, service_search_handler.go).
THEOREM TrafficTypeCorrect == TrafficSpec => []TrafficTypeOK
<1>1. TrafficInit => part \in Parts
  BY DEF TrafficInit
<1>2. part \in Parts /\ [TrafficNext]_trafficVars => (part \in Parts)'
  BY DEF TrafficNext, Keeps, Asks, Searches, trafficVars
<1>3. TrafficSpec => [](part \in Parts)
  BY <1>1, <1>2, PTL DEF TrafficSpec
<1>4. RelayInv /\ RequestInv /\ SearchInv /\ part \in Parts => TrafficTypeOK
  BY RelayInvImplies, RequestInvImplies, SearchInvImplies DEF TrafficTypeOK
<1> QED BY <1>3, <1>4, RelayInvariant, RequestInvariant, SearchInvariant, PTL

=============================================================================
