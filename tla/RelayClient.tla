----------------------------- MODULE RelayClient -----------------------------
(***************************************************************************)
(* The relay manager of the client (internal/p2p/relay_manager.go,         *)
(* internal/p2p/relay_selector.go) with the relay of RelayService.         *)
(*                                                                         *)
(* ConnectToRelay runs in the goroutine of whoever calls it: the handler   *)
(* of a lost connection (one for each listener and each keepalive loop     *)
(* that notices), the periodic evaluation, the user.  relayMutex protects  *)
(* single assignments and DisconnectRelay, not the whole of ConnectToRelay.*)
(***************************************************************************)
EXTENDS RelayService

CONSTANTS Threads,    \* goroutines that connect and disconnect
          MaxRetries, \* MAX_RETRIES of handleRelayConnectionLoss
          MaxKeepers  \* bound on keepalive loops

ASSUME ClientConstantsAssumption ==
  {MaxRetries, MaxKeepers} \subseteq Nat

VARIABLES
  current,   \* currentRelay and sessionID: the session, NoSession if none
  published, \* the relay session in the node's metadata
  listening, \* sessions with a listenForRelayedMessages goroutine
  keepers,   \* sendKeepalives goroutines; each reads the current connection anew
  tpc,       \* where each thread is
  kind,      \* what it runs
  held,      \* the session it has registered
  tries      \* its attempts

threads    == <<tpc, kind, held, tries>>
clientVars == <<current, published, listening, keepers, threads>>
vars       == <<relayVars, clientVars>>

Kinds == {"none", "loss", "evaluate", "user"}

TypeOK ==
  /\ ServiceTypeOK
  /\ current \in Sessions \cup {NoSession}
  /\ published \in Sessions \cup {NoSession}
  /\ listening \subseteq Sessions
  /\ keepers \in 0 .. MaxKeepers
  /\ tpc \in [Threads -> {"idle", "loss", "disconnect", "register", "install",
                          "publish", "open", "clear"}]
  /\ kind \in [Threads -> Kinds]
  /\ held \in [Threads -> Sessions \cup {NoSession}]
  /\ tries \in [Threads -> 0 .. MaxRetries]

Init ==
  /\ ServiceInit
  /\ current = NoSession /\ published = NoSession
  /\ listening = {} /\ keepers = 0
  /\ tpc = [t \in Threads |-> "idle"]
  /\ kind = [t \in Threads |-> "none"]
  /\ held = [t \in Threads |-> NoSession]
  /\ tries = [t \in Threads |-> 0]

-----------------------------------------------------------------------------
(* Threads.                                                                 *)

At(t, pc) == tpc' = [tpc EXCEPT ![t] = pc]

\* A new goroutine.
Begin(t, what, pc) ==
  /\ tpc[t] = "idle" /\ t = CHOOSE x \in Threads : tpc[x] = "idle"
  /\ At(t, pc)
  /\ kind' = [kind EXCEPT ![t] = what]
  /\ tries' = [tries EXCEPT ![t] = 0]
  /\ UNCHANGED held

End(t) ==
  /\ At(t, "idle")
  /\ kind' = [kind EXCEPT ![t] = "none"]
  /\ held' = [held EXCEPT ![t] = NoSession]
  /\ tries' = [tries EXCEPT ![t] = 0]

\* ConnectToRelay returns an error: the loss handler tries again, then a selection once
\* more, which finds the same relay; the others give up.
ConnectFails(t) ==
  IF kind[t] # "loss" THEN End(t)
  ELSE /\ IF tries[t] < MaxRetries
            THEN At(t, "disconnect") /\ tries' = [tries EXCEPT ![t] = @ + 1]
            ELSE At(t, "clear") /\ UNCHANGED tries
       /\ held' = [held EXCEPT ![t] = NoSession]
       /\ UNCHANGED kind

\* With one relay there is no better one: nothing is done while it is in use.
ShouldSwitchRelay == current = NoSession

SelectAndConnectRelay(t) ==
  /\ ShouldSwitchRelay
  /\ Begin(t, "evaluate", "disconnect")
  /\ UNCHANGED <<relayVars, current, published, listening, keepers>>

\* The relay was found, at the start or later, or the evaluation ticks.
AddRelayCandidate(t)      == SelectAndConnectRelay(t)
EvaluateAndSelectRelay(t) == SelectAndConnectRelay(t)

\* Disconnect, then connect, whatever is in use: the user's choice or, after a change of the
\* node's network, with the candidates found again.
ConnectAgain(t) ==
  /\ current # NoSession /\ Fault
  /\ Begin(t, "user", "disconnect")
  /\ UNCHANGED <<service, link, ending, ready, table, routine, outcome>>
  /\ UNCHANGED <<current, published, listening, keepers>>

ConnectToSpecificRelay(t) == ConnectAgain(t)
ReconnectRelay(t)         == ConnectAgain(t)

\* DisconnectRelay, under relayMutex.  The relay is told on the old connection, if it still
\* works, how many bytes were used; a waiting keepalive loop is stopped, a busy one misses
\* the signal.
DisconnectRelay(t) ==
  /\ tpc[t] = "disconnect"
  /\ At(t, "register")
  /\ IF current = NoSession
       THEN UNCHANGED <<link, ending, current, published, keepers>>
       ELSE /\ ending' = IF link[current] = "up"
                         THEN ending \cup {current} ELSE ending
            /\ link' = [link EXCEPT ![current] = "down"]
            /\ keepers' \in {keepers, IF keepers > 0 THEN keepers - 1 ELSE 0}
            /\ published' = NoSession
            /\ current' = NoSession
  /\ UNCHANGED <<service, ready, table, routine, outcome, faults>>
  /\ UNCHANGED <<listening, kind, held, tries>>

\* The relay cannot be reached, or it accepts and the answer arrives; or the answer is lost and the client closes
\* the connection, with a session left at the relay; or the relay refuses.
RegisterAtRelay(t) ==
  /\ tpc[t] = "register"
  /\ \/ \E s \in Sessions :
          /\ HandleRelayRegister(s)
          /\ \/ /\ link' = [link EXCEPT ![s] = "up"]
                /\ held' = [held EXCEPT ![t] = s]
                /\ At(t, "install")
                /\ UNCHANGED <<faults, kind, tries>>
             \/ /\ link' = [link EXCEPT ![s] = "down"]
                /\ Fault /\ ConnectFails(t)
     \/ /\ \/ RegisterRefused /\ UNCHANGED faults
           \/ Fault
        /\ ConnectFails(t)
        /\ UNCHANGED <<service, link>>
  /\ UNCHANGED <<ending, ready, table, routine, outcome>>
  /\ UNCHANGED <<current, published, listening, keepers>>

InstallRelay(t) ==
  /\ tpc[t] = "install"
  /\ current' = held[t]
  /\ At(t, "publish")
  /\ UNCHANGED <<relayVars, published, listening, keepers, kind, held, tries>>

updateOurMetadataWithRelay(t) ==
  /\ tpc[t] = "publish"
  /\ published' = held[t]
  /\ At(t, "open")
  /\ UNCHANGED <<relayVars, current, listening, keepers, kind, held, tries>>

\* A failure closes the connection and leaves currentRelay as it is.
openReceiveStream(t) ==
  /\ tpc[t] = "open"
  /\ \/ /\ link[held[t]] = "up" /\ keepers < MaxKeepers
        /\ ready' = ready \cup {held[t]}
        /\ listening' = listening \cup {held[t]}
        /\ keepers' = keepers + 1
        /\ End(t)
        /\ UNCHANGED link
     \/ /\ link[held[t]] # "up"
        /\ link' = [link EXCEPT ![held[t]] = "down"]
        /\ ConnectFails(t)
        /\ UNCHANGED <<ready, listening, keepers>>
  /\ UNCHANGED <<service, ending, table, routine, outcome, faults>>
  /\ UNCHANGED <<current, published>>

ensureDHTDisconnected(t) ==
  /\ tpc[t] = "clear"
  /\ published' = NoSession
  /\ End(t)
  /\ UNCHANGED <<relayVars, current, listening, keepers>>

-----------------------------------------------------------------------------
(* Noticing that the connection is lost.                                    *)

\* The listener of a closed connection ends and hands over to a handler of its own, also
\* when it was DisconnectRelay that closed it.
listenForRelayedMessages(s, t) ==
  /\ s \in listening /\ link[s] = "down"
  /\ listening' = listening \ {s}
  /\ Begin(t, "loss", "loss")
  /\ UNCHANGED <<relayVars, current, published, keepers>>

\* Mutant: a keepalive loop that fails ends without a handler.
KeeperGivesUp(t) ==
  /\ keepers > 0 /\ current # NoSession /\ link[current] # "up"
  /\ keepers' = keepers - 1
  /\ tpc[t] = "idle" /\ UNCHANGED threads
  /\ UNCHANGED <<relayVars, current, published, listening>>

KeepaliveFails(t) ==
  /\ keepers > 0 /\ current # NoSession /\ link[current] # "up"
  /\ keepers' = keepers - 1
  /\ Begin(t, "loss", "loss")
  /\ UNCHANGED <<relayVars, current, published, listening>>

\* A loop whose tick finds no connection ends; one whose keepalive is answered changes
\* nothing that terminateSession does not allow for.
sendKeepalives ==
  /\ keepers > 0 /\ current = NoSession
  /\ keepers' = keepers - 1
  /\ UNCHANGED <<relayVars, current, published, listening, threads>>

\* Whatever relay is in use when the handler starts is taken for the one that failed.
handleRelayConnectionLoss(t) ==
  /\ tpc[t] = "loss"
  /\ IF current = NoSession THEN End(t)
     ELSE At(t, "disconnect") /\ UNCHANGED <<kind, held, tries>>
  /\ UNCHANGED <<relayVars, current, published, listening, keepers>>

\* RelayRestart is seen by the client as lost connections.
-----------------------------------------------------------------------------
Connect(t) ==
  \/ DisconnectRelay(t) \/ RegisterAtRelay(t) \/ InstallRelay(t)
  \/ updateOurMetadataWithRelay(t) \/ openReceiveStream(t) \/ ensureDHTDisconnected(t)
  \/ handleRelayConnectionLoss(t)

Notice(t) == KeepaliveFails(t) \/ \E s \in Sessions : listenForRelayedMessages(s, t)

Next ==
  \/ \E t \in Threads :
       \/ Connect(t) \/ Notice(t) \/ AddRelayCandidate(t) \/ EvaluateAndSelectRelay(t)
       \/ ConnectToSpecificRelay(t) \/ ReconnectRelay(t)
  \/ sendKeepalives
  \/ (ServiceStep \/ RelayRestart) /\ UNCHANGED clientVars

\* Goroutines go on; QUIC notices a dead connection; a failed keepalive or a closed stream
\* is noticed; the relay handles what arrives.
Fairness ==
  /\ \A t \in Threads : WF_vars(Connect(t))
  /\ WF_vars(\E t \in Threads : Notice(t))
  /\ \A s \in Sessions :
       /\ WF_vars(IdleTimeout(s) /\ UNCHANGED clientVars)
       /\ WF_vars(HandleRelayReceiveStreamReady(s) /\ UNCHANGED clientVars)
  /\ \A d \in Deliverers : WF_vars(Deliver(d) /\ UNCHANGED clientVars)

Spec == Init /\ [][Next]_vars /\ Fairness
-----------------------------------------------------------------------------
(* Properties.                                                              *)

\* A message whose sender was told "success" was read by the client, waits in the table, or
\* has expired or died with the connection; a full store, a broken stream, a delivery that
\* stores it again and a restart do not lose it.
ConfirmedIsKept ==
  \A m \in confirmed :
    \/ m \in received \cup gone
    \/ \E n \in Rows : rows[n].status = "pending" /\ rows[n].msg = m

\* A client does not stay with a dead connection that a listener or a keepalive loop can
\* notice, although stop signals are missed and handlers run against each other.
LossIsHandled ==
  (current # NoSession /\ link[current] = "down" /\ (current \in listening \/ keepers > 0))
    ~> (current = NoSession \/ link[current] = "up")

\* What was stored when the client's stream was announced is delivered, although the writes
\* are tried against a stream that other goroutines use and replace, unless a fault comes
\* between or the client itself leaves.
StoredIsDelivered ==
  \A m \in Messages :
    (faults = 0 /\ \E d \in Deliverers : \E x \in todo[d] : x[2] = m)
      ~> (m \in received \/ faults > 0)
=============================================================================
