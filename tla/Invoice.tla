------------------------------- MODULE Invoice -------------------------------
(***************************************************************************)
(* Invoices between two nodes: the payee writes an invoice and sends it,   *)
(* the payer accepts or rejects it and pays through its escrow manager     *)
(* (internal/payment/invoice_manager.go, internal/p2p/invoice_handler.go,  *)
(* internal/p2p/invoice_message_handler.go, the payment_invoices table of  *)
(* each node).                                                             *)
(*                                                                         *)
(* Each call of the HTTP API runs in a goroutine of its own.  AcceptInvoice*)
(* reads the row, signs, creates an escrow, writes the row, answers, and   *)
(* starts SettleInvoice; no write of the table looks at the status it      *)
(* replaces.  A message is sent directly and, when that fails, over the    *)
(* peer's relay, several times: it may arrive not at all, twice, or        *)
(* although the sender was told that it failed.                            *)
(***************************************************************************)
EXTENDS Escrow, Naturals, FiniteSets

CONSTANTS Invoices,   \* invoice ids, in the order they are used
          MaxRetries, \* invoice_max_retries
          PublicPeer, \* the other node is public: it is never tried over a relay
          Serial,     \* the payer's user waits for a call to return before the next
          MaxFaults   \* bound on faults

ASSUME InvoiceConstantsAssumption ==
  /\ Invoices \subseteq Nat \ {0} /\ IsFiniteSet(Invoices)
  /\ MaxRetries \in Nat /\ MaxFaults \in Nat
  /\ PublicPeer \in BOOLEAN /\ Serial \in BOOLEAN

VARIABLES
  payeeRow,  \* payment_invoices.status at the payee, "none": no row
  payerRow,  \* the same at the payer
  payerPay,  \* payment_id of the payer's row
  creator,   \* CreateInvoice at the payee
  pc,        \* AcceptInvoice, SettleInvoice or RejectInvoice in each goroutine
  inv,       \* its invoice
  pay,       \* the payment it has created
  madeFor,   \* the invoice_id in the metadata of each signed payment, 0 if none
  net,       \* copies of each message on their way
  expired,   \* invoices whose expires_at has passed
  faults

tables   == <<payeeRow, payerRow, payerPay>>
routines == <<pc, inv, pay, madeFor>>
vars == <<escrowVars, tables, creator, routines, net, expired, faults>>

Message == [kind : {"request", "rejected", "accepted", "settled"}, invoice : Invoices]
Copies  == 0 .. 2

TypeOK ==
  /\ EscrowTypeOK
  /\ payeeRow \in [Invoices -> {"none", "pending", "rejected", "settled", "failed"}]
  /\ payerRow \in [Invoices ->
       {"none", "pending", "accepted", "rejected", "settled", "expired"}]
  /\ payerPay \in [Invoices -> Payments \cup {NoPayment}]
  /\ creator \in [Invoices -> {"none", "send", "fail", "over"}]
  /\ pc \in [Callers -> {"idle", "sign", "update", "respond", "read", "escrow", "mark",
                         "notify", "reject", "refuse"}]
  /\ inv \in [Callers -> Invoices \cup {0}]
  /\ pay \in [Callers -> Payments \cup {NoPayment}]
  /\ madeFor \in [Payments -> Invoices \cup {0}]
  /\ net \in [Message -> Copies]
  /\ expired \subseteq Invoices
  /\ faults \in 0 .. MaxFaults

Init ==
  /\ EscrowInit
  /\ payeeRow = [i \in Invoices |-> "none"]
  /\ payerRow = [i \in Invoices |-> "none"]
  /\ payerPay = [i \in Invoices |-> NoPayment]
  /\ creator = [i \in Invoices |-> "none"]
  /\ pc = [c \in Callers |-> "idle"]
  /\ inv = [c \in Callers |-> 0]
  /\ pay = [c \in Callers |-> NoPayment]
  /\ madeFor = [p \in Payments |-> 0]
  /\ net = [m \in Message |-> 0]
  /\ expired = {}
  /\ faults = 0

Fault == faults < MaxFaults /\ faults' = faults + 1

-----------------------------------------------------------------------------
(* Sending with retries, as the set of what can come of it: what the caller *)
(* is told and how many copies arrive.                                      *)

Outcome(ok, copies) == [ok |-> ok, copies |-> copies]
Clean == Outcome(TRUE, 1)

\* SendMessageToPeer: the write ends without an acknowledgement from the peer.
SendInvoiceRequestDirect == {Outcome(ok, n) : ok \in BOOLEAN, n \in {0, 1}}

\* The same with the payload encrypted for the recipient and a timestamp.
sendEncryptedInvoiceRequest == SendInvoiceRequestDirect

\* Encrypted when the recipient's key is known; the attempts do not differ otherwise.
sendInvoiceRequestDirect == sendEncryptedInvoiceRequest \cup SendInvoiceRequestDirect

\* The relay is the one the metadata of the peer names, or a cached one.
getRelayInfo == {"current", "stale", "none"}

\* The relay confirms what it has delivered; the confirmation itself may be lost.
sendMessageViaRelay ==
  UNION {CASE r = "current" -> {Outcome(TRUE, 1), Outcome(FALSE, 1), Outcome(FALSE, 0)}
           [] OTHER -> {Outcome(FALSE, 0)} : r \in getRelayInfo}

\* Without a known key the payload goes in the clear; the relay treats both alike.
sendInvoiceRequestViaRelay == sendMessageViaRelay

Then(first, rest) ==
  {Outcome(r.ok, IF first.copies + r.copies > 2 THEN 2 ELSE first.copies + r.copies)
     : r \in rest}

Attempt ==
  UNION {IF d.ok \/ PublicPeer THEN {d} ELSE Then(d, sendInvoiceRequestViaRelay)
           : d \in sendInvoiceRequestDirect}

SendInvoiceRequestWithRetry ==
  LET loop[n \in 0 .. MaxRetries] ==
        UNION {IF a.ok \/ n = 0 THEN {a} ELSE Then(a, loop[n - 1]) : a \in Attempt}
  IN loop[MaxRetries]

\* Anything but one copy and a success is a fault.
Send(m, told) ==
  \E o \in SendInvoiceRequestWithRetry :
    /\ o.ok = told
    /\ net[m] + o.copies \in Copies
    /\ net' = [net EXCEPT ![m] = @ + o.copies]
    /\ IF o = Clean THEN UNCHANGED faults ELSE Fault

InvoiceMsg(kind, i) == [kind |-> kind, invoice |-> i]

-----------------------------------------------------------------------------
(* The table at the payer and at the payee.                                 *)

CreatePaymentInvoice(row, i) ==
  /\ row[i] = "none"
  /\ row' = [row EXCEPT ![i] = "pending"]

UpdatePaymentInvoiceStatus(row, i, status) ==
  row' = IF row[i] = "none" THEN row ELSE [row EXCEPT ![i] = status]

UpdatePaymentInvoiceStatusWithReason(row, i, status) ==
  UpdatePaymentInvoiceStatus(row, i, status)

UpdatePaymentInvoiceAccepted(i, p) ==
  /\ UpdatePaymentInvoiceStatus(payerRow, i, "accepted")
  /\ payerPay' = IF payerRow[i] = "none" THEN payerPay ELSE [payerPay EXCEPT ![i] = p]

MarkInvoiceFailed(i) == UpdatePaymentInvoiceStatus(payeeRow, i, "failed")

Deletable == {"failed", "expired", "rejected"}

-----------------------------------------------------------------------------
(* The payee.                                                               *)

Unused(i) == creator[i] = "none" /\ \A j \in Invoices : j < i => creator[j] # "none"

CreateInvoice(i) ==
  /\ Unused(i)
  /\ CreatePaymentInvoice(payeeRow, i)
  /\ creator' = [creator EXCEPT ![i] = "send"]
  /\ UNCHANGED <<escrowVars, payerRow, payerPay, routines, net, expired, faults>>

\* The request goes out; on failure of every attempt the row is marked in a later step.
sendInvoiceRequest(i) ==
  /\ creator[i] = "send"
  /\ \E ok \in BOOLEAN :
       /\ Send(InvoiceMsg("request", i), ok)
       /\ creator' = [creator EXCEPT ![i] = IF ok THEN "over" ELSE "fail"]
  /\ UNCHANGED <<escrowVars, tables, routines, expired>>

DeliveryFailed(i) ==
  /\ creator[i] = "fail"
  /\ MarkInvoiceFailed(i)
  /\ creator' = [creator EXCEPT ![i] = "over"]
  /\ UNCHANGED <<escrowVars, payerRow, payerPay, routines, net, expired, faults>>

\* Resend: the failed row is deleted and the invoice is created anew, with a new id.
handleResendInvoice(i, j) ==
  /\ payeeRow[i] = "failed" /\ creator[i] = "over" /\ Unused(j)
  /\ payeeRow' = [payeeRow EXCEPT ![i] = "none", ![j] = "pending"]
  /\ creator' = [creator EXCEPT ![j] = "send"]
  /\ UNCHANGED <<escrowVars, payerRow, payerPay, routines, net, expired, faults>>

handleDeleteAtPayee(i) ==
  /\ payeeRow[i] \in Deletable /\ creator[i] = "over"
  /\ payeeRow' = [payeeRow EXCEPT ![i] = "none"]
  /\ UNCHANGED <<escrowVars, payerRow, payerPay, creator, routines, net, expired, faults>>

\* A message is taken off the net, by a stream or inside a relay frame.
Take(m) == net[m] > 0 /\ net' = [net EXCEPT ![m] = @ - 1]

\* Mutant: the acceptance is written to the payee's row.
HandleResponseMarks(i) ==
  \E kind \in {"accepted", "rejected"} :
    /\ Take(InvoiceMsg(kind, i))
    /\ UpdatePaymentInvoiceStatusWithReason(payeeRow, i, kind)
    /\ UNCHANGED <<escrowVars, payerRow, payerPay, creator, routines, expired, faults>>

\* "accepted" changes no row: the payee waits for the settlement.
HandleInvoiceResponse(i) ==
  \/ /\ Take(InvoiceMsg("accepted", i))
     /\ UNCHANGED <<escrowVars, tables, creator, routines, expired, faults>>
  \/ /\ Take(InvoiceMsg("rejected", i))
     /\ UpdatePaymentInvoiceStatusWithReason(payeeRow, i, "rejected")
     /\ UNCHANGED <<escrowVars, payerRow, payerPay, creator, routines, expired, faults>>

HandleInvoiceNotify(i) ==
  /\ Take(InvoiceMsg("settled", i))
  /\ UpdatePaymentInvoiceStatus(payeeRow, i, "settled")
  /\ UNCHANGED <<escrowVars, payerRow, payerPay, creator, routines, expired, faults>>

\* An encrypted message that was stored for longer than the tolerance is dropped.
HandleEncryptedInvoiceRequest(i) ==
  /\ Take(InvoiceMsg("request", i)) /\ Fault
  /\ UNCHANGED <<escrowVars, tables, creator, routines, expired>>

HandleEncryptedInvoiceResponse(i) ==
  /\ \E kind \in {"accepted", "rejected"} : Take(InvoiceMsg(kind, i))
  /\ Fault
  /\ UNCHANGED <<escrowVars, tables, creator, routines, expired>>

HandleEncryptedInvoiceNotify(i) ==
  /\ Take(InvoiceMsg("settled", i)) /\ Fault
  /\ UNCHANGED <<escrowVars, tables, creator, routines, expired>>

-----------------------------------------------------------------------------
(* The payer.                                                               *)

\* A second copy finds the row and changes nothing; the answers are not read.
HandleInvoiceRequest(i) ==
  /\ Take(InvoiceMsg("request", i))
  /\ \/ CreatePaymentInvoice(payerRow, i)
     \/ payerRow[i] # "none" /\ UNCHANGED payerRow
  /\ UNCHANGED <<escrowVars, payeeRow, payerPay, creator, routines, expired, faults>>

Step(c, next) == pc' = [pc EXCEPT ![c] = next]

MayCall(c) ==
  /\ pc[c] = "idle" /\ callPc[c] = "idle"
  /\ Serial => \A d \in Callers :
       pc[d] \in {"idle", "read", "escrow", "mark", "notify"}

TimePasses(i) ==
  /\ payerRow[i] = "pending" /\ i \notin expired
  /\ expired' = expired \cup {i}
  /\ UNCHANGED <<escrowVars, tables, creator, routines, net, faults>>

\* Mutant: the status of the row is not checked.
AcceptAnyStatus(c, i) ==
  /\ MayCall(c) /\ payerRow[i] # "none" /\ i \notin expired
  /\ Step(c, "sign") /\ inv' = [inv EXCEPT ![c] = i]
  /\ UNCHANGED <<escrowVars, payerRow, pay, madeFor>>
  /\ UNCHANGED <<payeeRow, payerPay, creator, net, expired, faults>>

\* The row is read: it must be pending, and not expired.
AcceptInvoice(c, i) ==
  /\ MayCall(c) /\ payerRow[i] = "pending"
  /\ \/ /\ i \notin expired
        /\ Step(c, "sign") /\ inv' = [inv EXCEPT ![c] = i]
        /\ UNCHANGED <<escrowVars, payerRow, pay, madeFor>>
     \/ /\ i \in expired
        /\ UpdatePaymentInvoiceStatus(payerRow, i, "expired")
        /\ UNCHANGED <<escrowVars, routines>>
  /\ UNCHANGED <<payeeRow, payerPay, creator, net, expired, faults>>

\* The payment is signed with a nonce of its own and verified by the facilitator.
AcceptCreatesEscrow(c) ==
  /\ pc[c] = "sign"
  /\ \/ \E p \in Payments :
          /\ madeFor[p] = 0
          /\ CreateEscrow(p)
          /\ pay' = [pay EXCEPT ![c] = p]
          /\ madeFor' = [madeFor EXCEPT ![p] = inv[c]]
          /\ Step(c, "update") /\ UNCHANGED inv
     \/ /\ Step(c, "idle") /\ inv' = [inv EXCEPT ![c] = 0]
        /\ UNCHANGED <<escrowVars, pay, madeFor>>
  /\ UNCHANGED <<tables, creator, net, expired, faults>>

AcceptWritesRow(c) ==
  /\ pc[c] = "update"
  /\ UpdatePaymentInvoiceAccepted(inv[c], pay[c])
  /\ Step(c, "respond")
  /\ pay' = [pay EXCEPT ![c] = NoPayment]
  /\ UNCHANGED <<escrowVars, payeeRow, creator, inv, madeFor, net, expired, faults>>

\* An answer that cannot be sent is only logged; SettleInvoice is started.
sendInvoiceResponse(c) ==
  /\ pc[c] \in {"respond", "refuse"}
  /\ \E ok \in BOOLEAN :
       Send(InvoiceMsg(IF pc[c] = "respond" THEN "accepted" ELSE "rejected", inv[c]), ok)
  /\ Step(c, IF pc[c] = "respond" THEN "read" ELSE "idle")
  /\ inv' = IF pc[c] = "respond" THEN inv ELSE [inv EXCEPT ![c] = 0]
  /\ UNCHANGED <<escrowVars, tables, creator, pay, madeFor, expired>>

RejectInvoice(c, i) ==
  /\ MayCall(c) /\ payerRow[i] = "pending"
  /\ Step(c, "reject") /\ inv' = [inv EXCEPT ![c] = i]
  /\ UNCHANGED <<escrowVars, tables, creator, pay, madeFor, net, expired, faults>>

RejectWritesRow(c) ==
  /\ pc[c] = "reject"
  /\ UpdatePaymentInvoiceStatus(payerRow, inv[c], "rejected")
  /\ Step(c, "refuse")
  /\ UNCHANGED <<escrowVars, payeeRow, payerPay, creator, inv, pay, madeFor, net, expired,
                 faults>>

SettleInvoice(c) ==
  /\ pc[c] = "read"
  /\ \/ /\ payerRow[inv[c]] = "accepted"
        /\ SettleEscrow(c, payerPay[inv[c]])
        /\ Step(c, "escrow") /\ UNCHANGED inv
     \/ /\ payerRow[inv[c]] # "accepted"
        /\ Step(c, "idle") /\ inv' = [inv EXCEPT ![c] = 0]
        /\ UNCHANGED escrowVars
  /\ UNCHANGED <<tables, creator, pay, madeFor, net, expired, faults>>

\* SettleEscrow succeeds only at its end: a payment that is settled already is an error.
Settled(c) == callPc[c] = "settleWrite"

SettleInvoiceEscrow(c) ==
  /\ pc[c] = "escrow"
  /\ EscrowStep(c)
  /\ IF callPc'[c] # "idle" THEN UNCHANGED <<pc, inv>>
     ELSE IF Settled(c) THEN Step(c, "mark") /\ UNCHANGED inv
     ELSE Step(c, "idle") /\ inv' = [inv EXCEPT ![c] = 0]
  /\ IF callPc[c] = "settleCall" /\ callPc'[c] = "idle" THEN Fault ELSE UNCHANGED faults
  /\ UNCHANGED <<tables, creator, pay, madeFor, net, expired>>

SettleInvoiceMarks(c) ==
  /\ pc[c] = "mark"
  /\ UpdatePaymentInvoiceStatus(payerRow, inv[c], "settled")
  /\ Step(c, "notify")
  /\ UNCHANGED <<escrowVars, payeeRow, payerPay, creator, inv, pay, madeFor, net, expired,
                 faults>>

\* Mutant: the payee is not told.
sendInvoiceNothing(c) ==
  /\ pc[c] = "notify"
  /\ Step(c, "idle") /\ inv' = [inv EXCEPT ![c] = 0]
  /\ UNCHANGED <<escrowVars, tables, creator, pay, madeFor, net, expired, faults>>

sendInvoiceNotification(c) ==
  /\ pc[c] = "notify"
  /\ \E ok \in BOOLEAN : Send(InvoiceMsg("settled", inv[c]), ok)
  /\ Step(c, "idle") /\ inv' = [inv EXCEPT ![c] = 0]
  /\ UNCHANGED <<escrowVars, tables, creator, pay, madeFor, expired>>

handleDeleteInvoice(i) ==
  /\ payerRow[i] \in Deletable
  /\ payerRow' = [payerRow EXCEPT ![i] = "none"]
  /\ payerPay' = [payerPay EXCEPT ![i] = NoPayment]
  /\ UNCHANGED <<escrowVars, payeeRow, creator, routines, net, expired, faults>>

\* A crash keeps the tables and the escrows; nothing looks for unfinished invoices.
PayerCrash ==
  /\ Fault
  /\ \E c \in Callers : pc[c] # "idle"
  /\ EscrowCrash
  /\ pc' = [c \in Callers |-> "idle"]
  /\ inv' = [c \in Callers |-> 0]
  /\ pay' = [c \in Callers |-> NoPayment]
  /\ UNCHANGED <<tables, creator, madeFor, net, expired>>

PayeeCrash ==
  /\ Fault
  /\ \E i \in Invoices : creator[i] \in {"send", "fail"}
  /\ creator' = [i \in Invoices |-> IF creator[i] = "none" THEN "none" ELSE "over"]
  /\ UNCHANGED <<escrowVars, tables, routines, net, expired>>

-----------------------------------------------------------------------------
Routine(c) ==
  \/ AcceptCreatesEscrow(c) \/ AcceptWritesRow(c) \/ sendInvoiceResponse(c)
  \/ RejectWritesRow(c)
  \/ SettleInvoice(c) \/ SettleInvoiceEscrow(c) \/ SettleInvoiceMarks(c)
  \/ sendInvoiceNotification(c)

Deliver(i) == HandleInvoiceRequest(i) \/ HandleInvoiceResponse(i) \/ HandleInvoiceNotify(i)

Next ==
  \/ \E i \in Invoices :
       \/ CreateInvoice(i) \/ sendInvoiceRequest(i) \/ DeliveryFailed(i)
       \/ \E j \in Invoices : handleResendInvoice(i, j)
       \/ handleDeleteAtPayee(i) \/ Deliver(i) \/ TimePasses(i) \/ handleDeleteInvoice(i)
       \/ \E c \in Callers : AcceptInvoice(c, i) \/ RejectInvoice(c, i)
  \/ \E c \in Callers : Routine(c)
  \/ \E i \in Invoices : HandleEncryptedInvoiceRequest(i)
                         \/ HandleEncryptedInvoiceResponse(i)
                         \/ HandleEncryptedInvoiceNotify(i)
  \/ PayerCrash \/ PayeeCrash

\* Goroutines that have started go on; a message that was not lost is handled.
Fairness ==
  /\ \A c \in Callers : WF_vars(Routine(c))
  /\ \A i \in Invoices : WF_vars(HandleInvoiceNotify(i))

Spec == Init /\ [][Next]_vars /\ Fairness
-----------------------------------------------------------------------------
(* Properties.                                                              *)

\* A row says "settled", at the payer or at the payee, only of an invoice whose payment
\* the facilitator has executed: no lost answer, crash, duplicate or resend invents one.
SettledMeansPaid ==
  \A i \in Invoices :
    (payerRow[i] = "settled" \/ payeeRow[i] = "settled") =>
      \E p \in Payments : madeFor[p] = i /\ "settle" \in ledger[p]

\* An invoice is paid once, although a crash between the escrow and the write of the row
\* leaves the invoice pending with an escrow and it is accepted again.
PaidAtMostOnce ==
  \A p, q \in Payments :
    (madeFor[p] = madeFor[q] /\ "settle" \in ledger[p] /\ "settle" \in ledger[q]) => p = q

\* What the payer has rejected it has not paid, also when an accepting call was cut off
\* after it had created an escrow.
RejectedMeansUnpaid ==
  \A i \in Invoices : payerRow[i] = "rejected" =>
    \A p \in Payments : madeFor[p] = i => "settle" \notin ledger[p]

\* The rows of both sides and the ledger of the facilitator agree on every invoice
\* (invoice_manager.go, AcceptInvoice, RejectInvoice and HandleInvoiceNotify).
PaymentsMatchInvoices == SettledMeansPaid /\ PaidAtMostOnce /\ RejectedMeansUnpaid

\* Without a fault an accepted invoice is settled and the payee is told.
AcceptedInvoicesSettle ==
  \A i \in Invoices :
    payerRow[i] = "accepted" ~> (payeeRow[i] = "settled" \/ faults > 0)
=============================================================================
