--------------------------- MODULE Invoice_proofs ---------------------------
(***************************************************************************)
(* Proofs about Invoice for every set of invoices, payments and goroutines *)
(* of the payer, every number of retries and faults: a row says "settled"  *)
(* only of an invoice that is paid, and when the payer's user makes one    *)
(* call at a time an invoice is paid at most once and never when rejected. *)
(***************************************************************************)
EXTENDS Invoice, TLAPS

USE InvoiceConstantsAssumption, NoPaymentAssumption

(* The types, and what a goroutine holds at each of its steps: an invoice,   *)
(* a payment once it has made one, a call of the escrow manager only while   *)
(* it settles.                                                               *)
TypeInv ==
  /\ TypeOK
  /\ \A c \in Callers :
       /\ pc[c] # "idle" => inv[c] \in Invoices
       /\ pc[c] = "update" => pay[c] \in Payments
       /\ callPc[c] # "idle" => callPay[c] \in Payments /\ pc[c] = "escrow"
       /\ callPc[c] \in {"idle", "settleRead", "settleCall", "settleWrite"}
  /\ \A i \in Invoices : payerRow[i] = "accepted" => payerPay[i] \in Payments

(* The first state, before any invoice is written, has the types. *)
LEMMA InitType == Init => TypeInv
<1> SUFFICES ASSUME Init PROVE TypeInv
  OBVIOUS
<1>1. EscrowTypeOK
  BY DEF Init, EscrowInit, EscrowTypeOK, PayStatus, Movement, CallPc
<1>2. 0 \in 0 .. MaxFaults /\ 0 \in Copies
  BY DEF Copies
<1>3. TypeOK
  BY <1>1, <1>2 DEF Init, TypeOK
<1> QED
  BY <1>3 DEF Init, EscrowInit, TypeInv

(* The four kinds of message about an invoice are the ones that can be under *)
(* way.                                                                      *)
LEMMA MessageTypes ==
  \A i \in Invoices : \A kind \in {"request", "rejected", "accepted", "settled"} :
     InvoiceMsg(kind, i) \in Message
  BY DEF InvoiceMsg, Message

(* Sending and taking keep the network and the count of faults well typed. *)
LEMMA FaultType == ASSUME TypeOK, Fault PROVE faults' \in 0 .. MaxFaults
  BY DEF Fault, TypeOK

(* Sending with retries adds copies of one message and leaves the others, and *)
(* the counters stay in their bounds (SendInvoiceRequestWithRetry).           *)
LEMMA SendType ==
  ASSUME TypeOK, NEW m \in Message, NEW told, Send(m, told)
  PROVE  /\ net' \in [Message -> Copies] /\ faults' \in 0 .. MaxFaults
         /\ \A n \in Message : n # m => net'[n] = net[n]
<1>1. PICK o \in SendInvoiceRequestWithRetry :
         /\ net[m] + o.copies \in Copies
         /\ net' = [net EXCEPT ![m] = @ + o.copies]
         /\ UNCHANGED faults \/ Fault
  BY DEF Send
<1> QED
  BY <1>1, FaultType DEF TypeOK

(* Taking a message off the net makes no copy of any message. *)
LEMMA TakeType ==
  ASSUME TypeOK, NEW m \in Message, Take(m)
  PROVE  /\ net' \in [Message -> Copies]
         /\ \A n \in Message : net'[n] > 0 => net[n] > 0
         /\ net[m] > 0
<1>1. net[m] \in Copies /\ net[m] > 0 => net[m] - 1 \in Copies
  BY DEF Copies
<1>2. net[m] \in Copies
  BY DEF TypeOK
<1>3. net' = [net EXCEPT ![m] = net[m] - 1]
  BY DEF Take
<1>4. \A n \in Message : net'[n] > 0 => net[n] > 0
  BY <1>2, <1>3 DEF TypeOK, Take, Copies
<1> QED
  BY <1>1, <1>2, <1>3, <1>4 DEF TypeOK, Take

(* A step inside the escrow manager, and the rest of the state it leaves.    *)
LEMMA EscrowStepType ==
  ASSUME TypeInv, NEW c \in Callers, pc[c] = "escrow", EscrowStep(c)
  PROVE  /\ EscrowTypeOK'
         /\ callPc'[c] # "idle" => callPay'[c] \in Payments
         /\ callPc'[c] \in {"idle", "settleRead", "settleCall", "settleWrite"}
         /\ \A d \in Callers : d # c => callPc'[d] = callPc[d] /\ callPay'[d] = callPay[d]
<1> USE DEF TypeInv, TypeOK, EscrowTypeOK, Move, Leave, CallPc, PayStatus, Movement
<1>0. callPc[c] \in {"settleRead", "settleCall", "settleWrite"} /\ callPay[c] \in Payments
  BY DEF EscrowStep, SettleRead, SettleCall, SettleWrite, RefundRead, RefundCall, RefundWrite
<1>1. CASE SettleRead(c)
  BY <1>0, <1>1 DEF SettleRead
<1>2. CASE SettleCall(c)
  BY <1>0, <1>2 DEF SettleCall, FacilitatorCall
<1>3. CASE SettleWrite(c)
  BY <1>0, <1>3 DEF SettleWrite, UpdateJobPaymentStatus
<1> QED
  BY <1>0, <1>1, <1>2, <1>3 DEF EscrowStep, RefundRead, RefundCall, RefundWrite

(* Every step keeps the types. *)
LEMMA NextType == TypeInv /\ [Next]_vars => TypeInv'
<1> SUFFICES ASSUME TypeInv, [Next]_vars PROVE TypeInv'
  OBVIOUS
<1> USE MessageTypes, FaultType DEF TypeInv, TypeOK, EscrowTypeOK, tables, routines, escrowVars
<1>1. ASSUME NEW i \in Invoices, CreateInvoice(i) PROVE TypeInv'
  BY <1>1 DEF CreateInvoice, CreatePaymentInvoice
<1>2. ASSUME NEW i \in Invoices, sendInvoiceRequest(i) PROVE TypeInv'
  <2>1. net' \in [Message -> Copies] /\ faults' \in 0 .. MaxFaults
    BY <1>2, SendType DEF sendInvoiceRequest
  <2> QED
    BY <1>2, <2>1 DEF sendInvoiceRequest
<1>3. ASSUME NEW i \in Invoices, DeliveryFailed(i) PROVE TypeInv'
  BY <1>3 DEF DeliveryFailed, MarkInvoiceFailed, UpdatePaymentInvoiceStatus
<1>4. ASSUME NEW i \in Invoices, NEW j \in Invoices, handleResendInvoice(i, j) PROVE TypeInv'
  BY <1>4 DEF handleResendInvoice
<1>5. ASSUME NEW i \in Invoices, handleDeleteAtPayee(i) PROVE TypeInv'
  BY <1>5 DEF handleDeleteAtPayee
<1>6. ASSUME NEW i \in Invoices, HandleInvoiceRequest(i) PROVE TypeInv'
  <2>1. net' \in [Message -> Copies]
    BY <1>6, TakeType DEF HandleInvoiceRequest
  <2> QED
    BY <1>6, <2>1 DEF HandleInvoiceRequest, CreatePaymentInvoice
<1>7. ASSUME NEW i \in Invoices, HandleInvoiceResponse(i) \/ HandleInvoiceNotify(i) PROVE TypeInv'
  <2>1. net' \in [Message -> Copies]
    BY <1>7, TakeType DEF HandleInvoiceResponse, HandleInvoiceNotify
  <2> QED
    BY <1>7, <2>1, ZenonT(30) DEF HandleInvoiceResponse, HandleInvoiceNotify, UpdatePaymentInvoiceStatus,
       UpdatePaymentInvoiceStatusWithReason
<1>8. ASSUME NEW i \in Invoices,
             \/ HandleEncryptedInvoiceRequest(i) \/ HandleEncryptedInvoiceResponse(i)
             \/ HandleEncryptedInvoiceNotify(i)
      PROVE TypeInv'
  <2>1. net' \in [Message -> Copies] /\ faults' \in 0 .. MaxFaults
    BY <1>8, TakeType DEF HandleEncryptedInvoiceRequest, HandleEncryptedInvoiceResponse,
       HandleEncryptedInvoiceNotify
  <2> QED
    BY <1>8, <2>1 DEF HandleEncryptedInvoiceRequest, HandleEncryptedInvoiceResponse,
       HandleEncryptedInvoiceNotify
<1>9. ASSUME NEW i \in Invoices, TimePasses(i) PROVE TypeInv'
  BY <1>9 DEF TimePasses
<1>10. ASSUME NEW i \in Invoices, handleDeleteInvoice(i) PROVE TypeInv'
  BY <1>10 DEF handleDeleteInvoice
<1>11. ASSUME NEW i \in Invoices, NEW c \in Callers, AcceptInvoice(c, i) PROVE TypeInv'
  BY <1>11 DEF AcceptInvoice, MayCall, Step, UpdatePaymentInvoiceStatus
<1>12. ASSUME NEW i \in Invoices, NEW c \in Callers, RejectInvoice(c, i) PROVE TypeInv'
  BY <1>12 DEF RejectInvoice, MayCall, Step
<1>13. ASSUME NEW c \in Callers, AcceptCreatesEscrow(c) PROVE TypeInv'
  <2>1. CASE UNCHANGED escrowVars
    BY <1>13, <2>1 DEF AcceptCreatesEscrow, Step, CreateEscrow, UpdateJobPaymentStatus
  <2>2. CASE ~UNCHANGED escrowVars
    <3>1. PICK p \in Payments :
            /\ CreateEscrow(p)
            /\ pay' = [pay EXCEPT ![c] = p]
            /\ madeFor' = [madeFor EXCEPT ![p] = inv[c]]
            /\ Step(c, "update") /\ UNCHANGED inv
      BY <1>13, <2>2 DEF AcceptCreatesEscrow
    <3> QED
      BY <1>13, <3>1 DEF AcceptCreatesEscrow, Step, CreateEscrow, UpdateJobPaymentStatus,
         PayStatus
  <2> QED
    BY <2>1, <2>2
<1>14. ASSUME NEW c \in Callers, AcceptWritesRow(c) PROVE TypeInv'
  BY <1>14 DEF AcceptWritesRow, Step, UpdatePaymentInvoiceAccepted, UpdatePaymentInvoiceStatus
<1>15. ASSUME NEW c \in Callers, sendInvoiceResponse(c) PROVE TypeInv'
  <2>1. net' \in [Message -> Copies] /\ faults' \in 0 .. MaxFaults
    BY <1>15, SendType DEF sendInvoiceResponse
  <2> QED
    BY <1>15, <2>1 DEF sendInvoiceResponse, Step
<1>16. ASSUME NEW c \in Callers, RejectWritesRow(c) PROVE TypeInv'
  BY <1>16 DEF RejectWritesRow, Step, UpdatePaymentInvoiceStatus
<1>17. ASSUME NEW c \in Callers, SettleInvoice(c) PROVE TypeInv'
  <2>1. CASE payerRow[inv[c]] = "accepted"
    <3>1. payerPay[inv[c]] \in Payments
      BY <1>17, <2>1 DEF SettleInvoice
    <3>2. /\ callPc' = [callPc EXCEPT ![c] = "settleRead"]
          /\ callPay' = [callPay EXCEPT ![c] = payerPay[inv[c]]]
          /\ pc' = [pc EXCEPT ![c] = "escrow"]
          /\ UNCHANGED <<payStatus, ledger, inv>>
      BY <1>17, <2>1 DEF SettleInvoice, Step, SettleEscrow, Enter
    <3> QED
      BY <1>17, <3>1, <3>2 DEF SettleInvoice, CallPc
  <2>2. CASE payerRow[inv[c]] # "accepted"
    BY <1>17, <2>2 DEF SettleInvoice, Step
  <2> QED
    BY <2>1, <2>2
<1>18. ASSUME NEW c \in Callers, SettleInvoiceEscrow(c) PROVE TypeInv'
  <2>1. pc[c] = "escrow" /\ EscrowStep(c)
    BY <1>18 DEF SettleInvoiceEscrow
  <2>2. faults' \in 0 .. MaxFaults
    BY <1>18 DEF SettleInvoiceEscrow
  <2>3. /\ pc' \in [Callers -> {"idle", "sign", "update", "respond", "read", "escrow", "mark",
                                "notify", "reject", "refuse"}]
        /\ inv' \in [Callers -> Invoices \cup {0}]
        /\ pc'[c] # "idle" => inv'[c] \in Invoices
        /\ pc'[c] = IF callPc'[c] # "idle" THEN "escrow"
                    ELSE IF callPc[c] = "settleWrite" THEN "mark" ELSE "idle"
        /\ \A d \in Callers : d # c => pc'[d] = pc[d] /\ inv'[d] = inv[d]
    BY <1>18, <2>1 DEF SettleInvoiceEscrow, Step, Settled
  <2>4. UNCHANGED <<payeeRow, payerRow, payerPay, creator, pay, madeFor, net, expired>>
    BY <1>18 DEF SettleInvoiceEscrow
  <2> QED
    BY <2>1, <2>2, <2>3, <2>4, EscrowStepType
<1>19. ASSUME NEW c \in Callers, SettleInvoiceMarks(c) PROVE TypeInv'
  BY <1>19 DEF SettleInvoiceMarks, Step, UpdatePaymentInvoiceStatus
<1>20. ASSUME NEW c \in Callers, sendInvoiceNotification(c) PROVE TypeInv'
  <2>1. net' \in [Message -> Copies] /\ faults' \in 0 .. MaxFaults
    BY <1>20, SendType DEF sendInvoiceNotification
  <2> QED
    BY <1>20, <2>1 DEF sendInvoiceNotification, Step
<1>21. CASE PayerCrash
  <2>1. /\ faults' \in 0 .. MaxFaults
        /\ pc' = [c \in Callers |-> "idle"] /\ callPc' = [c \in Callers |-> "idle"]
    BY <1>21 DEF PayerCrash, EscrowCrash
  <2> QED
    BY <1>21, <2>1 DEF PayerCrash, EscrowCrash, CallPc
<1>22. CASE PayeeCrash
  BY <1>22 DEF PayeeCrash
<1>23. CASE UNCHANGED vars
  BY <1>23 DEF vars
<1> QED
  BY <1>1, <1>2, <1>3, <1>4, <1>5, <1>6, <1>7, <1>8, <1>9, <1>10, <1>11, <1>12, <1>13, <1>14,
     <1>15, <1>16, <1>17, <1>18, <1>19, <1>20, <1>21, <1>22, <1>23 DEF Next, Routine, Deliver

(* The inductive form of the next theorem. *)
THEOREM TypeInvariant == Spec => []TypeInv
  BY InitType, NextType, PTL DEF Spec

(* The variables of both nodes, the network and the escrow manager always    *)
(* have their types, although a row is read in one step and written in       *)
(* another and messages are sent again.                                      *)
THEOREM TypeCorrect == Spec => []TypeOK
<1>1. TypeInv => TypeOK
  BY DEF TypeInv
<1> QED
  BY <1>1, TypeInvariant, PTL

-----------------------------------------------------------------------------
(* "Settled" means paid. *)

(* The facilitator has executed a payment that was made for invoice i. *)
Paid(i) == \E p \in Payments : madeFor[p] = i /\ "settle" \in ledger[p]

(* Why "settled" means paid: whoever is about to say so, a goroutine or a    *)
(* message, holds an invoice that is paid, and every payment on the way to   *)
(* the facilitator was made for the invoice its goroutine settles.           *)
PaidInv ==
  /\ \A c \in Callers :
       /\ pc[c] = "update" => madeFor[pay[c]] = inv[c]
       /\ pc[c] \in {"mark", "notify"} => Paid(inv[c])
       /\ callPc[c] # "idle" => madeFor[callPay[c]] = inv[c]
       /\ callPc[c] = "settleWrite" => "settle" \in ledger[callPay[c]]
  /\ \A i \in Invoices :
       /\ payerPay[i] \in Payments => madeFor[payerPay[i]] = i
       /\ net[InvoiceMsg("settled", i)] > 0 => Paid(i)
       /\ payerRow[i] = "settled" \/ payeeRow[i] = "settled" => Paid(i)

(* What is paid stays paid, and a payment stays with its invoice. *)
LEMMA PaidStays ==
  ASSUME TypeInv, [Next]_vars
  PROVE  /\ \A p \in Payments : /\ ledger[p] \subseteq ledger'[p]
                                /\ madeFor[p] # 0 => madeFor'[p] = madeFor[p]
         /\ \A i \in Invoices : Paid(i) => Paid(i)'
<1> USE DEF TypeInv, TypeOK, EscrowTypeOK, tables, routines, escrowVars
<1>1. \A p \in Payments : ledger[p] \subseteq ledger'[p]
  <2>1. \/ UNCHANGED ledger \/ \E c \in Callers : pc[c] = "escrow" /\ EscrowStep(c)
    BY DEF Next, vars, Routine, Deliver, CreateInvoice, sendInvoiceRequest, DeliveryFailed,
       handleResendInvoice, handleDeleteAtPayee, HandleInvoiceRequest, HandleInvoiceResponse,
       HandleInvoiceNotify, TimePasses, handleDeleteInvoice, AcceptInvoice, RejectInvoice,
       AcceptCreatesEscrow, CreateEscrow, AcceptWritesRow, sendInvoiceResponse, RejectWritesRow,
       SettleInvoice, SettleEscrow, SettleInvoiceEscrow, SettleInvoiceMarks,
       sendInvoiceNotification, HandleEncryptedInvoiceRequest, HandleEncryptedInvoiceResponse,
       HandleEncryptedInvoiceNotify, PayerCrash, EscrowCrash, PayeeCrash
  <2>2. ASSUME NEW c \in Callers, pc[c] = "escrow", EscrowStep(c)
        PROVE  UNCHANGED ledger \/ ledger' = [ledger EXCEPT ![callPay[c]] = @ \cup {"settle"}]
    BY <2>2 DEF EscrowStep, SettleRead, SettleCall, FacilitatorCall, SettleWrite, RefundRead,
       RefundCall, RefundWrite
  <2> QED
    BY <2>1, <2>2
<1>2. \A p \in Payments : madeFor[p] # 0 => madeFor'[p] = madeFor[p]
  <2>1. \/ UNCHANGED madeFor
        \/ \E c \in Callers, p \in Payments :
              madeFor[p] = 0 /\ madeFor' = [madeFor EXCEPT ![p] = inv[c]]
    BY DEF Next, vars, Routine, Deliver, CreateInvoice, sendInvoiceRequest, DeliveryFailed,
       handleResendInvoice, handleDeleteAtPayee, HandleInvoiceRequest, HandleInvoiceResponse,
       HandleInvoiceNotify, TimePasses, handleDeleteInvoice, AcceptInvoice, RejectInvoice,
       AcceptCreatesEscrow, CreateEscrow, AcceptWritesRow, sendInvoiceResponse, RejectWritesRow,
       SettleInvoice, SettleEscrow, SettleInvoiceEscrow, SettleInvoiceMarks,
       sendInvoiceNotification, HandleEncryptedInvoiceRequest, HandleEncryptedInvoiceResponse,
       HandleEncryptedInvoiceNotify, PayerCrash, EscrowCrash, PayeeCrash
  <2> QED
    BY <2>1
<1> QED
  BY <1>1, <1>2 DEF Paid

(* A step that touches no goroutine, no payment and no settlement message    *)
(* keeps PaidInv, as long as the rows it writes do not say "settled".        *)
LEMMA PaidFrame ==
  ASSUME TypeInv, PaidInv, [Next]_vars,
         UNCHANGED <<pc, inv, pay, callPc, callPay, madeFor, ledger>>,
         \A i \in Invoices :
           /\ payerPay'[i] \in {payerPay[i], NoPayment}
           /\ net'[InvoiceMsg("settled", i)] > 0 => net[InvoiceMsg("settled", i)] > 0
           /\ payerRow'[i] = "settled" => payerRow[i] = "settled"
           /\ payeeRow'[i] = "settled"
                => payeeRow[i] = "settled" \/ net[InvoiceMsg("settled", i)] > 0
  PROVE  PaidInv'
<1>1. \A i : Paid(i)' <=> Paid(i)
  BY DEF Paid
<1>2. \A c \in Callers :
       /\ (pc[c] = "update" => madeFor[pay[c]] = inv[c])'
       /\ (pc[c] \in {"mark", "notify"} => Paid(inv[c]))'
       /\ (callPc[c] # "idle" => madeFor[callPay[c]] = inv[c])'
       /\ (callPc[c] = "settleWrite" => "settle" \in ledger[callPay[c]])'
  BY DEF PaidInv, Paid
<1>3. ASSUME NEW i \in Invoices
      PROVE  /\ (payerPay[i] \in Payments => madeFor[payerPay[i]] = i)'
             /\ (net[InvoiceMsg("settled", i)] > 0 => Paid(i))'
             /\ (payerRow[i] = "settled" \/ payeeRow[i] = "settled" => Paid(i))'
  <2>1. payerPay'[i] \in Payments => madeFor'[payerPay'[i]] = i
    BY DEF PaidInv
  <2>2. (net[InvoiceMsg("settled", i)] > 0)' => Paid(i)
    BY DEF PaidInv, InvoiceMsg
  <2>3. payerRow'[i] = "settled" \/ payeeRow'[i] = "settled" => Paid(i)
    BY DEF PaidInv
  <2> QED
    BY <1>1, <2>1, <2>2, <2>3
<1> QED
  BY <1>2, <1>3 DEF PaidInv

(* The same for a step of goroutine c that leaves the tables alone. *)
LEMMA PaidRoutine ==
  ASSUME TypeInv, PaidInv, [Next]_vars, NEW c \in Callers,
         UNCHANGED <<payerRow, payeeRow, payerPay>>,
         \A d \in Callers \ {c} :
            UNCHANGED <<pc[d], inv[d], pay[d], callPc[d], callPay[d]>>,
         \A i \in Invoices :
            net'[InvoiceMsg("settled", i)] > 0 => net[InvoiceMsg("settled", i)] > 0 \/ Paid(i),
         /\ pc'[c] = "update" => madeFor'[pay'[c]] = inv'[c]
         /\ pc'[c] \in {"mark", "notify"} => inv'[c] \in Invoices /\ Paid(inv'[c])
         /\ callPc'[c] # "idle" => madeFor'[callPay'[c]] = inv'[c]
         /\ callPc'[c] = "settleWrite" => "settle" \in ledger'[callPay'[c]]
  PROVE  PaidInv'
<1> USE DEF TypeInv, TypeOK, EscrowTypeOK
<1>1. /\ \A p \in Payments : /\ ledger[p] \subseteq ledger'[p]
                             /\ madeFor[p] # 0 => madeFor'[p] = madeFor[p]
      /\ \A i \in Invoices : Paid(i) => Paid(i)'
  BY PaidStays
<1>2. ASSUME NEW d \in Callers
      PROVE  /\ (pc[d] = "update" => madeFor[pay[d]] = inv[d])'
             /\ (callPc[d] # "idle" => madeFor[callPay[d]] = inv[d])'
             /\ (callPc[d] = "settleWrite" => "settle" \in ledger[callPay[d]])'
  BY <1>1 DEF PaidInv
<1>3. ASSUME NEW d \in Callers, pc'[d] \in {"mark", "notify"}
      PROVE  Paid(inv[d])'
  <2>1. inv'[d] \in Invoices /\ Paid(inv'[d])
    BY <1>3 DEF PaidInv
  <2> QED
    BY <1>1, <2>1 DEF Paid
<1>4. ASSUME NEW i \in Invoices
      PROVE  /\ (payerPay[i] \in Payments => madeFor[payerPay[i]] = i)'
             /\ (net[InvoiceMsg("settled", i)] > 0 => Paid(i))'
             /\ (payerRow[i] = "settled" \/ payeeRow[i] = "settled" => Paid(i))'
  <2>1. (net[InvoiceMsg("settled", i)] > 0)' => Paid(i)
    BY DEF PaidInv, InvoiceMsg
  <2>2. payerRow'[i] = "settled" \/ payeeRow'[i] = "settled" => Paid(i)
    BY DEF PaidInv
  <2>3. payerPay'[i] \in Payments => madeFor'[payerPay'[i]] = i
    BY <1>1 DEF PaidInv
  <2> QED
    BY <1>1, <2>1, <2>2, <2>3
<1> QED
  BY <1>2, <1>3, <1>4 DEF PaidInv

(* Every step keeps it. *)
LEMMA PaidNext ==
  ASSUME TypeInv, PaidInv, [Next]_vars PROVE PaidInv'
<1> USE MessageTypes DEF TypeInv, TypeOK, EscrowTypeOK, tables, routines, escrowVars
<1>0. \A i \in Invoices : \A kind \in {"request", "rejected", "accepted"} :
        \A j \in Invoices : InvoiceMsg(kind, j) # InvoiceMsg("settled", i)
  BY DEF InvoiceMsg
<1>1. ASSUME NEW i \in Invoices, CreateInvoice(i) PROVE PaidInv'
  BY <1>1, PaidFrame DEF CreateInvoice, CreatePaymentInvoice
<1>2. ASSUME NEW i \in Invoices, sendInvoiceRequest(i) PROVE PaidInv'
  <2>1. \A j \in Invoices : net'[InvoiceMsg("settled", j)] = net[InvoiceMsg("settled", j)]
    BY <1>0, <1>2, SendType DEF sendInvoiceRequest
  <2> QED
    BY <1>2, <2>1, PaidFrame DEF sendInvoiceRequest
<1>3. ASSUME NEW i \in Invoices, DeliveryFailed(i) PROVE PaidInv'
  BY <1>3, PaidFrame DEF DeliveryFailed, MarkInvoiceFailed, UpdatePaymentInvoiceStatus
<1>4. ASSUME NEW i \in Invoices, NEW j \in Invoices, handleResendInvoice(i, j) PROVE PaidInv'
  BY <1>4, PaidFrame DEF handleResendInvoice
<1>5. ASSUME NEW i \in Invoices, handleDeleteAtPayee(i) PROVE PaidInv'
  BY <1>5, PaidFrame DEF handleDeleteAtPayee
<1>6. ASSUME NEW i \in Invoices, HandleInvoiceRequest(i) PROVE PaidInv'
  <2>1. \A j \in Invoices :
          net'[InvoiceMsg("settled", j)] > 0 => net[InvoiceMsg("settled", j)] > 0
    BY <1>6, TakeType DEF HandleInvoiceRequest
  <2> QED
    BY <1>6, <2>1, PaidFrame DEF HandleInvoiceRequest, CreatePaymentInvoice
<1>7. ASSUME NEW i \in Invoices, HandleInvoiceResponse(i) \/ HandleInvoiceNotify(i) PROVE PaidInv'
  <2>1. \A j \in Invoices :
          net'[InvoiceMsg("settled", j)] > 0 => net[InvoiceMsg("settled", j)] > 0
    BY <1>7, TakeType DEF HandleInvoiceResponse, HandleInvoiceNotify
  <2>2. \A j \in Invoices : payeeRow'[j] = "settled"
           => payeeRow[j] = "settled" \/ net[InvoiceMsg("settled", j)] > 0
    BY <1>7, TakeType DEF HandleInvoiceResponse, HandleInvoiceNotify, UpdatePaymentInvoiceStatus,
       UpdatePaymentInvoiceStatusWithReason
  <2> QED
    BY <1>7, <2>1, <2>2, PaidFrame DEF HandleInvoiceResponse, HandleInvoiceNotify
<1>8. ASSUME NEW i \in Invoices,
             \/ HandleEncryptedInvoiceRequest(i) \/ HandleEncryptedInvoiceResponse(i)
             \/ HandleEncryptedInvoiceNotify(i)
      PROVE PaidInv'
  <2>1. \A j \in Invoices :
          net'[InvoiceMsg("settled", j)] > 0 => net[InvoiceMsg("settled", j)] > 0
    BY <1>8, TakeType DEF HandleEncryptedInvoiceRequest, HandleEncryptedInvoiceResponse,
       HandleEncryptedInvoiceNotify
  <2> QED
    BY <1>8, <2>1, PaidFrame DEF HandleEncryptedInvoiceRequest, HandleEncryptedInvoiceResponse,
       HandleEncryptedInvoiceNotify
<1>9. ASSUME NEW i \in Invoices, TimePasses(i) PROVE PaidInv'
  BY <1>9, PaidFrame DEF TimePasses
<1>10. ASSUME NEW i \in Invoices, handleDeleteInvoice(i) PROVE PaidInv'
  BY <1>10, PaidFrame DEF handleDeleteInvoice
<1>11. ASSUME NEW i \in Invoices, NEW c \in Callers, AcceptInvoice(c, i) PROVE PaidInv'
  <2>1. CASE i \in expired
    BY <1>11, <2>1, PaidFrame DEF AcceptInvoice, UpdatePaymentInvoiceStatus
  <2>2. CASE i \notin expired
    BY <1>11, <2>2, PaidRoutine DEF AcceptInvoice, MayCall, Step
  <2> QED
    BY <2>1, <2>2
<1>12. ASSUME NEW i \in Invoices, NEW c \in Callers, RejectInvoice(c, i) PROVE PaidInv'
  BY <1>12, PaidRoutine DEF RejectInvoice, MayCall, Step
<1>13. ASSUME NEW c \in Callers, AcceptCreatesEscrow(c) PROVE PaidInv'
  <2>1. /\ UNCHANGED <<payerRow, payeeRow, payerPay, net, callPc, callPay>>
        /\ callPc[c] = "idle"
        /\ \A d \in Callers \ {c} : UNCHANGED <<pc[d], inv[d], pay[d]>>
        /\ pc'[c] \in {"update", "idle"}
    BY <1>13 DEF AcceptCreatesEscrow, Step, CreateEscrow
  <2>2. pc'[c] = "update" => madeFor'[pay'[c]] = inv'[c]
    BY <1>13 DEF AcceptCreatesEscrow, Step
  <2> QED
    BY <2>1, <2>2, PaidRoutine
<1>14. ASSUME NEW c \in Callers, AcceptWritesRow(c) PROVE PaidInv'
  <2>1. /\ UNCHANGED <<payeeRow, net, madeFor, ledger, inv, callPc, callPay>>
        /\ pc' = [pc EXCEPT ![c] = "respond"]
        /\ \A d \in Callers \ {c} : pay'[d] = pay[d]
    BY <1>14 DEF AcceptWritesRow, Step
  <2>2. \A i : Paid(i)' <=> Paid(i)
    BY <2>1 DEF Paid
  <2>3. \A i \in Invoices :
          /\ payerPay'[i] \in Payments => madeFor[payerPay'[i]] = i
          /\ payerRow'[i] = "settled" => payerRow[i] = "settled"
    BY <1>14 DEF AcceptWritesRow, UpdatePaymentInvoiceAccepted, UpdatePaymentInvoiceStatus, PaidInv
  <2>4. \A d \in Callers :
       /\ (pc[d] = "update" => madeFor[pay[d]] = inv[d])'
       /\ (callPc[d] # "idle" => madeFor[callPay[d]] = inv[d])'
       /\ (callPc[d] = "settleWrite" => "settle" \in ledger[callPay[d]])'
    BY <2>1 DEF PaidInv
  <2>5. \A d \in Callers : (pc[d] \in {"mark", "notify"} => Paid(inv[d]))'
    BY <2>1 DEF PaidInv, Paid
  <2>6. ASSUME NEW i \in Invoices
        PROVE  /\ (payerPay[i] \in Payments => madeFor[payerPay[i]] = i)'
               /\ (net[InvoiceMsg("settled", i)] > 0 => Paid(i))'
               /\ (payerRow[i] = "settled" \/ payeeRow[i] = "settled" => Paid(i))'
    <3>1. (net[InvoiceMsg("settled", i)] > 0)' => Paid(i)
      BY <2>1 DEF PaidInv, InvoiceMsg
    <3> QED
      BY <2>1, <2>2, <2>3, <3>1 DEF PaidInv
  <2> QED
    BY <2>4, <2>5, <2>6 DEF PaidInv
<1>15. ASSUME NEW c \in Callers, sendInvoiceResponse(c) PROVE PaidInv'
  <2>1. \A j \in Invoices : net'[InvoiceMsg("settled", j)] = net[InvoiceMsg("settled", j)]
    <3>1. PICK kind \in {"accepted", "rejected"}, told \in BOOLEAN :
             Send(InvoiceMsg(kind, inv[c]), told)
      BY <1>15 DEF sendInvoiceResponse
    <3>2. inv[c] \in Invoices
      BY <1>15 DEF sendInvoiceResponse
    <3>3. InvoiceMsg(kind, inv[c]) \in Message
      BY <3>2
    <3>4. \A n \in Message : n # InvoiceMsg(kind, inv[c]) => net'[n] = net[n]
      BY <3>1, <3>3, SendType
    <3>5. \A j \in Invoices : InvoiceMsg("settled", j) # InvoiceMsg(kind, inv[c])
      BY DEF InvoiceMsg
    <3> QED
      BY <3>4, <3>5
  <2>2. /\ UNCHANGED <<payerRow, payeeRow, payerPay, pay, callPc, callPay>>
        /\ callPc[c] = "idle"
        /\ \A d \in Callers \ {c} : UNCHANGED <<pc[d], inv[d]>>
        /\ pc'[c] \in {"read", "idle"}
    BY <1>15 DEF sendInvoiceResponse, Step
  <2> QED
    BY <2>1, <2>2, PaidRoutine
<1>16. ASSUME NEW c \in Callers, RejectWritesRow(c) PROVE PaidInv'
  <2>1. /\ UNCHANGED <<payeeRow, payerPay, net, madeFor, ledger, inv, pay, callPc, callPay>>
        /\ pc' = [pc EXCEPT ![c] = "refuse"]
        /\ \A i \in Invoices : payerRow'[i] = "settled" => payerRow[i] = "settled"
    BY <1>16 DEF RejectWritesRow, Step, UpdatePaymentInvoiceStatus
  <2>2. \A i : Paid(i)' <=> Paid(i)
    BY <2>1 DEF Paid
  <2>3. \A d \in Callers :
       /\ (pc[d] = "update" => madeFor[pay[d]] = inv[d])'
       /\ (pc[d] \in {"mark", "notify"} => Paid(inv[d]))'
       /\ (callPc[d] # "idle" => madeFor[callPay[d]] = inv[d])'
       /\ (callPc[d] = "settleWrite" => "settle" \in ledger[callPay[d]])'
    BY <2>1 DEF PaidInv, Paid
  <2>4. ASSUME NEW i \in Invoices
        PROVE  /\ (payerPay[i] \in Payments => madeFor[payerPay[i]] = i)'
               /\ (net[InvoiceMsg("settled", i)] > 0 => Paid(i))'
               /\ (payerRow[i] = "settled" \/ payeeRow[i] = "settled" => Paid(i))'
    <3>1. (net[InvoiceMsg("settled", i)] > 0)' => Paid(i)
      BY <2>1 DEF PaidInv, InvoiceMsg
    <3> QED
      BY <2>1, <2>2, <3>1 DEF PaidInv
  <2> QED
    BY <2>3, <2>4 DEF PaidInv
<1>17. ASSUME NEW c \in Callers, SettleInvoice(c) PROVE PaidInv'
  <2>1. /\ UNCHANGED <<payerRow, payeeRow, payerPay, pay, net, madeFor>>
        /\ \A d \in Callers \ {c} : UNCHANGED <<pc[d], inv[d], callPc[d], callPay[d]>>
        /\ pc'[c] \in {"escrow", "idle"} /\ callPc'[c] \in {"idle", "settleRead"}
    BY <1>17 DEF SettleInvoice, Step, SettleEscrow, Enter
  <2>2. callPc'[c] # "idle" => madeFor'[callPay'[c]] = inv'[c]
    <3>1. CASE payerRow[inv[c]] = "accepted"
      <4>1. callPay'[c] = payerPay[inv[c]] /\ inv'[c] = inv[c]
        BY <1>17, <3>1 DEF SettleInvoice, SettleEscrow, Enter
      <4>2. inv[c] \in Invoices
        BY <1>17 DEF SettleInvoice
      <4>3. payerPay[inv[c]] \in Payments
        BY <3>1, <4>2
      <4>4. madeFor[payerPay[inv[c]]] = inv[c]
        BY <4>2, <4>3 DEF PaidInv
      <4> QED
        BY <2>1, <4>1, <4>4
    <3>2. CASE payerRow[inv[c]] # "accepted"
      BY <1>17, <3>2 DEF SettleInvoice
    <3> QED
      BY <3>1, <3>2
  <2> QED
    BY <2>1, <2>2, PaidRoutine
<1>18. ASSUME NEW c \in Callers, SettleInvoiceEscrow(c) PROVE PaidInv'
  <2>1. pc[c] = "escrow" /\ EscrowStep(c) /\ inv[c] \in Invoices
    BY <1>18 DEF SettleInvoiceEscrow
  <2>2. /\ UNCHANGED <<payerRow, payeeRow, payerPay, pay, net, madeFor>>
        /\ \A d \in Callers \ {c} : UNCHANGED <<pc[d], inv[d], callPc[d], callPay[d]>>
        /\ pc'[c] \in {"escrow", "mark", "idle"}
        /\ pc'[c] = "mark" => callPc[c] = "settleWrite" /\ inv'[c] = inv[c]
        /\ callPc'[c] # "idle" => inv'[c] = inv[c]
    BY <1>18, <2>1, EscrowStepType DEF SettleInvoiceEscrow, Step, Settled
  <2>3. /\ callPc'[c] # "idle" => callPc[c] # "idle" /\ callPay'[c] = callPay[c]
        /\ callPc'[c] = "settleWrite" => "settle" \in ledger'[callPay'[c]]
    BY <2>1 DEF EscrowStep, SettleRead, SettleCall, FacilitatorCall, SettleWrite, RefundRead,
       RefundCall, RefundWrite, Move, Leave
  <2>4. pc'[c] = "mark" => Paid(inv'[c])
    BY <2>1, <2>2 DEF PaidInv, Paid
  <2> QED
    BY <2>1, <2>2, <2>3, <2>4, PaidRoutine DEF PaidInv
<1>19. ASSUME NEW c \in Callers, SettleInvoiceMarks(c) PROVE PaidInv'
  <2>1. /\ UNCHANGED <<payeeRow, payerPay, net, madeFor, ledger, inv, pay, callPc, callPay>>
        /\ pc[c] = "mark" /\ pc' = [pc EXCEPT ![c] = "notify"]
        /\ \A i \in Invoices : payerRow'[i] = "settled" => payerRow[i] = "settled" \/ i = inv[c]
    BY <1>19 DEF SettleInvoiceMarks, Step, UpdatePaymentInvoiceStatus
  <2>2. Paid(inv[c]) /\ \A i : Paid(i)' <=> Paid(i)
    BY <2>1 DEF Paid, PaidInv
  <2>3. \A d \in Callers :
       /\ (pc[d] = "update" => madeFor[pay[d]] = inv[d])'
       /\ (pc[d] \in {"mark", "notify"} => Paid(inv[d]))'
       /\ (callPc[d] # "idle" => madeFor[callPay[d]] = inv[d])'
       /\ (callPc[d] = "settleWrite" => "settle" \in ledger[callPay[d]])'
    BY <2>1 DEF PaidInv, Paid
  <2>4. ASSUME NEW i \in Invoices
        PROVE  /\ (payerPay[i] \in Payments => madeFor[payerPay[i]] = i)'
               /\ (net[InvoiceMsg("settled", i)] > 0 => Paid(i))'
               /\ (payerRow[i] = "settled" \/ payeeRow[i] = "settled" => Paid(i))'
    <3>1. (net[InvoiceMsg("settled", i)] > 0)' => Paid(i)
      BY <2>1 DEF PaidInv, InvoiceMsg
    <3> QED
      BY <2>1, <2>2, <3>1 DEF PaidInv
  <2> QED
    BY <2>3, <2>4 DEF PaidInv
<1>20. ASSUME NEW c \in Callers, sendInvoiceNotification(c) PROVE PaidInv'
  <2>1. /\ UNCHANGED <<payerRow, payeeRow, payerPay, pay, callPc, callPay>>
        /\ pc[c] = "notify" /\ callPc[c] = "idle" /\ pc'[c] = "idle"
        /\ \A d \in Callers \ {c} : UNCHANGED <<pc[d], inv[d]>>
    BY <1>20 DEF sendInvoiceNotification, Step
  <2>2. PICK told \in BOOLEAN : Send(InvoiceMsg("settled", inv[c]), told)
    BY <1>20 DEF sendInvoiceNotification
  <2>3. \A j \in Invoices :
          j = inv[c] \/ net'[InvoiceMsg("settled", j)] = net[InvoiceMsg("settled", j)]
    <3>1. inv[c] \in Invoices
      BY <2>1
    <3>2. InvoiceMsg("settled", inv[c]) \in Message
      BY <3>1
    <3>3. \A n \in Message : n # InvoiceMsg("settled", inv[c]) => net'[n] = net[n]
      BY <2>2, <3>2, SendType
    <3>4. \A j \in Invoices : j # inv[c] => InvoiceMsg("settled", j) # InvoiceMsg("settled", inv[c])
      BY DEF InvoiceMsg
    <3> QED
      BY <3>3, <3>4
  <2>4. Paid(inv[c])
    BY <2>1 DEF PaidInv
  <2> QED
    BY <2>1, <2>3, <2>4, PaidRoutine
<1>21. CASE PayerCrash
  <2>1. /\ UNCHANGED <<payerRow, payeeRow, payerPay, net, madeFor, ledger>>
        /\ \A c \in Callers : pc'[c] = "idle" /\ callPc'[c] = "idle"
    BY <1>21 DEF PayerCrash, EscrowCrash
  <2>2. \A i : Paid(i)' <=> Paid(i)
    BY <2>1 DEF Paid
  <2>3. ASSUME NEW i \in Invoices
        PROVE  /\ (payerPay[i] \in Payments => madeFor[payerPay[i]] = i)'
               /\ (net[InvoiceMsg("settled", i)] > 0 => Paid(i))'
               /\ (payerRow[i] = "settled" \/ payeeRow[i] = "settled" => Paid(i))'
    <3>1. (net[InvoiceMsg("settled", i)] > 0)' => Paid(i)
      BY <2>1 DEF PaidInv, InvoiceMsg
    <3> QED
      BY <2>1, <2>2, <3>1 DEF PaidInv
  <2> QED
    BY <2>1, <2>3 DEF PaidInv
<1>22. CASE PayeeCrash
  BY <1>22, PaidFrame DEF PayeeCrash
<1>23. CASE UNCHANGED vars
  BY <1>23, PaidFrame DEF vars
<1> QED
  BY <1>1, <1>2, <1>3, <1>4, <1>5, <1>6, <1>7, <1>8, <1>9, <1>10, <1>11, <1>12, <1>13, <1>14,
     <1>15, <1>16, <1>17, <1>18, <1>19, <1>20, <1>21, <1>22, <1>23 DEF Next, Routine, Deliver

(* The inductive form of the next theorem. *)
THEOREM PaidInvariant == Spec => []PaidInv
<1>1. Init => PaidInv
  <2> SUFFICES ASSUME Init PROVE PaidInv
    OBVIOUS
  <2>1. \A i \in Invoices : net[InvoiceMsg("settled", i)] = 0
    BY MessageTypes DEF Init
  <2> QED
    BY <2>1 DEF Init, EscrowInit, PaidInv
<1>2. TypeInv /\ PaidInv /\ [Next]_vars => PaidInv'
  BY PaidNext
<1> QED
  BY <1>1, <1>2, TypeInvariant, PTL DEF Spec

(* A row says "settled", at the payer or at the payee, only of an invoice    *)
(* whose payment the facilitator has executed: with any number of calls at   *)
(* once, lost answers, repeated messages, resends and crashes                *)
(* (SettleInvoice, HandleInvoiceNotify).                                     *)
THEOREM SettledIsPaid == Spec => []SettledMeansPaid
<1>1. PaidInv => SettledMeansPaid
  BY DEF PaidInv, SettledMeansPaid, Paid
<1> QED
  BY <1>1, PaidInvariant, PTL

-----------------------------------------------------------------------------
(* Paid at most once, and never when rejected. *)

(* A call of the payer's user that has not returned yet. *)
Busy == {"sign", "update", "respond", "reject", "refuse"}

(* Why an invoice is paid once when calls do not overlap: until a call has   *)
(* written its decision the row stays pending, and a row that was accepted   *)
(* is never decided again and keeps its payment, the only one that reaches   *)
(* the facilitator.                                                          *)
OnceInv ==
  /\ \A c, d \in Callers : pc[c] \in Busy /\ pc[d] \in Busy => c = d
  /\ \A c \in Callers :
       /\ pc[c] \in {"sign", "update", "reject"} => payerRow[inv[c]] = "pending"
       /\ pc[c] \in {"respond", "read", "escrow", "mark"}
            => payerRow[inv[c]] \in {"accepted", "settled"}
       /\ callPc[c] # "idle" => callPay[c] = payerPay[inv[c]]
  /\ \A p \in Payments : "settle" \in ledger[p] =>
       /\ madeFor[p] \in Invoices
       /\ payerPay[madeFor[p]] = p
       /\ payerRow[madeFor[p]] \in {"accepted", "settled"}

(* Every step of the payer, of the payee and of the net keeps OnceInv, if a   *)
(* call of the user returns before the next one is made.                      *)
LEMMA OnceNext ==
  ASSUME Serial, TypeInv, PaidInv, OnceInv, [Next]_vars PROVE OnceInv'
<1> USE DEF TypeInv, TypeOK, EscrowTypeOK, tables, routines, escrowVars, OnceInv, Busy
<1>1. CASE UNCHANGED <<pc, inv, callPc, callPay, madeFor, ledger, payerRow, payerPay>>
  BY <1>1
<1>2. ASSUME NEW i \in Invoices, HandleInvoiceRequest(i) PROVE OnceInv'
  <2>1. UNCHANGED <<pc, inv, callPc, callPay, madeFor, ledger, payerPay>>
    BY <1>2 DEF HandleInvoiceRequest
  <2>2. \/ UNCHANGED payerRow
        \/ payerRow[i] = "none" /\ \A k \in Invoices \ {i} : payerRow'[k] = payerRow[k]
    BY <1>2 DEF HandleInvoiceRequest, CreatePaymentInvoice
  <2>3. CASE UNCHANGED payerRow
    BY <2>1, <2>3, <1>1
  <2>4. CASE /\ payerRow[i] = "none"
             /\ \A k \in Invoices \ {i} : payerRow'[k] = payerRow[k]
    <3>1. \A c \in Callers :
            pc[c] \in {"sign", "update", "reject", "respond", "read", "escrow", "mark"}
              => inv[c] # i
      BY <2>4
    <3>2. \A p \in Payments : "settle" \in ledger[p] => madeFor[p] # i
      BY <2>4
    <3>3. \A c \in Callers :
            pc[c] \in {"sign", "update", "reject", "respond", "read", "escrow", "mark"}
              => payerRow'[inv[c]] = payerRow[inv[c]]
      <4> SUFFICES ASSUME NEW c \in Callers,
                          pc[c] \in {"sign", "update", "reject", "respond", "read", "escrow",
                                     "mark"}
                   PROVE  inv[c] \in Invoices \ {i}
        BY <2>4
      <4> QED
        BY <3>1
    <3>4. \A p \in Payments :
            "settle" \in ledger[p] => payerRow'[madeFor[p]] = payerRow[madeFor[p]]
      <4> SUFFICES ASSUME NEW p \in Payments, "settle" \in ledger[p]
                   PROVE  madeFor[p] \in Invoices \ {i}
        BY <2>4
      <4>1. madeFor[p] \in Invoices
        OBVIOUS
      <4> QED
        BY <3>2, <4>1
    <3> QED
      BY <2>1, <3>3, <3>4
  <2> QED
    BY <2>2, <2>3, <2>4
<1>3. ASSUME NEW i \in Invoices, handleDeleteInvoice(i) PROVE OnceInv'
  <2>1. /\ payerRow[i] \notin {"pending", "accepted", "settled"}
        /\ \A k \in Invoices \ {i} : payerRow'[k] = payerRow[k] /\ payerPay'[k] = payerPay[k]
        /\ UNCHANGED <<pc, inv, callPc, callPay, madeFor, ledger>>
    BY <1>3 DEF handleDeleteInvoice, Deletable
  <2>2. \A c \in Callers :
          pc[c] \in {"sign", "update", "reject", "respond", "read", "escrow", "mark"} => inv[c] # i
    BY <2>1
  <2>3. \A c \in Callers :
          pc[c] \in {"sign", "update", "reject", "respond", "read", "escrow", "mark"}
            => payerRow'[inv[c]] = payerRow[inv[c]] /\ payerPay'[inv[c]] = payerPay[inv[c]]
    <3> SUFFICES ASSUME NEW c \in Callers,
                        pc[c] \in {"sign", "update", "reject", "respond", "read", "escrow", "mark"}
                 PROVE  inv[c] \in Invoices \ {i}
      BY <2>1
    <3> QED
      BY <2>2
  <2>4. \A p \in Payments : "settle" \in ledger[p] =>
          /\ payerRow'[madeFor[p]] = payerRow[madeFor[p]]
          /\ payerPay'[madeFor[p]] = payerPay[madeFor[p]]
    <3> SUFFICES ASSUME NEW p \in Payments, "settle" \in ledger[p]
                 PROVE  madeFor[p] \in Invoices \ {i}
      BY <2>1
    <3>1. madeFor[p] \in Invoices /\ payerRow[madeFor[p]] \in {"accepted", "settled"}
      OBVIOUS
    <3> QED
      BY <2>1, <3>1
  <2> QED
    BY <2>1, <2>3, <2>4
<1>4. ASSUME NEW i \in Invoices, NEW c \in Callers, AcceptInvoice(c, i) PROVE OnceInv'
  <2>1. payerRow[i] = "pending" /\ \A d \in Callers : pc[d] \notin Busy
    BY <1>4 DEF AcceptInvoice, MayCall
  <2>2. CASE i \notin expired
    BY <1>4, <2>1, <2>2 DEF AcceptInvoice, MayCall, Step
  <2>3. CASE i \in expired
    <3>1. /\ payerRow' = [payerRow EXCEPT ![i] = "expired"]
          /\ UNCHANGED <<payerPay, pc, inv, callPc, callPay, madeFor, ledger>>
      BY <1>4, <2>3 DEF AcceptInvoice, UpdatePaymentInvoiceStatus
    <3>2. \A d \in Callers : pc[d] \in {"read", "escrow", "mark"} => inv[d] # i
      BY <2>1
    <3> QED
      BY <2>1, <3>1, <3>2
  <2> QED
    BY <2>2, <2>3
<1>5. ASSUME NEW i \in Invoices, NEW c \in Callers, RejectInvoice(c, i) PROVE OnceInv'
  <2>1. payerRow[i] = "pending" /\ \A d \in Callers : pc[d] \notin Busy
    BY <1>5 DEF RejectInvoice, MayCall
  <2> QED
    BY <1>5, <2>1 DEF RejectInvoice, MayCall, Step
<1>6. ASSUME NEW c \in Callers, AcceptCreatesEscrow(c) PROVE OnceInv'
  <2>1. /\ UNCHANGED <<payerRow, payerPay, ledger, callPc, callPay>>
        /\ callPc[c] = "idle" /\ pc[c] = "sign"
        /\ \A d \in Callers \ {c} : UNCHANGED <<pc[d], inv[d]>>
        /\ pc'[c] \in {"update", "idle"} /\ (pc'[c] = "update" => inv'[c] = inv[c])
    BY <1>6 DEF AcceptCreatesEscrow, Step, CreateEscrow
  <2>2. \A p \in Payments : madeFor[p] # 0 => madeFor'[p] = madeFor[p]
    BY PaidStays
  <2>3. \A p \in Payments : "settle" \in ledger'[p] =>
          madeFor[p] \in Invoices /\ madeFor'[p] = madeFor[p]
    BY <2>1, <2>2
  <2> QED
    BY <2>1, <2>3
<1>7. ASSUME NEW c \in Callers, AcceptWritesRow(c) PROVE OnceInv'
  <2>1. pc[c] = "update" /\ inv[c] \in Invoices /\ payerRow[inv[c]] = "pending"
    BY <1>7 DEF AcceptWritesRow
  <2>2. /\ payerRow' = [payerRow EXCEPT ![inv[c]] = "accepted"]
        /\ payerPay' = [payerPay EXCEPT ![inv[c]] = pay[c]]
        /\ pc' = [pc EXCEPT ![c] = "respond"]
        /\ UNCHANGED <<inv, callPc, callPay, madeFor, ledger>>
    BY <1>7, <2>1 DEF AcceptWritesRow, Step, UpdatePaymentInvoiceAccepted,
       UpdatePaymentInvoiceStatus
  <2>3. \A d \in Callers \ {c} :
          /\ pc[d] \notin Busy
          /\ pc[d] \in {"read", "escrow", "mark"} => inv[d] # inv[c]
    BY <2>1
  <2>4. \A p \in Payments : "settle" \in ledger[p] => madeFor[p] # inv[c]
    BY <2>1
  <2>5. callPc[c] = "idle"
    BY <2>1
  <2> QED
    BY <2>1, <2>2, <2>3, <2>4, <2>5
<1>8. ASSUME NEW c \in Callers, sendInvoiceResponse(c) PROVE OnceInv'
  <2>1. /\ UNCHANGED <<payerRow, payerPay, ledger, madeFor, callPc, callPay>>
        /\ callPc[c] = "idle" /\ pc[c] \in Busy
        /\ \A d \in Callers \ {c} : UNCHANGED <<pc[d], inv[d]>>
        /\ pc'[c] \in {"read", "idle"}
        /\ pc'[c] = "read" => inv'[c] = inv[c] /\ pc[c] = "respond"
    BY <1>8 DEF sendInvoiceResponse, Step
  <2> QED
    BY <2>1
<1>9. ASSUME NEW c \in Callers, RejectWritesRow(c) PROVE OnceInv'
  <2>1. pc[c] = "reject" /\ inv[c] \in Invoices /\ payerRow[inv[c]] = "pending"
    BY <1>9 DEF RejectWritesRow
  <2>2. /\ payerRow' = [payerRow EXCEPT ![inv[c]] = "rejected"]
        /\ pc' = [pc EXCEPT ![c] = "refuse"]
        /\ UNCHANGED <<inv, callPc, callPay, madeFor, ledger, payerPay>>
    BY <1>9, <2>1 DEF RejectWritesRow, Step, UpdatePaymentInvoiceStatus
  <2>3. \A d \in Callers \ {c} :
          /\ pc[d] \notin Busy
          /\ pc[d] \in {"read", "escrow", "mark"} => inv[d] # inv[c]
    BY <2>1
  <2>4. \A p \in Payments : "settle" \in ledger[p] => madeFor[p] # inv[c]
    BY <2>1
  <2>5. callPc[c] = "idle"
    BY <2>1
  <2> QED
    BY <2>1, <2>2, <2>3, <2>4, <2>5
<1>10. ASSUME NEW c \in Callers, SettleInvoice(c) PROVE OnceInv'
  <2>1. /\ UNCHANGED <<payerRow, payerPay, madeFor, ledger>>
        /\ \A d \in Callers \ {c} : UNCHANGED <<pc[d], inv[d], callPc[d], callPay[d]>>
        /\ pc[c] = "read" /\ callPc[c] = "idle"
    BY <1>10 DEF SettleInvoice, Step, SettleEscrow, Enter
  <2>2. \/ /\ pc'[c] = "escrow" /\ inv'[c] = inv[c] /\ callPay'[c] = payerPay[inv[c]]
        \/ pc'[c] = "idle" /\ callPc'[c] = "idle"
    BY <1>10, <2>1 DEF SettleInvoice, Step, SettleEscrow, Enter
  <2> QED
    BY <2>1, <2>2
<1>11. ASSUME NEW c \in Callers, SettleInvoiceEscrow(c) PROVE OnceInv'
  <2>1. pc[c] = "escrow" /\ EscrowStep(c) /\ inv[c] \in Invoices
    BY <1>11 DEF SettleInvoiceEscrow
  <2>2. /\ UNCHANGED <<payerRow, payerPay, madeFor>>
        /\ \A d \in Callers \ {c} : UNCHANGED <<pc[d], inv[d], callPc[d], callPay[d]>>
        /\ pc'[c] \in {"escrow", "mark", "idle"}
        /\ pc'[c] # "idle" => inv'[c] = inv[c]
        /\ callPc'[c] # "idle" => pc'[c] = "escrow"
    BY <1>11, <2>1, EscrowStepType DEF SettleInvoiceEscrow, Step, Settled
  <2>3. /\ callPc'[c] # "idle" => callPc[c] # "idle" /\ callPay'[c] = callPay[c]
        /\ \/ UNCHANGED ledger
           \/ /\ ledger' = [ledger EXCEPT ![callPay[c]] = @ \cup {"settle"}]
              /\ callPc[c] # "idle"
    BY <2>1 DEF EscrowStep, SettleRead, SettleCall, FacilitatorCall, SettleWrite, RefundRead,
       RefundCall, RefundWrite, Move, Leave
  <2>4. callPc[c] # "idle" =>
          /\ callPay[c] \in Payments /\ callPay[c] = payerPay[inv[c]]
          /\ madeFor[callPay[c]] = inv[c]
    BY <2>1 DEF PaidInv
  <2>5. ASSUME NEW p \in Payments, "settle" \in ledger'[p]
        PROVE  /\ madeFor'[p] \in Invoices
               /\ payerPay'[madeFor'[p]] = p
               /\ payerRow'[madeFor'[p]] \in {"accepted", "settled"}
    <3>1. "settle" \in ledger[p] \/ (callPc[c] # "idle" /\ p = callPay[c])
      BY <2>3, <2>4, <2>5
    <3>2. CASE "settle" \in ledger[p]
      BY <2>2, <3>2
    <3>3. CASE callPc[c] # "idle" /\ p = callPay[c]
      BY <2>1, <2>2, <2>4, <3>3
    <3> QED
      BY <3>1, <3>2, <3>3
  <2>6. \A d, e \in Callers : pc'[d] \in Busy /\ pc'[e] \in Busy => d = e
    BY <2>2
  <2>7. ASSUME NEW d \in Callers
        PROVE  /\ pc'[d] \in {"sign", "update", "reject"} => payerRow'[inv'[d]] = "pending"
               /\ pc'[d] \in {"respond", "read", "escrow", "mark"}
                    => payerRow'[inv'[d]] \in {"accepted", "settled"}
               /\ callPc'[d] # "idle" => callPay'[d] = payerPay'[inv'[d]]
    <3>1. CASE d = c
      BY <2>1, <2>2, <2>3, <2>4, <3>1
    <3>2. CASE d # c
      BY <2>2, <3>2
    <3> QED
      BY <3>1, <3>2
  <2> QED
    BY <2>5, <2>6, <2>7
<1>12. ASSUME NEW c \in Callers, SettleInvoiceMarks(c) PROVE OnceInv'
  <2>1. /\ pc[c] = "mark" /\ inv[c] \in Invoices
        /\ payerRow[inv[c]] \in {"accepted", "settled"}
    BY <1>12 DEF SettleInvoiceMarks
  <2>2. /\ payerRow' = [payerRow EXCEPT ![inv[c]] = "settled"]
        /\ pc' = [pc EXCEPT ![c] = "notify"]
        /\ UNCHANGED <<inv, callPc, callPay, madeFor, ledger, payerPay>>
    BY <1>12, <2>1 DEF SettleInvoiceMarks, Step, UpdatePaymentInvoiceStatus
  <2>3. \A d \in Callers : pc[d] \in {"sign", "update", "reject"} => inv[d] # inv[c]
    BY <2>1
  <2> QED
    BY <2>1, <2>2, <2>3
<1>13. ASSUME NEW c \in Callers, sendInvoiceNotification(c) PROVE OnceInv'
  <2>1. /\ UNCHANGED <<payerRow, payerPay, ledger, madeFor, callPc, callPay>>
        /\ callPc[c] = "idle" /\ pc'[c] = "idle"
        /\ \A d \in Callers \ {c} : UNCHANGED <<pc[d], inv[d]>>
    BY <1>13 DEF sendInvoiceNotification, Step
  <2> QED
    BY <2>1
<1>14. CASE PayerCrash
  <2>1. /\ UNCHANGED <<payerRow, payerPay, madeFor, ledger>>
        /\ \A c \in Callers : pc'[c] = "idle" /\ callPc'[c] = "idle"
    BY <1>14 DEF PayerCrash, EscrowCrash
  <2> QED
    BY <2>1
<1> QED
  BY <1>1, <1>2, <1>3, <1>4, <1>5, <1>6, <1>7, <1>8, <1>9, <1>10, <1>11, <1>12, <1>13, <1>14
  DEF Next, vars, Routine, Deliver, CreateInvoice, sendInvoiceRequest, DeliveryFailed,
      handleResendInvoice, handleDeleteAtPayee, HandleInvoiceResponse, HandleInvoiceNotify,
      TimePasses, HandleEncryptedInvoiceRequest, HandleEncryptedInvoiceResponse,
      HandleEncryptedInvoiceNotify, PayeeCrash

(* When the payer's user waits for a call to return before the next, the     *)
(* rows of both sides and the ledger agree: settled invoices are paid, none  *)
(* is paid twice although a crash leaves an escrow behind and the invoice is *)
(* accepted again, and a rejected one is not paid (AcceptInvoice,            *)
(* RejectInvoice, SettleInvoice).  The facilitator, the messages and the     *)
(* settlements of earlier calls go on meanwhile.                             *)
THEOREM SerialPaymentsMatch == ASSUME Serial PROVE Spec => []PaymentsMatchInvoices
<1>1. Init => OnceInv
  BY DEF Init, EscrowInit, OnceInv, Busy
<1>2. TypeInv /\ PaidInv /\ OnceInv /\ [Next]_vars => OnceInv'
  BY OnceNext
<1>3. TypeInv /\ PaidInv /\ OnceInv => PaymentsMatchInvoices
  <2> SUFFICES ASSUME TypeInv, PaidInv, OnceInv PROVE PaymentsMatchInvoices
    OBVIOUS
  <2>1. SettledMeansPaid
    BY DEF PaidInv, SettledMeansPaid, Paid
  <2>2. PaidAtMostOnce
    BY DEF OnceInv, PaidAtMostOnce
  <2>3. RejectedMeansUnpaid
    BY DEF OnceInv, RejectedMeansUnpaid
  <2> QED
    BY <2>1, <2>2, <2>3 DEF PaymentsMatchInvoices
<1> QED
  BY <1>1, <1>2, <1>3, TypeInvariant, PaidInvariant, PTL DEF Spec

=============================================================================
