------------------------------- MODULE Escrow -------------------------------
(***************************************************************************)
(* The escrow manager (internal/payment/escrow.go) as its callers see it.  *)
(* A payment is a row of the job_payments table.  SettleEscrow and         *)
(* RefundEscrow run in the goroutine of their caller: they read the row,   *)
(* call the payment facilitator over HTTP, and write the row, with nothing *)
(* that keeps a second caller out between the read and the write.  The     *)
(* facilitator is external: it may execute a request, refuse it, or        *)
(* execute it and have its answer lost (a timeout), in which case the      *)
(* caller sees an error and leaves the row alone.                          *)
(***************************************************************************)
CONSTANTS Payments,   \* payment ids: one escrow each
          Callers,    \* goroutines that may call the escrow manager
          NoPayment   \* no payment: the caller is not inside the manager

ASSUME NoPaymentAssumption == NoPayment \notin Payments

VARIABLES payStatus,  \* job_payments.status; "none": the row does not exist
          ledger,     \* what the facilitator has executed for each payment
          callPc,     \* where each caller is inside the escrow manager
          callPay     \* the payment each caller works on

escrowVars == <<payStatus, ledger, callPc, callPay>>

PayStatus == {"none", "verified", "settled", "refunded"}
Movement  == {"settle", "refund"}
CallPc    == {"idle", "settleRead", "settleCall", "settleWrite",
              "refundRead", "refundCall", "refundWrite"}

EscrowTypeOK ==
  /\ payStatus \in [Payments -> PayStatus]
  /\ ledger \in [Payments -> SUBSET Movement]
  /\ callPc \in [Callers -> CallPc]
  /\ callPay \in [Callers -> Payments \cup {NoPayment}]

EscrowInit ==
  /\ payStatus = [p \in Payments |-> "none"]
  /\ ledger = [p \in Payments |-> {}]
  /\ callPc = [c \in Callers |-> "idle"]
  /\ callPay = [c \in Callers |-> NoPayment]

-----------------------------------------------------------------------------
(* The caller enters, moves inside and leaves the manager. *)

Enter(c, p, pc) ==
  /\ callPc[c] = "idle"
  /\ callPc' = [callPc EXCEPT ![c] = pc]
  /\ callPay' = [callPay EXCEPT ![c] = p]

Leave(c) ==
  /\ callPc' = [callPc EXCEPT ![c] = "idle"]
  /\ callPay' = [callPay EXCEPT ![c] = NoPayment]

Move(c, pc) ==
  /\ callPc' = [callPc EXCEPT ![c] = pc]
  /\ UNCHANGED callPay

UpdateJobPaymentStatus(p, s) == payStatus' = [payStatus EXCEPT ![p] = s]

(* CreateEscrow after the facilitator has verified the signature: the row   *)
(* is inserted as verified.  A row that exists keeps its nonce, which is    *)
(* UNIQUE, so a payment cannot be created twice.                            *)
CreateEscrow(p) ==
  /\ payStatus[p] = "none"
  /\ UpdateJobPaymentStatus(p, "verified")
  /\ UNCHANGED <<ledger, callPc, callPay>>

SettleEscrow(c, p) == Enter(c, p, "settleRead") /\ UNCHANGED <<payStatus, ledger>>

RefundEscrow(c, p) == Enter(c, p, "refundRead") /\ UNCHANGED <<payStatus, ledger>>

(* The row is read; settled, refunded and missing rows end the call. *)
SettleRead(c) ==
  /\ callPc[c] = "settleRead"
  /\ \/ payStatus[callPay[c]] = "verified" /\ Move(c, "settleCall")
     \/ payStatus[callPay[c]] # "verified" /\ Leave(c)
  /\ UNCHANGED <<payStatus, ledger>>

RefundRead(c) ==
  /\ callPc[c] = "refundRead"
  /\ \/ payStatus[callPay[c]] = "verified" /\ Move(c, "refundCall")
     \/ payStatus[callPay[c]] # "verified" /\ Leave(c)
  /\ UNCHANGED <<payStatus, ledger>>

(* Mutant: the error of the facilitator call is ignored. *)
FacilitatorErrorIgnored(c, movement, next) ==
  /\ \/ ledger' = [ledger EXCEPT ![callPay[c]] = @ \cup {movement}]
     \/ UNCHANGED ledger
  /\ Move(c, next)
  /\ UNCHANGED payStatus

(* One facilitator call, its bounded retries included: the movement is      *)
(* executed and acknowledged, executed and the answer lost, or not executed.*)
FacilitatorCall(c, movement, next) ==
  /\ \/ /\ ledger' = [ledger EXCEPT ![callPay[c]] = @ \cup {movement}]
        /\ Move(c, next) \/ Leave(c)
     \/ UNCHANGED ledger /\ Leave(c)
  /\ UNCHANGED payStatus

SettleCall(c) == callPc[c] = "settleCall" /\ FacilitatorCall(c, "settle", "settleWrite")

RefundCall(c) == callPc[c] = "refundCall" /\ FacilitatorCall(c, "refund", "refundWrite")

SettleWrite(c) ==
  /\ callPc[c] = "settleWrite"
  /\ UpdateJobPaymentStatus(callPay[c], "settled")
  /\ Leave(c)
  /\ UNCHANGED ledger

RefundWrite(c) ==
  /\ callPc[c] = "refundWrite"
  /\ UpdateJobPaymentStatus(callPay[c], "refunded")
  /\ Leave(c)
  /\ UNCHANGED ledger

EscrowStep(c) == \/ SettleRead(c) \/ SettleCall(c) \/ SettleWrite(c)
                 \/ RefundRead(c) \/ RefundCall(c) \/ RefundWrite(c)

(* A crash of the node loses the calls in progress and keeps the rows. *)
EscrowCrash ==
  /\ callPc' = [c \in Callers |-> "idle"]
  /\ callPay' = [c \in Callers |-> NoPayment]
  /\ UNCHANGED <<payStatus, ledger>>
=============================================================================
