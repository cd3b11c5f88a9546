------------------------------ MODULE MCInvoice ------------------------------
(* Small instances of Invoice for TLC. *)
EXTENDS Invoice

CONSTANTS c1, c2, p1, p2

TwoCallers  == {c1, c2}
TwoPayments == {p1, p2}
TwoInvoices == {1, 2}
=============================================================================
