\* An invoice and its resend, two goroutines at the payer whose user makes one call at a
\* time, two payments, one fault.
CONSTANTS
  c1 = c1
  c2 = c2
  p1 = p1
  p2 = p2
  NoPayment = NoPayment
  Payments <- TwoPayments
  Callers <- TwoCallers
  Invoices <- TwoInvoices
  MaxRetries = 2
  PublicPeer = FALSE
  Serial = TRUE
  MaxFaults = 1
SPECIFICATION Spec
INVARIANTS TypeOK PaymentsMatchInvoices
PROPERTIES AcceptedInvoicesSettle
CHECK_DEADLOCK FALSE
