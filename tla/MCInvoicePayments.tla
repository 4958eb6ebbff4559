------------------------- MODULE MCInvoicePayments --------------------------
(* InvoicePayments on small instances.                                       *)
EXTENDS InvoicePayments

\* Two rows are enough for two links of one invoice to be open at once.
TwoTxns == 1..2
=============================================================================
