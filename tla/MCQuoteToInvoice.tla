-------------------------- MODULE MCQuoteToInvoice --------------------------
(* Quotes and their invoices on small instances.                             *)
EXTENDS QuoteToInvoice
=============================================================================
