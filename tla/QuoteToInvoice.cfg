SPECIFICATION AllFairSpec
CONSTANTS
  Requests = {r1, r2}
  Sweepers = {s1, s2}
  Links = {t1, t2, t3}
  MaxRevisions = 2
  Clerks = {c1, c2}
  Invoices = {i1, i2}
  NoInvoice = NoInvoice
  MaxEdits = 2
  MaxIssued = 2
INVARIANTS AllTypeOK OpenLinkIsCurrent ClosedOnce OneLiveInvoice InvoiceLinkIsCurrent
PROPERTY Expires
CHECK_DEADLOCK FALSE
