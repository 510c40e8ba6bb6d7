----------------------------- MODULE MCInvoices -----------------------------
EXTENDS Invoices

CONSTANTS h1, h2, i1, i2, i3, t1

\* Three invoices of 50.00, and a payment one cent short of them together.
MCCents == [x \in Invs \cup Payments |-> IF x \in Invs THEN 5000 ELSE 14999]
=============================================================================
