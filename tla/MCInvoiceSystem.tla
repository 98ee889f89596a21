-------------------------- MODULE MCInvoiceSystem ---------------------------
(* InvoiceSystem on small instances: the values the .cfg files choose from. *)
EXTENDS InvoiceSystem, TLC

CONSTANTS alice

\* All receipts belong to alice.
OneOwner == [i \in Invoices |-> alice]

\* Workers, requests and receipts are interchangeable.
AllSymmetric == Permutations(Workers) \cup Permutations(Requests) \cup Permutations(Invoices)
=============================================================================
