--------------------------- MODULE MCDeleteRetry ----------------------------
(* DeleteRetry on a small instance. *)
EXTENDS DeleteRetry

CONSTANTS alice

OneOwner == [i \in Invoices |-> alice]
=============================================================================
