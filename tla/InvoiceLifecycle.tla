-------------------------- MODULE InvoiceLifecycle --------------------------
(***************************************************************************)
(* What the owner of a receipt is promised by enum OcrStatus                *)
(* (prisma/schema.prisma), POST /invoices/upload and DELETE /invoices/:id:  *)
(* an uploaded receipt waits, is processed once, ends in one status, and a  *)
(* deleted one never returns.  Store, queue, workers and requests are not   *)
(* mentioned; InvoiceSystem implements this specification.                  *)
(***************************************************************************)
CONSTANT Invoices
VARIABLE phase

Live == {"PENDING", "PROCESSING", "COMPLETED", "FAILED", "DUPLICATE"}

LifecycleInit == phase = [i \in Invoices |-> "none"]

Submit(i) ==
  /\ phase[i] = "none"
  /\ phase' = [phase EXCEPT ![i] = "PENDING"]

StartOcr(i) ==
  /\ phase[i] = "PENDING"
  /\ phase' = [phase EXCEPT ![i] = "PROCESSING"]

FinishOcr(i) ==
  /\ phase[i] = "PROCESSING"
  /\ \E s \in {"COMPLETED", "FAILED", "DUPLICATE"} : phase' = [phase EXCEPT ![i] = s]

\* One receipt, or with its account all the receipts of the account.
Delete(S) ==
  /\ S # {}
  /\ \A i \in S : phase[i] \in Live
  /\ phase' = [i \in Invoices |-> IF i \in S THEN "deleted" ELSE phase[i]]

LifecycleNext ==
  \/ \E i \in Invoices : Submit(i) \/ StartOcr(i) \/ FinishOcr(i)
  \/ \E S \in SUBSET Invoices : Delete(S)

LifecycleSpec == LifecycleInit /\ [][LifecycleNext]_phase
=============================================================================
