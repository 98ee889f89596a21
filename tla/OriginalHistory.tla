-------------------------- MODULE OriginalHistory ---------------------------
(***************************************************************************)
(* Copies and originals.  A row in DUPLICATE outlives the original it was   *)
(* found to be a copy of, so the pipeline's state does not say whether there *)
(* was one.  This module adds to every step of InvoiceSystem the record of  *)
(* the originals it takes away, and by whom.  It restricts no step.         *)
(***************************************************************************)
EXTENDS InvoiceSystem

VARIABLES
  retired,   \* retired[j]: the pairs row j was COMPLETED with until a user
             \* edited or deleted it
  redone     \* redone[j]: the pairs row j was COMPLETED with until OCR took
             \* them, and those an edit gave it after OCR had made it a copy

historyVars == <<retired, redone>>

HistoryTypeOK ==
  /\ retired \in [Invoices -> SUBSET Keys]
  /\ redone \in [Invoices -> SUBSET (Keys \cup {NoKey})]

HistoryInit ==
  /\ Init
  /\ retired = [j \in Invoices |-> {}]
  /\ redone = [j \in Invoices |-> {}]

\* The pair, if any, that row j was COMPLETED with and is no longer.
TakenFrom(j) ==
  {k \in Keys : /\ ocrStatus[j] = "COMPLETED" /\ taxKey[j] = k
                /\ ocrStatus'[j] # "COMPLETED" \/ taxKey'[j] # k}

\* The pair, if any, that an edit has given to row j although it is a copy now.
GivenToCopy(j) ==
  {k \in Keys \cup {NoKey} :
     ocrStatus'[j] = "DUPLICATE" /\ taxKey[j] # k /\ taxKey'[j] = k}

UserStep ==
  /\ ServiceNext
  /\ retired' = [j \in Invoices |-> retired[j] \cup TakenFrom(j)]
  /\ redone' = [j \in Invoices |-> redone[j] \cup GivenToCopy(j)]

OcrStep ==
  /\ ProcessorNext
  /\ redone' = [j \in Invoices |-> redone[j] \cup TakenFrom(j)]
  /\ UNCHANGED retired

HistoryNext == UserStep \/ OcrStep \/ (QueueNext /\ UNCHANGED historyVars)

HistorySpec == HistoryInit /\ [][HistoryNext]_<<vars, historyVars>>

-----------------------------------------------------------------------------

\* A DUPLICATE row has an original, a COMPLETED row of the same account with the
\* same pair; or the account had one, until a user edited or deleted it (its
\* copies stay, and make further uploads copies too, as DupCheck takes DUPLICATE
\* rows for originals), or until OCR ran on it a second time or was told that an
\* update which took effect had failed.  Nothing becomes a copy of a receipt that
\* never counted, or of another account's (process: duplicate check, used one
\* await later by mark-complete; update; remove).
DuplicateHasOriginal ==
  \A i \in Invoices :
    ocrStatus[i] = "DUPLICATE" =>
      \E j \in Invoices :
        /\ Owner[j] = Owner[i]
        /\ \/ SameReceipt(i, j) /\ ocrStatus[j] = "COMPLETED"
           \/ taxKey[i] \in retired[j] /\ (j = i => stalled[i] > 0)
           \/ taxKey[i] \in redone[j] /\ (stalled[j] > 0 \/ "lostReply" \in Faults)
=============================================================================
