-------------------------- MODULE MCReceiptStorage --------------------------
(* ReceiptStorage on small instances. *)
EXTENDS ReceiptStorage, TLC

CONSTANTS s1, old

\* A WebP and, from before the storage keys, a PDF.
TwoTypes == [r \in Receipts |-> IF r = s1 THEN "image/webp" ELSE "application/pdf"]

\* Every STORAGE_DRIVER, and S3 with and without its credentials.
EverySetting == [driver : {"unset", "local", "s3", "other"}, credentials : BOOLEAN]
S3Setting    == {[driver |-> "s3", credentials |-> TRUE]}

\* Requests of a kind are interchangeable.
RequestSymmetry == Permutations(Readers) \cup Permutations(Deleters)
=============================================================================
