------------------------- MODULE MCOriginalHistory --------------------------
(* OriginalHistory on a small instance. *)
EXTENDS OriginalHistory, TLC

CONSTANTS i3, alice, bob

\* i3 belongs to bob, the others to alice.
TwoOwners == [i \in Invoices |-> IF i = i3 THEN bob ELSE alice]

\* Requests and alice's receipts are interchangeable.
AliceSymmetric == Permutations(Requests) \cup Permutations(Invoices \ {i3})
=============================================================================
