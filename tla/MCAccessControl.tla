-------------------------- MODULE MCAccessControl ---------------------------
(* AccessControl on a small instance. *)
EXTENDS AccessControl, TLC

\* Browsers, accounts and tokens are interchangeable.
AccessSymmetry == Permutations(Browsers) \cup Permutations(Accounts) \cup Permutations(Tokens)
=============================================================================
