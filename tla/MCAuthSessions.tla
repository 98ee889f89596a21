--------------------------- MODULE MCAuthSessions ---------------------------
(* AuthSessions on small instances. *)
EXTENDS AuthSessions, TLC

\* Calls, accounts and tokens are interchangeable.
AuthSymmetry == Permutations(Calls) \cup Permutations(Accounts) \cup Permutations(Tokens)
=============================================================================
