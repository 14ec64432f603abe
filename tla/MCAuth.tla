------------------------------- MODULE MCAuth --------------------------------
(***************************************************************************)
(* A small instance of Auth.                                               *)
(***************************************************************************)
EXTENDS Auth, TLC

\* Emails, passwords and tokens are compared and never looked into.
Symmetry == Permutations(Emails) \cup Permutations(Passwords)
                \cup Permutations(Tokens) \cup Permutations(Workers)
=============================================================================
