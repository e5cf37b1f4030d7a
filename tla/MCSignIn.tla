------------------------------ MODULE MCSignIn ------------------------------
(***************************************************************************)
(* Instances of SignIn for TLC.                                            *)
(***************************************************************************)
EXTENDS SignIn, TLC

CONSTANT acct

\* Every spelling is the one account's.
MCCanonical == [a \in Address |-> acct]

Symmetry ==
  Permutations(Req) \cup Permutations(User) \cup Permutations(Token)
    \cup Permutations(Ticket)
=============================================================================
