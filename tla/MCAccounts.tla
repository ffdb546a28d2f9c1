------------------------------ MODULE MCAccounts ------------------------------
(* Instances of Accounts for TLC. *)
EXTENDS Accounts, TLC

\* Requests, emails, account ids, tokens and passwords are interchangeable.
Symmetry == Permutations(Requests) \cup Permutations(Users) \cup Permutations(Tokens)
            \cup Permutations(Passwords) \cup Permutations(Emails)
=============================================================================
