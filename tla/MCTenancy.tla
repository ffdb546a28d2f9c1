------------------------------- MODULE MCTenancy -------------------------------
(* Instances of Tenancy for TLC. *)
EXTENDS Tenancy, TLC

\* Requests, keys, apps and users are interchangeable.
Symmetry == Permutations(Requests) \cup Permutations(Keys) \cup Permutations(Apps)
            \cup Permutations(Users)
=============================================================================
