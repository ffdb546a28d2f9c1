------------------------------ MODULE MCPlayers ------------------------------
(* Instances of Players for TLC. *)
EXTENDS Players, TLC

\* Requests, nicknames, tokens and ids of one kind are interchangeable.
Symmetry == Permutations(Requests) \cup Permutations(Nicks) \cup Permutations(Tokens)
=============================================================================
