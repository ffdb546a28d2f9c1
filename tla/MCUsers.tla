------------------------------ MODULE MCUsers ------------------------------
(***************************************************************************)
(* Instances of Users.  Nicknames are pairs <<word, case>>; the lowercased *)
(* form is the word.                                                       *)
(***************************************************************************)
EXTENDS Users, TLC

\* Three spellings of two nicknames, and one with a control character.
WithInvalid   == {<<"ann", "lower">>, <<"ann", "upper">>, <<"bob", "lower">>, <<"bad", "lower">>}
LowerOf       == [d \in Displays |-> IF d[1] = "bad" THEN "invalid" ELSE d[1]]
Symmetry      == Permutations(Clients)
=============================================================================
