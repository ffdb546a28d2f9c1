------------------------------ MODULE MCEngine ------------------------------
(***************************************************************************)
(* Instances of Engine.                                                    *)
(***************************************************************************)
EXTENDS Engine

ByParity == [m \in Members |-> m % 2]

\* An increment board, a last-wins board and both firstToReach boards.
FourConfigs ==
  {[SortOrder |-> "desc", UpdatePolicy |-> "increment", TieBreak |-> "lexical"],
   [SortOrder |-> "asc",  UpdatePolicy |-> "last",      TieBreak |-> "lexical"],
   [SortOrder |-> "asc",  UpdatePolicy |-> "best",      TieBreak |-> "firstToReach"],
   [SortOrder |-> "desc", UpdatePolicy |-> "best",      TieBreak |-> "firstToReach"]}

\* With two bits for the score and two for the time: the lowest and the highest
\* score at the first and the last instant, a score inside the histogram's range,
\* and a score that cannot be encoded.
TimedScores == {<<0, 0>>, <<0, 3>>, <<3, 0>>, <<3, 3>>, <<2, 1>>, <<4, 0>>}
=============================================================================
