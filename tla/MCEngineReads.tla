--------------------------- MODULE MCEngineReads ---------------------------
(***************************************************************************)
(* Instances of EngineReads.                                               *)
(***************************************************************************)
EXTENDS EngineReads

\* Two shards of two members.
ByParity == [m \in Members |-> m % 2]

\* Scores at one instant; the histogram spans 0 .. 4 in two buckets.
MixedScores == {<<0, 0>>, <<2, 0>>, <<3, 0>>}

\* Last-wins boards in both orders.
BothOrders == {[SortOrder |-> o, UpdatePolicy |-> "last", TieBreak |-> "lexical"] :
                 o \in {"asc", "desc"}}
=============================================================================
