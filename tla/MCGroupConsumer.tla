-------------------------- MODULE MCGroupConsumer --------------------------
(***************************************************************************)
(* Small instances of GroupConsumer for TLC.                               *)
(***************************************************************************)
EXTENDS GroupConsumer, TLC

CONSTANTS b1, b2, s1, s2, m1

OneBoard  == {b1}
TwoBoards == {b1, b2}
NoBoards  == {}
OneSlice  == {s1}
TwoSlices == {s1, s2}
OneMember == {m1}
NoMembers == {}

\* Everything is in the first partition.
HashZero == [c \in Boards \X Members |-> 0]

BestPolicy       == [b \in Boards |-> "best"]
BestAndIncrement == [b \in Boards |-> IF b = b1 THEN "best" ELSE "increment"]
LastPolicy       == [b \in Boards |-> "last"]
Descending       == [b \in Boards |-> "desc"]
Ascending        == [b \in Boards |-> "asc"]

Submission(b, m, x, S, ok) ==
  [board |-> b, member |-> m, score |-> x, slices |-> S, ok |-> ok]

\* One score, and one that the engine refuses.
OneScore == {Submission(b1, m1, 1, {s1}, ok) : ok \in BOOLEAN}

\* Two scores, one of them in every slice.
TwoScores == {Submission(b1, m1, 1, Slices, TRUE), Submission(b1, m1, 2, {s1}, TRUE)}

\* The same, a score that the engine refuses, and one for the other board.
EveryOutcome == TwoScores \cup {Submission(b1, m1, 2, {s1}, FALSE), Submission(b2, m1, 1, Slices, TRUE)}

\* The last is for requests: cancelled, or failing halfway.
Faults(crash, error, expire, request) ==
  [k \in FaultKinds |-> CASE k = "crash" -> crash [] k = "error" -> error
                          [] k = "expire" -> expire [] OTHER -> request]

OneCrash        == Faults(1, 0, 0, 0)
RequestFaults   == Faults(0, 0, 0, 1)
AllFaults       == Faults(2, 1, 1, 0)
=============================================================================
