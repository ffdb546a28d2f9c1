--------------------------- MODULE IngestorProofs ---------------------------
(***************************************************************************)
(* Proofs about Ingestor, for any number of clients, keys, retries and     *)
(* faults.                                                                 *)
(***************************************************************************)
EXTENDS Ingestor, TLAPS

(* Only events with a key are reserved and rolled back, and only a cancelled *)
(* request runs under an ended context.                                      *)
RequestInv ==
  /\ \A c \in Clients : pc[c] \in {"reserve", "rollback"} => KeyOf[c] \in Keys
  /\ gone # {} => faults["cancel"] # 0

(* A reservation has one holder, who has not appended; an event that is in *)
(* the log is reserved.                                                    *)
OnceInv ==
  Without({"reply", "expire"}) =>
    \A k \in Keys :
      /\ entries[k] <= 1
      /\ entries[k] > 0 => k \in seen
      /\ \A c \in Clients : c \in Holders(k) => k \in seen /\ entries[k] = 0
      /\ \A c, d \in Clients : c \in Holders(k) /\ d \in Holders(k) => c = d

(* A request only rolls back an event that is in the log, its reply having been *)
(* lost, so an event that was answered stays in the log or in progress.         *)
AnsweredInv ==
  Without({"reserve", "append", "rollback", "cancel", "crash"}) =>
    \A c \in Clients :
      KeyOf[c] # NoKey =>
        /\ pc[c] \in {"answer", "rollback"} => entries[KeyOf[c]] > 0
        /\ answer[c] \in {"accepted", "duplicate"} =>
             entries[KeyOf[c]] > 0 \/ Holders(KeyOf[c]) # {}

IInv == TypeOK /\ RequestInv /\ OnceInv /\ ReservationIsBackedIfRolledBack /\ AnsweredInv

(* A fault that has happened stays counted. *)
LEMMA FaultsGrow ==
  ASSUME TypeOK, [Next]_vars, NEW f \in FaultKinds, faults'[f] = 0
  PROVE  faults[f] = 0
BY DEF TypeOK, Next, vars, Fault, Send, Reserve, ReserveSeen, ReserveFails, AppendOK, Accepted,
       AppendFails, AppendReplyLost, RollBack, RollBackFails, Cancel, Crash, Expire

LEMMA FaultType ==
  ASSUME TypeOK, NEW f \in FaultKinds, Fault(f)
  PROVE  faults' \in [FaultKinds -> Nat]
BY DEF TypeOK, Fault

LEMMA KindsOfFault ==
  {"reserve", "append", "reply", "rollback", "cancel", "crash", "expire"} = FaultKinds
BY DEF FaultKinds

(* Every step preserves the types. *)
LEMMA NextType ==
  ASSUME TypeOK, RequestInv, [Next]_vars
  PROVE  TypeOK'
<1>1. ASSUME NEW c \in Clients, Send(c) PROVE TypeOK'
  BY <1>1, KeyAssumption, FaultType, KindsOfFault DEF Send, RequestInv, Reply, AfterFailedAppend, TypeOK
<1>2. ASSUME NEW c \in Clients, Reserve(c) PROVE TypeOK'
  BY <1>2, KeyAssumption, FaultType, KindsOfFault DEF Reserve, RequestInv, Reply, AfterFailedAppend, TypeOK
<1>3. ASSUME NEW c \in Clients, ReserveSeen(c) PROVE TypeOK'
  BY <1>3, KeyAssumption, FaultType, KindsOfFault DEF ReserveSeen, RequestInv, Reply, AfterFailedAppend, TypeOK
<1>4. ASSUME NEW c \in Clients, ReserveFails(c) PROVE TypeOK'
  BY <1>4, KeyAssumption, FaultType, KindsOfFault DEF ReserveFails, RequestInv, Reply, AfterFailedAppend, TypeOK
<1>5. ASSUME NEW c \in Clients, AppendOK(c) PROVE TypeOK'
  <2>1. entries' \in [Keys \cup {NoKey} -> Nat]
    <3>1. entries' = [entries EXCEPT ![KeyOf[c]] = entries[KeyOf[c]] + 1]
      BY <1>5 DEF AppendOK
    <3>2. KeyOf[c] \in Keys \cup {NoKey} /\ entries[KeyOf[c]] \in Nat
      BY KeyAssumption DEF TypeOK
    <3> QED
      BY <3>1, <3>2 DEF TypeOK
  <2> QED
    BY <1>5, <2>1 DEF AppendOK, TypeOK
<1>6. ASSUME NEW c \in Clients, AppendFails(c) PROVE TypeOK'
  BY <1>6, KeyAssumption, FaultType, KindsOfFault DEF AppendFails, RequestInv, Reply, AfterFailedAppend, TypeOK
<1>7. ASSUME NEW c \in Clients, AppendReplyLost(c) PROVE TypeOK'
  BY <1>7, KeyAssumption, FaultType, KindsOfFault DEF AppendReplyLost, RequestInv, Reply, AfterFailedAppend, TypeOK
<1>8. ASSUME NEW c \in Clients, RollBack(c) PROVE TypeOK'
  BY <1>8, KeyAssumption, FaultType, KindsOfFault DEF RollBack, RequestInv, Reply, AfterFailedAppend, TypeOK
<1>9. ASSUME NEW c \in Clients, RollBackFails(c) PROVE TypeOK'
  BY <1>9, KeyAssumption, FaultType, KindsOfFault DEF RollBackFails, RequestInv, Reply, AfterFailedAppend, TypeOK
<1>10. ASSUME NEW c \in Clients, Cancel(c) PROVE TypeOK'
  BY <1>10, KeyAssumption, FaultType, KindsOfFault DEF Cancel, RequestInv, Reply, AfterFailedAppend, TypeOK
<1>11. ASSUME NEW c \in Clients, Crash(c) PROVE TypeOK'
  BY <1>11, KeyAssumption, FaultType, KindsOfFault DEF Crash, RequestInv, Reply, AfterFailedAppend, TypeOK
<1>12. ASSUME NEW k \in Keys, Expire(k) PROVE TypeOK'
  BY <1>12, KeyAssumption, FaultType, KindsOfFault DEF Expire, RequestInv, Reply, AfterFailedAppend, TypeOK
<1>13. CASE UNCHANGED vars
  BY <1>13, KeyAssumption, FaultType, KindsOfFault DEF vars, RequestInv, Reply, AfterFailedAppend, TypeOK
<1>14. ASSUME NEW c \in Clients, Accepted(c) PROVE TypeOK'
  BY <1>14 DEF Accepted, Reply, TypeOK
<1> QED
  BY <1>1, <1>2, <1>3, <1>4, <1>5, <1>6, <1>7, <1>8, <1>9, <1>10, <1>11, <1>12, <1>13, <1>14 DEF Next

(* Every step preserves the facts about running requests. *)
LEMMA NextRequest ==
  ASSUME TypeOK, RequestInv, [Next]_vars
  PROVE  RequestInv'
<1>1. ASSUME NEW c \in Clients, Send(c) PROVE RequestInv'
  BY <1>1, KeyAssumption, KindsOfFault DEF Send, RequestInv, Reply, AfterFailedAppend, Fault, TypeOK
<1>2. ASSUME NEW c \in Clients, Reserve(c) PROVE RequestInv'
  BY <1>2, KeyAssumption, KindsOfFault DEF Reserve, RequestInv, Reply, AfterFailedAppend, Fault, TypeOK
<1>3. ASSUME NEW c \in Clients, ReserveSeen(c) PROVE RequestInv'
  BY <1>3, KeyAssumption, KindsOfFault DEF ReserveSeen, RequestInv, Reply, AfterFailedAppend, Fault, TypeOK
<1>4. ASSUME NEW c \in Clients, ReserveFails(c) PROVE RequestInv'
  BY <1>4, KeyAssumption, KindsOfFault DEF ReserveFails, RequestInv, Reply, AfterFailedAppend, Fault, TypeOK
<1>5. ASSUME NEW c \in Clients, AppendOK(c) PROVE RequestInv'
  BY <1>5, KeyAssumption, KindsOfFault DEF AppendOK, RequestInv, Reply, AfterFailedAppend, Fault, TypeOK
<1>6. ASSUME NEW c \in Clients, AppendFails(c) PROVE RequestInv'
  BY <1>6, KeyAssumption, KindsOfFault DEF AppendFails, RequestInv, Reply, AfterFailedAppend, Fault, TypeOK
<1>7. ASSUME NEW c \in Clients, AppendReplyLost(c) PROVE RequestInv'
  BY <1>7, KeyAssumption, KindsOfFault DEF AppendReplyLost, RequestInv, Reply, AfterFailedAppend, Fault, TypeOK
<1>8. ASSUME NEW c \in Clients, RollBack(c) PROVE RequestInv'
  BY <1>8, KeyAssumption, KindsOfFault DEF RollBack, RequestInv, Reply, AfterFailedAppend, Fault, TypeOK
<1>9. ASSUME NEW c \in Clients, RollBackFails(c) PROVE RequestInv'
  BY <1>9, KeyAssumption, KindsOfFault DEF RollBackFails, RequestInv, Reply, AfterFailedAppend, Fault, TypeOK
<1>10. ASSUME NEW c \in Clients, Cancel(c) PROVE RequestInv'
  BY <1>10, KeyAssumption, KindsOfFault DEF Cancel, RequestInv, Reply, AfterFailedAppend, Fault, TypeOK
<1>11. ASSUME NEW c \in Clients, Crash(c) PROVE RequestInv'
  BY <1>11, KeyAssumption, KindsOfFault DEF Crash, RequestInv, Reply, AfterFailedAppend, Fault, TypeOK
<1>12. ASSUME NEW k \in Keys, Expire(k) PROVE RequestInv'
  BY <1>12, KeyAssumption, KindsOfFault DEF Expire, RequestInv, Reply, AfterFailedAppend, Fault, TypeOK
<1>13. CASE UNCHANGED vars
  BY <1>13, KeyAssumption, KindsOfFault DEF vars, RequestInv, Reply, AfterFailedAppend, Fault, TypeOK
<1>14. ASSUME NEW c \in Clients, Accepted(c) PROVE RequestInv'
  BY <1>14 DEF Accepted, RequestInv, Reply, TypeOK
<1> QED
  BY <1>1, <1>2, <1>3, <1>4, <1>5, <1>6, <1>7, <1>8, <1>9, <1>10, <1>11, <1>12, <1>13, <1>14 DEF Next

(* Every step preserves the at-most-once invariant: SET NX lets one request  *)
(* through, and only its own outcome frees or consumes the reservation.      *)
LEMMA NextOnce ==
  ASSUME TypeOK, RequestInv, OnceInv, [Next]_vars
  PROVE  OnceInv'
<1> SUFFICES ASSUME Without({"reply", "expire"})'
             PROVE  OnceInv'
  BY DEF OnceInv
<1>0. /\ Without({"reply", "expire"})
      /\ faults'["reply"] = 0 /\ faults'["expire"] = 0
  BY FaultsGrow DEF Without, FaultKinds
<1>1. ASSUME NEW c \in Clients, Send(c) PROVE OnceInv'
  BY <1>1, <1>0, KeyAssumption DEF Send, OnceInv, Holders, RequestInv, Reply, AfterFailedAppend, TypeOK
<1>2. ASSUME NEW c \in Clients, Reserve(c) PROVE OnceInv'
  BY <1>2, <1>0, KeyAssumption DEF Reserve, OnceInv, Holders, RequestInv, Reply, AfterFailedAppend, TypeOK
<1>3. ASSUME NEW c \in Clients, ReserveSeen(c) PROVE OnceInv'
  BY <1>3, <1>0, KeyAssumption DEF ReserveSeen, OnceInv, Holders, RequestInv, Reply, AfterFailedAppend, TypeOK
<1>4. ASSUME NEW c \in Clients, ReserveFails(c) PROVE OnceInv'
  BY <1>4, <1>0, KeyAssumption DEF ReserveFails, OnceInv, Holders, RequestInv, Reply, AfterFailedAppend, TypeOK
<1>5. ASSUME NEW c \in Clients, AppendOK(c) PROVE OnceInv'
  BY <1>5, <1>0, KeyAssumption DEF AppendOK, OnceInv, Holders, RequestInv, Reply, AfterFailedAppend, TypeOK
<1>6. ASSUME NEW c \in Clients, AppendFails(c) PROVE OnceInv'
  BY <1>6, <1>0, KeyAssumption DEF AppendFails, OnceInv, Holders, RequestInv, Reply, AfterFailedAppend, TypeOK
<1>7. ASSUME NEW c \in Clients, AppendReplyLost(c) PROVE OnceInv'
  BY <1>7, <1>0, KindsOfFault DEF AppendReplyLost, Fault, TypeOK
<1>8. ASSUME NEW c \in Clients, RollBack(c) PROVE OnceInv'
  BY <1>8, <1>0, KeyAssumption DEF RollBack, OnceInv, Holders, RequestInv, Reply, AfterFailedAppend, TypeOK
<1>9. ASSUME NEW c \in Clients, RollBackFails(c) PROVE OnceInv'
  BY <1>9, <1>0, KeyAssumption DEF RollBackFails, OnceInv, Holders, RequestInv, Reply, AfterFailedAppend, TypeOK
<1>10. ASSUME NEW c \in Clients, Cancel(c) PROVE OnceInv'
  BY <1>10, <1>0, KeyAssumption DEF Cancel, OnceInv, Holders, RequestInv, Reply, AfterFailedAppend, TypeOK
<1>11. ASSUME NEW c \in Clients, Crash(c) PROVE OnceInv'
  BY <1>11, <1>0, KeyAssumption DEF Crash, OnceInv, Holders, RequestInv, Reply, AfterFailedAppend, TypeOK
<1>12. ASSUME NEW k \in Keys, Expire(k) PROVE OnceInv'
  BY <1>12, <1>0, KindsOfFault DEF Expire, Fault, TypeOK
<1>13. CASE UNCHANGED vars
  BY <1>13, <1>0, KeyAssumption DEF vars, OnceInv, Holders, RequestInv, Reply, AfterFailedAppend, TypeOK
<1>14. ASSUME NEW c \in Clients, Accepted(c) PROVE OnceInv'
  BY <1>14, <1>0, KeyAssumption DEF Accepted, OnceInv, Holders, RequestInv, Reply, TypeOK
<1> QED
  BY <1>1, <1>2, <1>3, <1>4, <1>5, <1>6, <1>7, <1>8, <1>9, <1>10, <1>11, <1>12, <1>13, <1>14 DEF Next

(* Every step preserves the backing of reservations: a holder either appends *)
(* or, its context alive, rolls back.                                        *)
LEMMA NextBacked ==
  ASSUME TypeOK, RequestInv, ReservationIsBackedIfRolledBack, [Next]_vars
  PROVE  ReservationIsBackedIfRolledBack'
<1> SUFFICES ASSUME Without({"reserve", "rollback", "cancel", "crash"})'
             PROVE  ReservationIsBacked'
  BY DEF ReservationIsBackedIfRolledBack
<1>0. /\ ReservationIsBacked /\ gone = {}
      /\ faults'["reserve"] = 0 /\ faults'["rollback"] = 0
      /\ faults'["cancel"] = 0 /\ faults'["crash"] = 0
  BY FaultsGrow DEF Without, FaultKinds, RequestInv, ReservationIsBackedIfRolledBack
<1>1. ASSUME NEW c \in Clients, Send(c) PROVE ReservationIsBacked'
  BY <1>1, <1>0, KeyAssumption DEF Send, ReservationIsBacked, Holders, RequestInv, Reply, AfterFailedAppend, TypeOK
<1>2. ASSUME NEW c \in Clients, Reserve(c) PROVE ReservationIsBacked'
  BY <1>2, <1>0, KeyAssumption DEF Reserve, ReservationIsBacked, Holders, RequestInv, Reply, AfterFailedAppend, TypeOK
<1>3. ASSUME NEW c \in Clients, ReserveSeen(c) PROVE ReservationIsBacked'
  BY <1>3, <1>0, KeyAssumption DEF ReserveSeen, ReservationIsBacked, Holders, RequestInv, Reply, AfterFailedAppend, TypeOK
<1>4. ASSUME NEW c \in Clients, ReserveFails(c) PROVE ReservationIsBacked'
  BY <1>4, <1>0, KindsOfFault DEF ReserveFails, Fault, TypeOK
<1>5. ASSUME NEW c \in Clients, AppendOK(c) PROVE ReservationIsBacked'
  BY <1>5, <1>0, KeyAssumption DEF AppendOK, ReservationIsBacked, Holders, RequestInv, Reply, AfterFailedAppend, TypeOK
<1>6. ASSUME NEW c \in Clients, AppendFails(c) PROVE ReservationIsBacked'
  BY <1>6, <1>0, KeyAssumption DEF AppendFails, ReservationIsBacked, Holders, RequestInv, Reply, AfterFailedAppend, TypeOK
<1>7. ASSUME NEW c \in Clients, AppendReplyLost(c) PROVE ReservationIsBacked'
  BY <1>7, <1>0, KeyAssumption DEF AppendReplyLost, ReservationIsBacked, Holders, RequestInv, Reply, AfterFailedAppend, TypeOK
<1>8. ASSUME NEW c \in Clients, RollBack(c) PROVE ReservationIsBacked'
  BY <1>8, <1>0, KeyAssumption DEF RollBack, ReservationIsBacked, Holders, RequestInv, Reply, AfterFailedAppend, TypeOK
<1>9. ASSUME NEW c \in Clients, RollBackFails(c) PROVE ReservationIsBacked'
  BY <1>9, <1>0, KindsOfFault DEF RollBackFails, Fault, TypeOK
<1>10. ASSUME NEW c \in Clients, Cancel(c) PROVE ReservationIsBacked'
  BY <1>10, <1>0, KindsOfFault DEF Cancel, Fault, TypeOK
<1>11. ASSUME NEW c \in Clients, Crash(c) PROVE ReservationIsBacked'
  BY <1>11, <1>0, KindsOfFault DEF Crash, Fault, TypeOK
<1>12. ASSUME NEW k \in Keys, Expire(k) PROVE ReservationIsBacked'
  BY <1>12, <1>0, KeyAssumption DEF Expire, ReservationIsBacked, Holders, RequestInv, Reply, AfterFailedAppend, TypeOK
<1>13. CASE UNCHANGED vars
  BY <1>13, <1>0, KeyAssumption DEF vars, ReservationIsBacked, Holders, RequestInv, Reply, AfterFailedAppend, TypeOK
<1>14. ASSUME NEW c \in Clients, Accepted(c) PROVE ReservationIsBacked'
  BY <1>14, <1>0, KeyAssumption DEF Accepted, ReservationIsBacked, Holders, RequestInv, Reply, TypeOK
<1> QED
  BY <1>1, <1>2, <1>3, <1>4, <1>5, <1>6, <1>7, <1>8, <1>9, <1>10, <1>11, <1>12, <1>13, <1>14 DEF Next

(* Every step preserves what the answers rest on: accepted is said after the *)
(* append, duplicate with the key reserved, and a holder leaves its event in *)
(* the log.                                                                  *)
LEMMA NextAnswered ==
  ASSUME TypeOK, RequestInv, ReservationIsBackedIfRolledBack, AnsweredInv, [Next]_vars
  PROVE  AnsweredInv'
<1> SUFFICES ASSUME Without({"reserve", "append", "rollback", "cancel", "crash"})'
             PROVE  AnsweredInv'
  BY DEF AnsweredInv
<1>0. /\ Without({"reserve", "append", "rollback", "cancel", "crash"})
      /\ ReservationIsBacked /\ gone = {}
      /\ \A f \in {"reserve", "append", "rollback", "cancel", "crash"} : faults'[f] = 0
  BY FaultsGrow, KindsOfFault DEF Without, RequestInv, ReservationIsBackedIfRolledBack
<1>1. ASSUME NEW c \in Clients, Send(c) PROVE AnsweredInv'
  BY <1>1, <1>0, KeyAssumption DEF Send, AnsweredInv, Holders, Reply, AfterFailedAppend, TypeOK
<1>2. ASSUME NEW c \in Clients, Reserve(c) PROVE AnsweredInv'
  BY <1>2, <1>0, KeyAssumption DEF Reserve, AnsweredInv, Holders, Reply, AfterFailedAppend, TypeOK
<1>3. ASSUME NEW c \in Clients, ReserveSeen(c) PROVE AnsweredInv'
  BY <1>3, <1>0, KeyAssumption DEF ReserveSeen, AnsweredInv, ReservationIsBacked, Holders, Reply, TypeOK
<1>4. ASSUME NEW c \in Clients, ReserveFails(c) PROVE AnsweredInv'
  BY <1>4, <1>0, KindsOfFault DEF ReserveFails, Fault, TypeOK
<1>5. ASSUME NEW c \in Clients, AppendOK(c) PROVE AnsweredInv'
  <2>1. /\ pc' = [pc EXCEPT ![c] = "answer"] /\ answer' = answer
        /\ entries' = [entries EXCEPT ![KeyOf[c]] = entries[KeyOf[c]] + 1]
    BY <1>5 DEF AppendOK
  <2>2. \A d \in Clients : KeyOf[d] \in Keys \cup {NoKey} /\ entries[KeyOf[d]] \in Nat
    BY KeyAssumption DEF TypeOK
  <2>3. ASSUME NEW d \in Clients
        PROVE  /\ KeyOf[d] = KeyOf[c] => entries'[KeyOf[d]] > 0
               /\ KeyOf[d] # KeyOf[c] => entries'[KeyOf[d]] = entries[KeyOf[d]]
    BY <2>1, <2>2 DEF TypeOK
  <2>4. \A d \in Clients : d # c => pc'[d] = pc[d]
    BY <2>1 DEF TypeOK
  <2>5. ASSUME NEW d \in Clients, KeyOf[d] # KeyOf[c], Holders(KeyOf[d]) # {}
        PROVE  Holders(KeyOf[d])' # {}
    BY <2>4, <2>5 DEF Holders
  <2> SUFFICES ASSUME NEW d \in Clients, KeyOf[d] # NoKey
               PROVE  /\ pc'[d] \in {"answer", "rollback"} => entries'[KeyOf[d]] > 0
                      /\ answer'[d] \in {"accepted", "duplicate"} =>
                           entries'[KeyOf[d]] > 0 \/ Holders(KeyOf[d])' # {}
    BY DEF AnsweredInv
  <2>6. CASE KeyOf[d] = KeyOf[c]
    BY <2>3, <2>6
  <2>7. CASE KeyOf[d] # KeyOf[c]
    <3>1. d # c /\ entries'[KeyOf[d]] = entries[KeyOf[d]]
      BY <2>3, <2>7
    <3> QED
      BY <1>0, <2>1, <2>4, <2>5, <2>7, <3>1 DEF AnsweredInv
  <2> QED
    BY <2>6, <2>7
<1>6. ASSUME NEW c \in Clients, AppendFails(c) PROVE AnsweredInv'
  BY <1>6, <1>0, KindsOfFault DEF AppendFails, Fault, TypeOK
<1>7. ASSUME NEW c \in Clients, AppendReplyLost(c) PROVE AnsweredInv'
  BY <1>7, <1>0, KeyAssumption DEF AppendReplyLost, AnsweredInv, Holders, Reply, AfterFailedAppend, TypeOK
<1>8. ASSUME NEW c \in Clients, RollBack(c) PROVE AnsweredInv'
  BY <1>8, <1>0, KeyAssumption DEF RollBack, AnsweredInv, Holders, Reply, AfterFailedAppend, TypeOK
<1>9. ASSUME NEW c \in Clients, RollBackFails(c) PROVE AnsweredInv'
  BY <1>9, <1>0, KindsOfFault DEF RollBackFails, Fault, TypeOK
<1>10. ASSUME NEW c \in Clients, Cancel(c) PROVE AnsweredInv'
  BY <1>10, <1>0, KindsOfFault DEF Cancel, Fault, TypeOK
<1>11. ASSUME NEW c \in Clients, Crash(c) PROVE AnsweredInv'
  BY <1>11, <1>0, KindsOfFault DEF Crash, Fault, TypeOK
<1>12. ASSUME NEW k \in Keys, Expire(k) PROVE AnsweredInv'
  BY <1>12, <1>0 DEF Expire, AnsweredInv, Holders
<1>13. CASE UNCHANGED vars
  BY <1>13, <1>0 DEF vars, AnsweredInv, Holders
<1>14. ASSUME NEW c \in Clients, Accepted(c) PROVE AnsweredInv'
  BY <1>14, <1>0, KeyAssumption DEF Accepted, AnsweredInv, Holders, Reply, TypeOK
<1> QED
  BY <1>1, <1>2, <1>3, <1>4, <1>5, <1>6, <1>7, <1>8, <1>9, <1>10, <1>11, <1>12, <1>13, <1>14 DEF Next

LEMMA Inductive == Spec => []IInv
<1>1. Init => IInv
  BY KeyAssumption DEF Init, IInv, TypeOK, RequestInv, OnceInv, Holders,
                       ReservationIsBackedIfRolledBack, ReservationIsBacked, AnsweredInv
<1>2. IInv /\ [Next]_vars => IInv'
  BY NextType, NextRequest, NextOnce, NextBacked, NextAnswered DEF IInv
<1> QED
  BY <1>1, <1>2, PTL DEF Spec

(* An event is logged at most once, however its requests interleave, fail,  *)
(* are cancelled or crash, unless a reply of XADD is lost or a reservation  *)
(* expires.                                                                 *)
THEOREM EventsAreLoggedOnce == Spec => []LoggedOnce
<1>1. IInv => LoggedOnce
  BY DEF IInv, OnceInv, LoggedOnce
<1> QED
  BY <1>1, Inductive, PTL

(* A reservation outlives its request only if the event is in the log, as   *)
(* long as the rollback can reach Redis.                                    *)
THEOREM ReservationsAreBacked == Spec => []ReservationIsBackedIfRolledBack
<1>1. IInv => ReservationIsBackedIfRolledBack
  BY DEF IInv
<1> QED
  BY <1>1, Inductive, PTL

(* Unless a request that held the reservation failed to append, a client that *)
(* was told "accepted" or "duplicate" finds its event in the log as soon as no *)
(* request for it is running.                                                  *)
THEOREM AnswersAreTruthful == Spec => []AnswerIsTruthful
<1>1. IInv => AnswerIsTruthful
  BY DEF IInv, AnsweredInv, AnswerIsTruthful
<1> QED
  BY <1>1, Inductive, PTL

=============================================================================
