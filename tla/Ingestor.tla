------------------------------ MODULE Ingestor ------------------------------
(***************************************************************************)
(* The synchronous front of the write path (pkg/ingest/ingestor.go,        *)
(* pkg/ingest/dedup.go): a submit that carries an idempotency key reserves *)
(* the key with SET NX, appends to the log, and gives the reservation back *)
(* when the append fails.  Several requests for the same event run at      *)
(* once: retries of a client, on any process.  A client sends its request  *)
(* again as long as it has no answer or got an error.                      *)
(***************************************************************************)
EXTENDS Naturals

CONSTANTS
  Clients,     \* clients, each with one score event to submit
  Keys,        \* idempotency keys
  KeyOf,       \* the key of each client's event; clients may share one
  NoKey,       \* an event without a key
  MaxTries,    \* bound: requests a client sends
  MaxFaults    \* bound: how many faults of each kind happen

(* reserve: SET NX fails, done or not.   append: XADD fails and is not done.  *)
(* reply: XADD is done and its reply is lost.   rollback: the DEL fails.      *)
(* cancel: the request's context ends.   crash: the process dies.             *)
(* expire: the reservation's TTL (24 h) runs out.                             *)
FaultKinds == {"reserve", "append", "reply", "rollback", "cancel", "crash", "expire"}

ASSUME KeyAssumption    == KeyOf \in [Clients -> Keys \cup {NoKey}] /\ NoKey \notin Keys
ASSUME BoundsAssumption == MaxTries \in Nat /\ MaxFaults \in [FaultKinds -> Nat]

VARIABLES
  seen,      \* keys with a reservation in the deduper
  entries,   \* [Keys \cup {NoKey} -> Nat]: log entries appended with that key
  pc,        \* where the request of each client is
  gone,      \* clients whose request context has ended
  answer,    \* the last answer each client got
  tries,     \* requests each client has sent
  faults     \* faults so far, by kind

vars == <<seen, entries, pc, gone, answer, tries, faults>>

Init ==
  /\ seen    = {}
  /\ entries = [k \in Keys \cup {NoKey} |-> 0]
  /\ pc      = [c \in Clients |-> "idle"]
  /\ gone    = {}
  /\ answer  = [c \in Clients |-> "none"]
  /\ tries   = [c \in Clients |-> 0]
  /\ faults  = [f \in FaultKinds |-> 0]

Fault(f) ==
  /\ faults[f] < MaxFaults[f]
  /\ faults' = [faults EXCEPT ![f] = @ + 1]

\* The handler returns: the client sees the answer unless it has gone.
Reply(c, a) ==
  /\ pc'     = [pc EXCEPT ![c] = "idle"]
  /\ answer' = [answer EXCEPT ![c] = IF c \in gone THEN "none" ELSE a]
  /\ gone'   = gone \ {c}

\* The client sends its event, first or again.
Send(c) ==
  /\ pc[c] = "idle" /\ answer[c] \in {"none", "error"}
  /\ tries[c] < MaxTries
  /\ tries' = [tries EXCEPT ![c] = @ + 1]
  /\ pc'    = [pc EXCEPT ![c] = IF KeyOf[c] = NoKey THEN "append" ELSE "reserve"]
  /\ UNCHANGED <<seen, entries, gone, answer, faults>>

----------------------------------------------------------------------------
(* Ingestor.Submit.  A Redis call made under an ended context is not sent. *)

\* Faulty variant: GET then SET, two requests can both find the key new.
ReserveUnchecked(c) ==
  /\ pc[c] = "reserve" /\ c \notin gone
  /\ seen' = seen \cup {KeyOf[c]}
  /\ pc'   = [pc EXCEPT ![c] = "append"]
  /\ UNCHANGED <<entries, gone, answer, tries, faults>>

\* SeenOrMark: the key was new and is now reserved.
Reserve(c) ==
  /\ pc[c] = "reserve" /\ c \notin gone
  /\ KeyOf[c] \notin seen
  /\ seen' = seen \cup {KeyOf[c]}
  /\ pc'   = [pc EXCEPT ![c] = "append"]
  /\ UNCHANGED <<entries, gone, answer, tries, faults>>

\* SeenOrMark: the key is reserved already, "duplicate".
ReserveSeen(c) ==
  /\ pc[c] = "reserve" /\ c \notin gone
  /\ KeyOf[c] \in seen
  /\ Reply(c, "duplicate")
  /\ UNCHANGED <<seen, entries, tries, faults>>

\* SeenOrMark returns an error, and Redis has done the SET or has not.
ReserveFails(c) ==
  /\ pc[c] = "reserve"
  /\ \/ c \in gone /\ UNCHANGED <<seen, faults>>
     \/ c \notin gone /\ Fault("reserve") /\ seen' \in {seen, seen \cup {KeyOf[c]}}
  /\ Reply(c, "error")
  /\ UNCHANGED <<entries, tries>>

\* Faulty variant: accepted before the append.
AppendForgotten(c) ==
  /\ pc[c] = "append" /\ c \notin gone
  /\ pc' = [pc EXCEPT ![c] = "answer"]
  /\ UNCHANGED <<seen, entries, gone, answer, tries, faults>>

\* Append succeeds.
AppendOK(c) ==
  /\ pc[c] = "append" /\ c \notin gone
  /\ entries' = [entries EXCEPT ![KeyOf[c]] = @ + 1]
  /\ pc'      = [pc EXCEPT ![c] = "answer"]
  /\ UNCHANGED <<seen, gone, answer, tries, faults>>

\* handleSubmit answers "accepted", lost if the client or the process has gone
\* since the append: the client sends an event again that is in the log.
Accepted(c) ==
  /\ pc[c] = "answer"
  /\ Reply(c, "accepted")
  /\ UNCHANGED <<seen, entries, tries, faults>>

\* After a failed append: roll the reservation back if there is one.
AfterFailedAppend(c) ==
  IF KeyOf[c] = NoKey
  THEN Reply(c, "error")
  ELSE pc' = [pc EXCEPT ![c] = "rollback"] /\ UNCHANGED <<gone, answer>>

\* Append returns an error and the entry is not in the log.
AppendFails(c) ==
  /\ pc[c] = "append"
  /\ IF c \in gone THEN UNCHANGED faults ELSE Fault("append")
  /\ AfterFailedAppend(c)
  /\ UNCHANGED <<seen, entries, tries>>

\* Append returns an error although Redis has appended the entry.
AppendReplyLost(c) ==
  /\ pc[c] = "append" /\ c \notin gone
  /\ Fault("reply")
  /\ entries' = [entries EXCEPT ![KeyOf[c]] = @ + 1]
  /\ AfterFailedAppend(c)
  /\ UNCHANGED <<seen, tries>>

\* Faulty variant: the reservation is kept.
RollBackForgotten(c) ==
  /\ pc[c] = "rollback" /\ c \notin gone
  /\ Reply(c, "error")
  /\ UNCHANGED <<seen, entries, tries, faults>>

\* Unmark: the reservation is deleted, whoever made it.
RollBack(c) ==
  /\ pc[c] = "rollback" /\ c \notin gone
  /\ seen' = seen \ {KeyOf[c]}
  /\ Reply(c, "error")
  /\ UNCHANGED <<entries, tries, faults>>

\* Unmark fails, at once when the context has ended; its error is ignored.
RollBackFails(c) ==
  /\ pc[c] = "rollback"
  /\ IF c \in gone THEN UNCHANGED faults ELSE Fault("rollback")
  /\ Reply(c, "error")
  /\ UNCHANGED <<seen, entries, tries>>

----------------------------------------------------------------------------
(* Faults *)

\* The client disconnects or times out while its request is being served.
Cancel(c) ==
  /\ pc[c] # "idle" /\ c \notin gone
  /\ Fault("cancel")
  /\ gone' = gone \cup {c}
  /\ UNCHANGED <<seen, entries, pc, answer, tries>>

\* The process that serves the request dies.
Crash(c) ==
  /\ pc[c] # "idle"
  /\ Fault("crash")
  /\ pc'     = [pc EXCEPT ![c] = "idle"]
  /\ gone'   = gone \ {c}
  /\ UNCHANGED <<seen, entries, answer, tries>>

Expire(k) ==
  /\ k \in seen
  /\ Fault("expire")
  /\ seen' = seen \ {k}
  /\ UNCHANGED <<entries, pc, gone, answer, tries>>

Next ==
  \/ \E c \in Clients :
       \/ Send(c) \/ Reserve(c) \/ ReserveSeen(c) \/ ReserveFails(c)
       \/ AppendOK(c) \/ Accepted(c) \/ AppendFails(c) \/ AppendReplyLost(c)
       \/ RollBack(c) \/ RollBackFails(c)
       \/ Cancel(c) \/ Crash(c)
  \/ \E k \in Keys : Expire(k)

Spec == Init /\ [][Next]_vars

----------------------------------------------------------------------------
(* Properties *)

\* Every variable has its type.
TypeOK ==
  /\ seen \subseteq Keys
  /\ entries \in [Keys \cup {NoKey} -> Nat]
  /\ pc \in [Clients -> {"idle", "reserve", "append", "answer", "rollback"}]
  /\ gone \subseteq Clients
  /\ answer \in [Clients -> {"none", "accepted", "duplicate", "error"}]
  /\ tries \in [Clients -> Nat]
  /\ faults \in [FaultKinds -> Nat]

\* The requests that hold the reservation of k.
Holders(k) == {c \in Clients : KeyOf[c] = k /\ pc[c] \in {"append", "rollback"}}

Without(kinds) == \A f \in kinds : faults[f] = 0

\* An event is in the log at most once, however its requests interleave and
\* fail, as long as no reply of XADD was lost and no reservation expired
\* (dedup.go:11-13).
LoggedOnce ==
  Without({"reply", "expire"}) => \A k \in Keys : entries[k] <= 1

\* A key stays reserved only if its event is in the log or a request that will
\* append or roll back is still running ("Roll back the dedup reservation so a
\* retry can succeed", ingestor.go:46).
ReservationIsBacked ==
  \A k \in seen : entries[k] > 0 \/ Holders(k) # {}

\* What holds of it: the rollback reaches Redis whenever the context is alive
\* and neither SET NX nor DEL failed.
ReservationIsBackedIfRolledBack ==
  Without({"reserve", "rollback", "cancel", "crash"}) => ReservationIsBacked

\* A client that was told "accepted" or "duplicate" finds its event in the log
\* once no request for it is running, unless a request that held the
\* reservation failed to append: replies of XADD may be lost and reservations
\* may expire (server.go:484, "durably logged").
AnswerIsTruthful ==
  Without({"reserve", "append", "rollback", "cancel", "crash"}) =>
    \A c \in Clients :
      (/\ answer[c] \in {"accepted", "duplicate"} /\ KeyOf[c] # NoKey
       /\ Holders(KeyOf[c]) = {}) => entries[KeyOf[c]] > 0

=============================================================================
