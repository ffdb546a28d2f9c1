------------------------------- MODULE Engine -------------------------------
(***************************************************************************)
(* The write side of the ranking engine (pkg/engine/redis_engine.go,       *)
(* score.go, histogram.go and the routing of sharded_engine.go) for one    *)
(* physical board with an approximate-rank histogram.                      *)
(*                                                                         *)
(* A board is a sorted set per shard; a member lives in the shard its hash *)
(* selects, so the shards are one function from members to stored scores.  *)
(* A submit is two pipelines (ZSCORE ZADD ZSCORE, then HINCRBYs), a        *)
(* removal is ZSCORE ZREM, then HINCRBY.  A pipeline is not a transaction: *)
(* commands of other clients run between its commands.  Submits of one     *)
(* member come from one consumer and follow each other; removals come from *)
(* the consumer and from the moderation handlers, several at a time.       *)
(***************************************************************************)
EXTENDS Integers, FiniteSets

CONSTANTS
  Members,       \* member ids; their order is the lexical order of the ids
  NShards,       \* BOARD_SHARDS, 1 for the plain RedisEngine
  ShardOf,       \* FNV-1a of the member modulo NShards
  Configs,       \* the board configurations considered, one of them per behaviour
  ScoreBits,     \* high bits of a composite that hold the primary score
  MantissaBits,  \* width of a composite: 53, the integers a float64 holds exactly
  ApproxMin, ApproxMax, ApproxBuckets,   \* the histogram's range and bins
  None,          \* not in the sorted set
  Removers,      \* callers of Remove: moderation handlers, and the consumer
  Events,        \* <<score, seconds since Epoch>> pairs that are submitted
  MaxOps,        \* bound: submits and removals started
  MaxCrashes     \* bound: operations cut off by a crash

\* What BoardConfig.Validate accepts.
ValidConfigs ==
  {c \in [SortOrder    : {"asc", "desc"},
          UpdatePolicy : {"best", "last", "increment"},
          TieBreak     : {"lexical", "firstToReach"}] :
     c.UpdatePolicy = "increment" => c.TieBreak = "lexical"}

ASSUME MembersAssumption == Members \subseteq Int /\ IsFiniteSet(Members)
ASSUME ShardAssumption   == NShards \in Nat \ {0} /\ ShardOf \in [Members -> 0 .. NShards - 1]
ASSUME ConfigAssumption  ==
  /\ Configs \subseteq ValidConfigs
  /\ ScoreBits \in Nat /\ MantissaBits \in Nat /\ ScoreBits \in 1 .. MantissaBits - 1
  /\ ApproxMin \in Int /\ ApproxMax \in Int /\ ApproxMax > ApproxMin
  /\ ApproxBuckets \in Nat \ {0}
ASSUME EventsAssumption  == Events \subseteq Int \X Int
ASSUME BoundsAssumption  == None \notin Int /\ MaxOps \in Nat /\ MaxCrashes \in Nat

Shards  == 0 .. NShards - 1
Buckets == 0 .. ApproxBuckets - 1

VARIABLES
  config,    \* the board's configuration, which no operation changes
  z,         \* [Members -> Int \cup {None}]: stored scores
  h,         \* [Shards -> [Buckets -> Int]]: the histograms
  sub,       \* the submit of each member in progress
  rem,       \* the removals of each member in progress, by caller
  owed,      \* submits cut off or failed, which the log will redeliver
  ops,       \* operations started
  crashes,   \* operations cut off
  serial,    \* no removal has run during a submit of the same member
  sent       \* history: events of each member written since its last removal

Asc          == config.SortOrder = "asc"
UpdatePolicy == config.UpdatePolicy
TieBreak     == config.TieBreak

vars == <<config, z, h, sub, rem, owed, ops, crashes, serial, sent>>

----------------------------------------------------------------------------
(* Score codec *)

timeBits   == MantissaBits - ScoreBits
maxPrimary == 2^ScoreBits - 1
maxTime    == 2^timeBits - 1

\* Arithmetic: a power of two is a positive integer.
ASSUME PowerAssumption   == 2^timeBits \in Nat \ {0} /\ 2^ScoreBits \in Nat \ {0}

\* What encode accepts.
Encodable(score, t) ==
  TieBreak = "firstToReach" =>
    /\ score >= 0 /\ score <= maxPrimary
    /\ t >= 0 /\ t <= maxTime

\* Faulty variant: the time is not inverted on descending boards.
encodeNotInverted(score, t) ==
  IF TieBreak # "firstToReach" THEN score ELSE score * 2^timeBits + t

\* The stored value: the score, or the score above the (inverted) time.
encode(score, t) ==
  IF TieBreak # "firstToReach" THEN score
  ELSE score * 2^timeBits + (IF Asc THEN t ELSE maxTime - t)

decode(stored) == IF TieBreak # "firstToReach" THEN stored ELSE stored \div 2^timeBits

----------------------------------------------------------------------------
(* Histogram buckets *)

bucketIndex(score) ==
  IF score <= ApproxMin THEN 0
  ELSE IF score >= ApproxMax THEN ApproxBuckets - 1
  ELSE ((score - ApproxMin) * ApproxBuckets) \div (ApproxMax - ApproxMin)

\* HINCRBY of the bucket of a primary score in the member's shard.
QueueDelta(m, score, delta) ==
  h' = [h EXCEPT ![ShardOf[m]][bucketIndex(score)] = @ + delta]

----------------------------------------------------------------------------
Better(x, y) == IF Asc THEN x < y ELSE x > y

\* What the queued ZADD or ZINCRBY makes of the stored value.
Combine(old, new) ==
  IF old = None THEN new
  ELSE IF UpdatePolicy = "increment" THEN old + new
  ELSE IF UpdatePolicy = "last" \/ Better(new, old) THEN new ELSE old

NoSubmit  == [at |-> "idle", event |-> None, pre |-> None, post |-> None]
NoRemoval == [at |-> "idle", score |-> None]

\* Nobody is removing the member.
Unremoved(m) == \A a \in Removers : rem[m][a].at = "idle"

Init ==
  /\ config \in Configs
  /\ z       = [m \in Members |-> None]
  /\ h       = [i \in Shards |-> [b \in Buckets |-> 0]]
  /\ sub     = [m \in Members |-> NoSubmit]
  /\ rem     = [m \in Members |-> [a \in Removers |-> NoRemoval]]
  /\ owed    = [m \in Members |-> {}]
  /\ ops     = 0
  /\ crashes = 0
  /\ serial  = TRUE
  /\ sent    = [m \in Members |-> {}]

Start == ops < MaxOps /\ ops' = ops + 1

----------------------------------------------------------------------------
(* SubmitBatch: one op of it.  Ops of one batch follow each other.         *)

\* The op is encoded and queued; one that cannot be is refused, nothing sent.
Submit(m, e) ==
  /\ sub[m].at = "idle"
  /\ Start
  /\ Encodable(e[1], e[2])
  /\ sub'    = [sub EXCEPT ![m] = [at |-> "pre", event |-> e, pre |-> None, post |-> None]]
  /\ serial' = (serial /\ Unremoved(m))
  /\ UNCHANGED <<config, z, h, rem, owed, crashes, sent>>

\* The log entry of a submit that was cut off or failed is delivered again.
Resubmit(m, e) ==
  /\ sub[m].at = "idle" /\ e \in owed[m]
  /\ owed'   = [owed EXCEPT ![m] = @ \ {e}]
  /\ sub'    = [sub EXCEPT ![m] = [at |-> "pre", event |-> e, pre |-> None, post |-> None]]
  /\ serial' = (serial /\ Unremoved(m))
  /\ UNCHANGED <<config, z, h, rem, ops, crashes, sent>>

\* ZSCORE: the value before the write.
ReadPre(m) ==
  /\ sub[m].at = "pre"
  /\ sub' = [sub EXCEPT ![m].pre = z[m], ![m].at = "write"]
  /\ UNCHANGED <<config, z, h, rem, owed, ops, crashes, serial, sent>>

\* ZADD, or ZINCRBY which also returns the new value.
Write(m) ==
  /\ sub[m].at = "write"
  /\ LET e   == sub[m].event
         new == Combine(z[m], encode(e[1], e[2]))
     IN /\ z'   = [z EXCEPT ![m] = new]
        /\ sub' = IF UpdatePolicy = "increment"
                  THEN [sub EXCEPT ![m].post = new, ![m].at = "uncount"]
                  ELSE [sub EXCEPT ![m].at = "post"]
        /\ sent' = [sent EXCEPT ![m] = @ \cup {e}]
  /\ UNCHANGED <<config, h, rem, owed, ops, crashes, serial>>

\* ZSCORE: the authoritative value after the write.
ReadPost(m) ==
  /\ sub[m].at = "post" /\ z[m] # None
  /\ sub' = [sub EXCEPT ![m].post = z[m], ![m].at = "uncount"]
  /\ UNCHANGED <<config, z, h, rem, owed, ops, crashes, serial, sent>>

\* The ZSCORE finds nothing, a removal came first: redis.Nil is returned as the
\* batch's error, its histograms are not maintained and its entry stays pending.
ReadPostNil(m) ==
  /\ sub[m].at = "post" /\ z[m] = None
  /\ owed' = [owed EXCEPT ![m] = @ \cup {sub[m].event}]
  /\ sub'  = [sub EXCEPT ![m] = NoSubmit]
  /\ UNCHANGED <<config, z, h, rem, ops, crashes, serial, sent>>

\* maintainHistograms finds nothing to move.
Unmoved(m) ==
  /\ sub[m].at = "uncount"
  /\ sub[m].pre # None /\ decode(sub[m].pre) = decode(sub[m].post)
  /\ sub' = [sub EXCEPT ![m] = NoSubmit]
  /\ UNCHANGED <<config, z, h, rem, owed, ops, crashes, serial, sent>>

\* The follow-up pipeline: -1 in the old bucket unless the member is new ...
UncountOld(m) ==
  /\ sub[m].at = "uncount"
  /\ IF sub[m].pre = None THEN UNCHANGED h
     ELSE /\ decode(sub[m].pre) # decode(sub[m].post)
          /\ QueueDelta(m, decode(sub[m].pre), -1)
  /\ sub' = [sub EXCEPT ![m].at = "count"]
  /\ UNCHANGED <<config, z, rem, owed, ops, crashes, serial, sent>>

\* ... and +1 in the new one.
CountNew(m) ==
  /\ sub[m].at = "count"
  /\ QueueDelta(m, decode(sub[m].post), 1)
  /\ sub' = [sub EXCEPT ![m] = NoSubmit]
  /\ UNCHANGED <<config, z, rem, owed, ops, crashes, serial, sent>>

----------------------------------------------------------------------------
(* Remove *)

Remove(m, a) ==
  /\ rem[m][a].at = "idle"
  /\ Start
  /\ rem'    = [rem EXCEPT ![m][a].at = "read"]
  /\ serial' = (serial /\ sub[m].at = "idle")
  /\ UNCHANGED <<config, z, h, sub, owed, crashes, sent>>

\* ZSCORE: the value about to be removed.
RemoveRead(m, a) ==
  /\ rem[m][a].at = "read"
  /\ rem' = [rem EXCEPT ![m][a] = [at |-> "zrem", score |-> z[m]]]
  /\ UNCHANGED <<config, z, h, sub, owed, ops, crashes, serial, sent>>

\* Faulty variant: how many members ZREM removed is not looked at.
AbsentUnlessRead(m, a) == rem[m][a].score = None

\* redis.Nil of the ZSCORE, or removed == 0: another removal may have come between.
Absent(m, a) == rem[m][a].score = None \/ z[m] = None

\* ZREM: the bucket is decremented only if the member was there for both commands.
ZRem(m, a) ==
  /\ rem[m][a].at = "zrem"
  /\ z'    = [z EXCEPT ![m] = None]
  /\ sent' = [sent EXCEPT ![m] = {}]
  /\ rem'  = IF Absent(m, a) THEN [rem EXCEPT ![m][a] = NoRemoval]
                             ELSE [rem EXCEPT ![m][a].at = "uncount"]
  /\ UNCHANGED <<config, h, sub, owed, ops, crashes, serial>>

RemoveUncount(m, a) ==
  /\ rem[m][a].at = "uncount"
  /\ QueueDelta(m, decode(rem[m][a].score), -1)
  /\ rem' = [rem EXCEPT ![m][a] = NoRemoval]
  /\ UNCHANGED <<config, z, sub, owed, ops, crashes, serial, sent>>

----------------------------------------------------------------------------
\* The process dies, or loses Redis, in the middle of an operation.
Crash(m) ==
  /\ crashes < MaxCrashes
  /\ crashes' = crashes + 1
  /\ \/ /\ sub[m].at # "idle"
        /\ sub'  = [sub EXCEPT ![m] = NoSubmit]
        /\ owed' = [owed EXCEPT ![m] = @ \cup {sub[m].event}]
        /\ UNCHANGED rem
     \/ /\ \E a \in Removers : /\ rem[m][a].at # "idle"
                              /\ rem' = [rem EXCEPT ![m][a] = NoRemoval]
        /\ UNCHANGED <<sub, owed>>
  /\ UNCHANGED <<config, z, h, ops, serial, sent>>

Next ==
  \E m \in Members :
    \/ \E e \in Events : Submit(m, e) \/ Resubmit(m, e)
    \/ ReadPre(m) \/ Write(m) \/ ReadPost(m) \/ ReadPostNil(m)
    \/ Unmoved(m) \/ UncountOld(m) \/ CountNew(m)
    \/ \E a \in Removers : Remove(m, a) \/ RemoveRead(m, a) \/ ZRem(m, a) \/ RemoveUncount(m, a)
    \/ Crash(m)

Spec == Init /\ [][Next]_vars

----------------------------------------------------------------------------
(* Properties *)

Stored  == Int \cup {None}
Removal == [at : {"idle", "read", "zrem", "uncount"}, score : Stored]

\* Every variable has its type.
TypeOK ==
  /\ config \in Configs
  /\ z \in [Members -> Stored]
  /\ h \in [Shards -> [Buckets -> Int]]
  /\ sub \in [Members -> [at : {"idle", "pre", "write", "post", "uncount", "count"},
                          event : Events \cup {None}, pre : Stored, post : Stored]]
  /\ rem \in [Members -> [Removers -> Removal]]
  /\ owed \in [Members -> SUBSET Events]
  /\ ops \in Nat /\ crashes \in Nat
  /\ serial \in BOOLEAN
  /\ sent \in [Members -> SUBSET Events]

Quiet == \A m \in Members : sub[m].at = "idle" /\ Unremoved(m) /\ owed[m] = {}

\* The ranked members of a shard whose score falls in a bucket.
Population(i, b) == {m \in Members : /\ ShardOf[m] = i /\ z[m] # None
                                     /\ bucketIndex(decode(z[m])) = b}
HistogramExact == \A i \in Shards, b \in Buckets : h[i][b] = Cardinality(Population(i, b))

\* If removals and submits of a member never overlapped (removals may overlap each
\* other: a moderator's and the consumer's), then, once nothing is in
\* progress or waits for redelivery, a bucket is off by at most the number of
\* operations that were cut off, and exact if none was ("Accuracy assumes
\* per-member writes are serialized", redis_engine.go:132-135).  Operations of
\* other members interleave freely.
HistogramDriftBounded ==
  (Quiet /\ serial) =>
    \A i \in Shards, b \in Buckets :
      LET exact == Cardinality(Population(i, b))
      IN h[i][b] \in exact - crashes .. exact + crashes

----------------------------------------------------------------------------
(* The ranking that firstToReach promises, from the events alone.          *)

BestScore(m) == CHOOSE s \in {e[1] : e \in sent[m]} :
                  \A e \in sent[m] : ~ Better(e[1], s)
FirstTime(m) == CHOOSE t \in {e[2] : e \in {f \in sent[m] : f[1] = BestScore(m)}} :
                  \A e \in sent[m] : e[1] = BestScore(m) => t <= e[2]

\* Faulty variant: ties always by ascending member.
lessInOrderLexical(m, n) ==
  IF z[m] # z[n] THEN Better(z[m], z[n]) ELSE m < n

\* Who ranks first of two members.
lessInOrder(m, n) ==
  IF z[m] # z[n] THEN Better(z[m], z[n]) ELSE Better(m, n)

\* A best-wins firstToReach board ranks members by their best score, and equal
\* scores by who reached them first, whatever the order of arrival
\* (board.go:42-43: "ranks the earlier achiever first among equal scores").
FirstToReachOrder ==
  (TieBreak = "firstToReach" /\ UpdatePolicy = "best") =>
    \A m, n \in {k \in Members : z[k] # None} :
      BestScore(m) # BestScore(n) \/ FirstTime(m) # FirstTime(n) =>
        (lessInOrder(m, n) <=> \/ Better(BestScore(m), BestScore(n))
                               \/ /\ BestScore(m) = BestScore(n)
                                  /\ FirstTime(m) < FirstTime(n))
=============================================================================
