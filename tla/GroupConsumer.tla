--------------------------- MODULE GroupConsumer ---------------------------
(***************************************************************************)
(* The durable write path of leaderboardd: API handlers append score       *)
(* events and removal tombstones to a partitioned Redis stream, and one    *)
(* GroupConsumer per process projects the partitions it owns into the      *)
(* sorted sets of the ranking engine (pkg/ingest, pkg/api/server.go,       *)
(* pkg/api/moderation.go, cmd/leaderboardd/main.go).                       *)
(*                                                                         *)
(* A node is one leaderboardd process: its HTTP handlers, its in-memory    *)
(* board registry and its consumer goroutine.  Redis holds the streams,    *)
(* the consumer group's delivery state, the applied markers, the board     *)
(* definitions and the sorted sets, and survives the crash of any node.    *)
(* Every Redis command is one atomic step; everything between two commands *)
(* of a goroutine is local to it.                                          *)
(***************************************************************************)
EXTENDS Integers, Sequences, FiniteSets

CONSTANTS
  NPartitions,    \* INGEST_PARTITIONS: number of streams
  WorkerCount,    \* WORKER_COUNT: nodes, each a static owner of partitions
  Batch,          \* GroupOptions.Batch: most entries per read or claim
  Boards,         \* logical boards
  InitialBoards,  \* boards defined before the nodes start
  Slices,         \* segment/window combinations of a board (physical boards)
  Members,        \* players
  Moderated,      \* players that moderation may remove
  Hash,           \* FNV-1a of (app, board, member) in partitionOf
  Scores,         \* stored (encoded) score values
  Submissions,    \* bodies of the submit requests that clients send
  PolicyOf,       \* update policy of each board
  OrderOf,        \* sort order of each board
  None,           \* no score (the member is not in the sorted set), no member
  MaxLog,         \* bound: entries per partition
  MaxFaults       \* bound: how many faults of each kind happen

FaultKinds == {"crash", "error", "expire", "cancel", "sync"}

ASSUME PartitionsAssumption == NPartitions \in Nat \ {0}
ASSUME WorkersAssumption    == WorkerCount \in Nat \ {0}
ASSUME BatchAssumption      == Batch \in Nat \ {0}
ASSUME BoardsAssumption     == InitialBoards \subseteq Boards
ASSUME MembersAssumption    == Moderated \subseteq Members
ASSUME HashAssumption       == Hash \in [Boards \X Members -> Nat]
ASSUME ScoresAssumption     == Scores \subseteq Int
ASSUME NoneAssumption       == None \notin Int
ASSUME PolicyAssumption     == PolicyOf \in [Boards -> {"best", "last", "increment"}]
ASSUME OrderAssumption      == OrderOf \in [Boards -> {"asc", "desc"}]
ASSUME BoundsAssumption     == MaxLog \in Nat /\ MaxFaults \in [FaultKinds -> Nat]

Partitions == 0 .. NPartitions - 1
Nodes      == 0 .. WorkerCount - 1

(***************************************************************************)
(* A log entry.  slices is the fan-out DerivePhysicalBoards computes from  *)
(* the entry's segments and the board's windows.  ok says whether the      *)
(* engine can encode the score and build the keys: the submit handler      *)
(* checks neither, SubmitBatch refuses the whole batch.                    *)
(***************************************************************************)
Submit    == [op : {"submit"}, board : Boards, member : Members, score : Scores,
              slices : SUBSET Slices, ok : BOOLEAN]
Tombstone == [op : {"remove"}, board : Boards, member : Members]
Record    == Submit \cup Tombstone

ASSUME SubmissionsAssumption ==
  Submissions \subseteq [board : Boards, member : Members, score : Scores,
                         slices : SUBSET Slices, ok : BOOLEAN]

VARIABLES
  (* Redis *)
  log,        \* [Partitions -> Seq(Record)]: the streams
  delivered,  \* [Partitions -> Nat]: last entry the group has delivered
  pending,    \* [Partitions -> SUBSET Nat]: delivered, not acknowledged
  idle,       \* [Partitions -> SUBSET Nat]: pending longer than ClaimMinIdle
  marked,     \* [Partitions -> SUBSET Nat]: entries with an applied marker
  board,      \* the sorted sets: score of each <<board, slice, member>>
  stored,     \* board definitions in the tenancy store
  (* per node *)
  registry,   \* boards the process can resolve (StaticRegistry)
  pc,         \* where the consumer goroutine is
  mode,       \* "step" or "reclaim": which of Run's two passes it is in
  todo,       \* partitions left in the current pass
  part,       \* partition of the batch in hand
  cursor,     \* XAUTOCLAIM start position, 0 once the scan is complete
  msgs,       \* entries of the batch in hand
  fresh,      \* the ones of them to apply and mark (newIDs)
  recs,       \* the ones of those not yet turned into engine commands
  ops,        \* engine commands <<entry, slice>> queued and not yet executed
  unread,     \* the ZADD <<entry, slice>> whose ZSCORE is next in the pipeline
  missing,    \* a ZSCORE of the pipeline has answered nil
  rm,         \* the removal request the node's API is serving
  (* history *)
  unseen,     \* [Partitions -> SUBSET Nat]: entries appended while the process
              \* that owns the partition was up and did not know their board
  faults      \* faults so far, by kind

redisVars  == <<log, delivered, pending, idle, marked, board, stored>>
replies    == <<unread, missing>>
workerVars == <<pc, mode, todo, part, cursor, msgs, fresh, recs, ops, replies>>
vars       == <<redisVars, registry, workerVars, rm, unseen, faults>>

----------------------------------------------------------------------------
(* Partitioning and ownership *)

PartitionOf(b, m) == Hash[<<b, m>>] % NPartitions

\* Faulty variant: one partition too many.
OwnedPartitionsOffByOne(w) == {p \in 0 .. NPartitions : p % WorkerCount = w}

OwnedPartitions(w) == {p \in Partitions : p % WorkerCount = w}

----------------------------------------------------------------------------
(* What the engine does with one score *)

Better(b, x, y) == IF OrderOf[b] = "asc" THEN x < y ELSE x > y

\* Faulty variants: ZADD without GT/LT; the policy is ignored.
CombineUnconditional(b, old, new) ==
  IF old = None \/ PolicyOf[b] # "increment" THEN new ELSE old + new
CombineAdds(b, old, new) == IF old = None THEN new ELSE old + new

\* ZADD GT/LT adds a new member and only improves an existing one, plain ZADD
\* overwrites, ZINCRBY adds to what is there.
Combine(b, old, new) ==
  IF old = None THEN new
  ELSE IF PolicyOf[b] = "increment" THEN old + new
  ELSE IF PolicyOf[b] = "last" \/ Better(b, new, old) THEN new ELSE old

\* Sorted sets of b that exist: Redis deletes a sorted set with its last member.
scanBoardKeys(b) == {s \in Slices : \E m \in Members : board[<<b, s, m>>] # None}

----------------------------------------------------------------------------
(* Node state *)

Removal == [member : Members, tombs : SUBSET Boards, scans : SUBSET Boards,
            keys : SUBSET (Boards \X Slices)]

NoRemoval == [member |-> None, tombs |-> {}, scans |-> {}, keys |-> {}]

\* A removal request is answered once nothing is left to do.
Finish(r) == IF r.tombs = {} /\ r.scans = {} /\ r.keys = {} THEN NoRemoval ELSE r

Up(n)    == pc[n] # "down"
Alive(n) == pc[n] \notin {"down", "stopped"}

\* The batch in hand is forgotten: what a goroutine loses when it returns.
DropBatch(w) ==
  /\ msgs'  = [msgs  EXCEPT ![w] = {}]
  /\ fresh' = [fresh EXCEPT ![w] = {}]
  /\ recs'  = [recs  EXCEPT ![w] = {}]
  /\ ops'   = [ops   EXCEPT ![w] = {}]
  /\ unread'  = [unread  EXCEPT ![w] = {}]
  /\ missing' = [missing EXCEPT ![w] = FALSE]

Init ==
  /\ log       = [p \in Partitions |-> << >>]
  /\ delivered = [p \in Partitions |-> 0]
  /\ pending   = [p \in Partitions |-> {}]
  /\ idle      = [p \in Partitions |-> {}]
  /\ marked    = [p \in Partitions |-> {}]
  /\ board     = [c \in Boards \X Slices \X Members |-> None]
  /\ stored    = InitialBoards
  /\ registry  = [n \in Nodes |-> InitialBoards]
  /\ pc        = [n \in Nodes |-> "poll"]
  /\ mode      = [n \in Nodes |-> "step"]
  /\ todo      = [n \in Nodes |-> OwnedPartitions(n)]
  /\ part      = [n \in Nodes |-> 0]
  /\ cursor    = [n \in Nodes |-> 1]
  /\ msgs      = [n \in Nodes |-> {}]
  /\ fresh     = [n \in Nodes |-> {}]
  /\ recs      = [n \in Nodes |-> {}]
  /\ ops       = [n \in Nodes |-> {}]
  /\ unread    = [n \in Nodes |-> {}]
  /\ missing   = [n \in Nodes |-> FALSE]
  /\ rm        = [n \in Nodes |-> NoRemoval]
  /\ unseen    = [p \in Partitions |-> {}]
  /\ faults    = [k \in FaultKinds |-> 0]

----------------------------------------------------------------------------
(* API handlers *)

\* The process that owns p is another one than n, up, and has not heard of b.
Unheard(n, p, b) ==
  \E w \in Nodes \ {n} : p \in OwnedPartitions(w) /\ Up(w) /\ b \notin registry[w]

\* Process n appends r to p.
Append1(n, p, r) ==
  /\ Len(log[p]) < MaxLog
  /\ log'    = [log EXCEPT ![p] = Append(@, r)]
  /\ unseen' = [unseen EXCEPT ![p] =
                  @ \cup {i \in {Len(log[p]) + 1} : Unheard(n, p, r.board)}]

\* POST /v1/boards: upsert the definition, then register it in this process.
HandleCreateBoard(n, b) ==
  /\ Up(n)
  /\ stored'   = stored \cup {b}
  /\ registry' = [registry EXCEPT ![n] = @ \cup {b}]
  /\ UNCHANGED <<log, delivered, pending, idle, marked, board, workerVars, rm,
                 unseen, faults>>

\* A read request: resolveBoard falls back to the store and registers.
ResolveBoard(n, b) ==
  /\ Up(n)
  /\ b \in stored \ registry[n]
  /\ registry' = [registry EXCEPT ![n] = @ \cup {b}]
  /\ UNCHANGED <<redisVars, workerVars, rm, unseen, faults>>

\* A submit: refused unless this process's registry knows the board, then
\* appended to the partition of (board, member).
HandleSubmit(n, r) ==
  /\ Up(n)
  /\ r.board \in registry[n]
  /\ Append1(n, PartitionOf(r.board, r.member),
             [op |-> "submit", board |-> r.board, member |-> r.member,
              score |-> r.score, slices |-> r.slices, ok |-> r.ok])
  /\ UNCHANGED <<delivered, pending, idle, marked, board, stored, registry,
                 workerVars, rm, faults>>

\* DELETE score: resolveBoard, then one tombstone, then the synchronous removal.
HandleRemoveScore(n, b, m) ==
  /\ Up(n)
  /\ rm[n] = NoRemoval
  /\ b \in registry[n] \cup stored
  /\ registry' = [registry EXCEPT ![n] = @ \cup {b}]
  /\ rm' = [rm EXCEPT ![n] = [member |-> m, tombs |-> {b}, scans |-> {b}, keys |-> {}]]
  /\ UNCHANGED <<redisVars, workerVars, unseen, faults>>

\* DELETE user: every stored board gets a tombstone, and only then the boards
\* are cleaned synchronously.  (The registration, deleted last, is in Users.)
HandleDeleteUser(n, m) ==
  /\ Up(n)
  /\ rm[n] = NoRemoval
  /\ rm' = [rm EXCEPT ![n] = Finish([member |-> m, tombs |-> stored,
                                     scans |-> stored, keys |-> {}])]
  /\ UNCHANGED <<redisVars, registry, workerVars, unseen, faults>>

\* One board of the request: it is registered, then Ingestor.Remove.
AppendTombstone(n, b) ==
  /\ b \in rm[n].tombs
  /\ registry' = [registry EXCEPT ![n] = @ \cup {b}]
  /\ Append1(n, PartitionOf(b, rm[n].member),
             [op |-> "remove", board |-> b, member |-> rm[n].member])
  /\ rm' = [rm EXCEPT ![n].tombs = @ \ {b}]
  /\ UNCHANGED <<delivered, pending, idle, marked, board, stored, workerVars,
                 faults>>

\* The SCAN of one board in the handler's own RemoveFromAll.
SyncScan(n, b) ==
  /\ rm[n].tombs = {} /\ rm[n].keys = {}
  /\ b \in rm[n].scans
  /\ rm' = [rm EXCEPT ![n] = Finish([rm[n] EXCEPT !.scans = @ \ {b},
                                                  !.keys  = {b} \X scanBoardKeys(b)])]
  /\ UNCHANGED <<redisVars, registry, workerVars, unseen, faults>>

\* The ZREM of one key found by that scan.
SyncRemove(n, k) ==
  /\ k \in rm[n].keys
  /\ board' = [board EXCEPT ![<<k[1], k[2], rm[n].member>>] = None]
  /\ rm' = [rm EXCEPT ![n] = Finish([rm[n] EXCEPT !.keys = @ \ {k}])]
  /\ UNCHANGED <<log, delivered, pending, idle, marked, stored, registry,
                 workerVars, unseen, faults>>

----------------------------------------------------------------------------
(* The consumer goroutine: Run alternates Step and, when the ticker has    *)
(* fired, Reclaim; both walk the owned partitions in increasing order.     *)

InPass(w, m) == pc[w] = "poll" /\ mode[w] = m

NextPartition(w, p) == p \in todo[w] /\ \A q \in todo[w] : p <= q

\* The first Batch entries of a set.
FirstBatch(S) == {i \in S : Cardinality({j \in S : j <= i}) <= Batch}

\* Run: Step is over and the ticker has not fired, start another Step.
RunStep(w) ==
  /\ InPass(w, "step") /\ todo[w] = {}
  /\ todo' = [todo EXCEPT ![w] = OwnedPartitions(w)]
  /\ UNCHANGED <<redisVars, registry, pc, mode, part, cursor, msgs, fresh, recs,
                 ops, replies, rm, unseen, faults>>

\* Run: Step is over and the ticker has fired, start a Reclaim.
RunReclaim(w) ==
  /\ InPass(w, "step") /\ todo[w] = {}
  /\ mode'   = [mode   EXCEPT ![w] = "reclaim"]
  /\ todo'   = [todo   EXCEPT ![w] = OwnedPartitions(w)]
  /\ cursor' = [cursor EXCEPT ![w] = 1]
  /\ UNCHANGED <<redisVars, registry, pc, part, msgs, fresh, recs, ops, replies,
                 rm, unseen, faults>>

\* Run: Reclaim is over, back to Step.
ReclaimDone(w) ==
  /\ InPass(w, "reclaim") /\ todo[w] = {}
  /\ mode' = [mode EXCEPT ![w] = "step"]
  /\ todo' = [todo EXCEPT ![w] = OwnedPartitions(w)]
  /\ UNCHANGED <<redisVars, registry, pc, part, cursor, msgs, fresh, recs, ops,
                 replies, rm, unseen, faults>>

\* Step: XREADGROUP > finds nothing new.
StepEmpty(w, p) ==
  /\ InPass(w, "step") /\ NextPartition(w, p)
  /\ delivered[p] = Len(log[p])
  /\ todo' = [todo EXCEPT ![w] = @ \ {p}]
  /\ UNCHANGED <<redisVars, registry, pc, mode, part, cursor, msgs, fresh, recs,
                 ops, replies, rm, unseen, faults>>

\* XREADGROUP > COUNT Batch: the entries after the last delivered one.
LastRead(p) ==
  IF delivered[p] + Batch <= Len(log[p]) THEN delivered[p] + Batch ELSE Len(log[p])

NextRead(p) == delivered[p] + 1 .. LastRead(p)

\* Faulty variant: a read with NOACK leaves nothing pending.
StepReadNoAck(w, p) ==
  /\ InPass(w, "step") /\ NextPartition(w, p)
  /\ delivered[p] < Len(log[p])
  /\ delivered' = [delivered EXCEPT ![p] = LastRead(p)]
  /\ msgs'      = [msgs EXCEPT ![w] = NextRead(p)]
  /\ part' = [part EXCEPT ![w] = p]
  /\ pc'   = [pc EXCEPT ![w] = "check"]
  /\ UNCHANGED <<log, pending, idle, marked, board, stored, registry, mode,
                 todo, cursor, fresh, recs, ops, replies, rm, unseen, faults>>

\* Step: XREADGROUP > delivers the next entries and makes them pending.
StepRead(w, p) ==
  /\ InPass(w, "step") /\ NextPartition(w, p)
  /\ delivered[p] < Len(log[p])
  /\ delivered' = [delivered EXCEPT ![p] = LastRead(p)]
  /\ pending'   = [pending EXCEPT ![p] = @ \cup NextRead(p)]
  /\ msgs'      = [msgs EXCEPT ![w] = NextRead(p)]
  /\ part' = [part EXCEPT ![w] = p]
  /\ pc'   = [pc EXCEPT ![w] = "check"]
  /\ UNCHANGED <<log, idle, marked, board, stored, registry, mode, todo, cursor,
                 fresh, recs, ops, replies, rm, unseen, faults>>

\* Faulty variant: the start position is taken as exclusive.
ClaimableExclusive(w, p) == {i \in idle[p] : i > cursor[w]}

Claimable(w, p) == {i \in idle[p] : i >= cursor[w]}

\* Reclaim: XAUTOCLAIM finds nothing idle from the cursor on.
ReclaimEmpty(w, p) ==
  /\ InPass(w, "reclaim") /\ NextPartition(w, p)
  /\ Claimable(w, p) = {}
  /\ todo'   = [todo   EXCEPT ![w] = @ \ {p}]
  /\ cursor' = [cursor EXCEPT ![w] = 1]
  /\ UNCHANGED <<redisVars, registry, pc, mode, part, msgs, fresh, recs, ops,
                 replies, rm, unseen, faults>>

\* XAUTOCLAIM's next cursor: the pending entry after the claimed ones when the
\* count stopped the scan, else 0 ("0-0").
IsNextCursor(p, claimed, c) ==
  LET after == {i \in pending[p] : \A j \in claimed : j < i}
  IN IF Cardinality(claimed) < Batch \/ after = {} THEN c = 0
     ELSE c \in after /\ \A i \in after : c <= i

\* Reclaim: XAUTOCLAIM takes over idle entries; a claim resets their idle time.
ReclaimClaim(w, p) ==
  /\ InPass(w, "reclaim") /\ NextPartition(w, p)
  /\ Claimable(w, p) # {}
  /\ LET claimed == FirstBatch(Claimable(w, p))
     IN /\ msgs'   = [msgs EXCEPT ![w] = claimed]
        /\ idle'   = [idle EXCEPT ![p] = @ \ claimed]
        /\ \E c \in pending[p] \cup {0} :
             IsNextCursor(p, claimed, c) /\ cursor' = [cursor EXCEPT ![w] = c]
  /\ part' = [part EXCEPT ![w] = p]
  /\ pc'   = [pc EXCEPT ![w] = "check"]
  /\ UNCHANGED <<log, delivered, pending, marked, board, stored, registry, mode,
                 todo, fresh, recs, ops, replies, rm, unseen, faults>>

\* apply, 1 and 2: the entries to apply are the ones without a marker whose
\* board this process can resolve.
\* (Faulty variant: the markers are not consulted.)
ToApplyUnchecked(w) == {i \in msgs[w] : log[part[w]][i].board \in registry[w]}

ToApply(w) == {i \in msgs[w] : /\ i \notin marked[part[w]]
                               /\ log[part[w]][i].board \in registry[w]}

\* Faulty variant: mark before apply.
CheckMarksFirst(w) ==
  /\ pc[w] = "check"
  /\ fresh'  = [fresh  EXCEPT ![w] = ToApply(w)]
  /\ recs'   = [recs   EXCEPT ![w] = ToApply(w)]
  /\ marked' = [marked EXCEPT ![part[w]] = @ \cup ToApply(w)]
  /\ pc'     = [pc     EXCEPT ![w] = "apply"]
  /\ UNCHANGED <<log, delivered, pending, idle, board, stored, registry, mode,
                 todo, part, cursor, msgs, ops, replies, rm, unseen, faults>>

Check(w) ==
  /\ pc[w] = "check"
  /\ fresh' = [fresh EXCEPT ![w] = ToApply(w)]
  /\ recs'  = [recs  EXCEPT ![w] = ToApply(w)]
  /\ pc'    = [pc    EXCEPT ![w] = "apply"]
  /\ UNCHANGED <<redisVars, registry, mode, todo, part, cursor, msgs, ops,
                 replies, rm, unseen, faults>>

Op(w, i) == log[part[w]][i].op

\* applyRecords: the submits before the first tombstone left in the batch.
NextSubmits(w) ==
  {i \in recs[w] : \A j \in recs[w] : j <= i => Op(w, j) = "submit"}

\* SubmitBatch: the pipeline is done and every ZSCORE in it found the member.
Answered(w) == ops[w] = {} /\ unread[w] = {} /\ ~ missing[w]

\* flush: SubmitBatch encodes every record, then pipelines one command per slice.
Flush(w) ==
  /\ pc[w] = "apply" /\ Answered(w)
  /\ NextSubmits(w) # {}
  /\ \A i \in NextSubmits(w) : log[part[w]][i].ok
  /\ ops'  = [ops EXCEPT ![w] =
                {o \in NextSubmits(w) \X Slices : o[2] \in log[part[w]][o[1]].slices}]
  /\ recs' = [recs EXCEPT ![w] = @ \ NextSubmits(w)]
  /\ UNCHANGED <<redisVars, registry, pc, mode, todo, part, cursor, msgs, fresh,
                 replies, rm, unseen, faults>>

\* flush: a record that the engine refuses, or a ZSCORE that found no member,
\* fails the batch; Run returns the error and main.go logs "group consumer
\* stopped".
FlushFails(w) ==
  /\ pc[w] = "apply" /\ ops[w] = {} /\ unread[w] = {}
  /\ missing[w] \/ \E i \in NextSubmits(w) : ~ log[part[w]][i].ok
  /\ pc' = [pc EXCEPT ![w] = "stopped"]
  /\ DropBatch(w)
  /\ UNCHANGED <<redisVars, registry, mode, todo, part, cursor, rm, unseen,
                 faults>>

\* Faulty variant: the consumer leaves removals to the API handler.
ScanTombstoneIgnored(w) ==
  /\ pc[w] = "apply" /\ Answered(w)
  /\ NextSubmits(w) = {}
  /\ \E i \in recs[w] :
       /\ \A j \in recs[w] : i <= j
       /\ recs' = [recs EXCEPT ![w] = @ \ {i}]
  /\ UNCHANGED <<redisVars, registry, pc, mode, todo, part, cursor, msgs, fresh,
                 ops, replies, rm, unseen, faults>>

\* A tombstone is first in the batch: RemoveFromAll scans the board's keys.
ScanTombstone(w) ==
  /\ pc[w] = "apply" /\ Answered(w)
  /\ NextSubmits(w) = {}
  /\ \E i \in recs[w] :
       /\ \A j \in recs[w] : i <= j
       /\ ops'  = [ops  EXCEPT ![w] = {i} \X scanBoardKeys(log[part[w]][i].board)]
       /\ recs' = [recs EXCEPT ![w] = @ \ {i}]
  /\ UNCHANGED <<redisVars, registry, pc, mode, todo, part, cursor, msgs, fresh,
                 replies, rm, unseen, faults>>

Cell(r, s) == <<r.board, s, r.member>>

\* queueSubmit: ZINCRBY answers with the score, a ZADD is followed by a ZSCORE.
ReadsBack(r) == r.op = "submit" /\ PolicyOf[r.board] # "increment"

\* Faulty variant: the commands of a batch run in no particular order.
ExecUnordered(w, i, s) ==
  /\ pc[w] = "apply"
  /\ unread[w] = {}
  /\ <<i, s>> \in ops[w]
  /\ LET r == log[part[w]][i]
     IN board' = [board EXCEPT ![Cell(r, s)] =
                    IF r.op = "remove" THEN None ELSE Combine(r.board, @, r.score)]
  /\ ops' = [ops EXCEPT ![w] = @ \ {<<i, s>>}]
  /\ unread' = [unread EXCEPT ![w] = {o \in {<<i, s>>} : ReadsBack(log[part[w]][i])}]
  /\ UNCHANGED <<log, delivered, pending, idle, marked, stored, registry, pc,
                 mode, todo, part, cursor, msgs, fresh, recs, missing, rm,
                 unseen, faults>>

\* One engine command: ZADD or ZINCRBY of a submit, ZREM of a tombstone.
Exec(w, i, s) ==
  /\ pc[w] = "apply"
  /\ unread[w] = {}
  /\ <<i, s>> \in ops[w]
  /\ \A o \in ops[w] : i <= o[1]
  /\ LET r == log[part[w]][i]
     IN board' = [board EXCEPT ![Cell(r, s)] =
                    IF r.op = "remove" THEN None ELSE Combine(r.board, @, r.score)]
  /\ ops' = [ops EXCEPT ![w] = @ \ {<<i, s>>}]
  /\ unread' = [unread EXCEPT ![w] = {o \in {<<i, s>>} : ReadsBack(log[part[w]][i])}]
  /\ UNCHANGED <<log, delivered, pending, idle, marked, stored, registry, pc,
                 mode, todo, part, cursor, msgs, fresh, recs, missing, rm,
                 unseen, faults>>

\* The ZSCORE after a ZADD: nil when a handler has removed the member between
\* the two.  The rest of the pipeline runs all the same.
ReadBack(w) ==
  /\ \E o \in unread[w] :
       missing' = [missing EXCEPT ![w] = @ \/ board[Cell(log[part[w]][o[1]], o[2])] = None]
  /\ unread' = [unread EXCEPT ![w] = {}]
  /\ UNCHANGED <<redisVars, registry, pc, mode, todo, part, cursor, msgs, fresh,
                 recs, ops, rm, unseen, faults>>

\* applyRecords has returned: the new entries are to be marked.
Applied(w) ==
  /\ pc[w] = "apply" /\ recs[w] = {} /\ Answered(w)
  /\ pc' = [pc EXCEPT ![w] = "mark"]
  /\ UNCHANGED <<redisVars, registry, mode, todo, part, cursor, msgs, fresh,
                 recs, ops, replies, rm, unseen, faults>>

\* One SET of the marker pipeline.
Mark(w, i) ==
  /\ pc[w] = "mark"
  /\ i \in fresh[w] /\ \A j \in fresh[w] : i <= j
  /\ marked' = [marked EXCEPT ![part[w]] = @ \cup {i}]
  /\ fresh'  = [fresh  EXCEPT ![w] = @ \ {i}]
  /\ UNCHANGED <<log, delivered, pending, idle, board, stored, registry, pc,
                 mode, todo, part, cursor, msgs, recs, ops, replies, rm, unseen,
                 faults>>

\* XACK of the whole batch, entries that were skipped included, and on to the
\* next partition, or to the next XAUTOCLAIM of this one.
Ack(w) ==
  /\ pc[w] = "mark" /\ fresh[w] = {}
  /\ pending' = [pending EXCEPT ![part[w]] = @ \ msgs[w]]
  /\ idle'    = [idle    EXCEPT ![part[w]] = @ \ msgs[w]]
  /\ msgs'    = [msgs    EXCEPT ![w] = {}]
  /\ pc'      = [pc      EXCEPT ![w] = "poll"]
  /\ IF mode[w] = "reclaim" /\ cursor[w] # 0
     THEN UNCHANGED <<todo, cursor>>
     ELSE /\ todo'   = [todo   EXCEPT ![w] = @ \ {part[w]}]
          /\ cursor' = [cursor EXCEPT ![w] = 1]
  /\ UNCHANGED <<log, delivered, marked, board, stored, registry, mode, part,
                 fresh, recs, ops, replies, rm, unseen, faults>>

----------------------------------------------------------------------------
(* Time and faults *)

\* ClaimMinIdle passes for every pending entry of a partition.
Age(p) ==
  /\ idle[p] # pending[p]
  /\ idle' = [idle EXCEPT ![p] = pending[p]]
  /\ UNCHANGED <<log, delivered, pending, marked, board, stored, registry,
                 workerVars, rm, unseen, faults>>

Fault(k) ==
  /\ faults[k] < MaxFaults[k]
  /\ faults' = [faults EXCEPT ![k] = @ + 1]

\* A Redis call of the consumer fails: Run returns, the goroutine ends and
\* nothing starts it again while the process lives.
RedisError(w) ==
  /\ Alive(w)
  /\ Fault("error")
  /\ pc' = [pc EXCEPT ![w] = "stopped"]
  /\ DropBatch(w)
  /\ UNCHANGED <<redisVars, registry, mode, todo, part, cursor, rm, unseen>>

\* The client goes away: the request context is cancelled and the handler
\* returns at its next Redis call.
CancelRequest(n) ==
  /\ rm[n] # NoRemoval
  /\ Fault("cancel")
  /\ rm' = [rm EXCEPT ![n] = NoRemoval]
  /\ UNCHANGED <<redisVars, registry, workerVars, unseen>>

\* The synchronous removal from one board fails: a deletion goes on with the
\* next board and leaves the rest of this one to the consumer.
SyncFails(n, b) ==
  /\ rm[n].tombs = {}
  /\ IF rm[n].keys = {} THEN b \in rm[n].scans ELSE \E s \in Slices : <<b, s>> \in rm[n].keys
  /\ Fault("sync")
  /\ rm' = [rm EXCEPT ![n] = Finish([rm[n] EXCEPT !.scans = @ \ {b}, !.keys = {}])]
  /\ UNCHANGED <<redisVars, registry, workerVars, unseen>>

\* AppliedTTL passes for a pending entry while its worker is not running.
ExpireMarker(p, i) ==
  /\ i \in marked[p] \cap pending[p]
  /\ \A w \in Nodes : p \in OwnedPartitions(w) => ~ Alive(w)
  /\ Fault("expire")
  /\ marked' = [marked EXCEPT ![p] = @ \ {i}]
  /\ UNCHANGED <<log, delivered, pending, idle, board, stored, registry,
                 workerVars, rm, unseen>>

Crash(n) ==
  /\ Up(n)
  /\ Fault("crash")
  /\ pc'       = [pc       EXCEPT ![n] = "down"]
  /\ registry' = [registry EXCEPT ![n] = {}]
  /\ rm'       = [rm       EXCEPT ![n] = NoRemoval]
  /\ DropBatch(n)
  /\ UNCHANGED <<redisVars, mode, todo, part, cursor, unseen>>

\* Faulty variant: the registry is not warmed.
RestartCold(n) ==
  /\ pc[n] = "down"
  /\ pc'       = [pc       EXCEPT ![n] = "poll"]
  /\ mode'     = [mode     EXCEPT ![n] = "step"]
  /\ todo'     = [todo     EXCEPT ![n] = OwnedPartitions(n)]
  /\ cursor'   = [cursor   EXCEPT ![n] = 1]
  /\ UNCHANGED <<redisVars, registry, part, msgs, fresh, recs, ops, replies, rm,
                 unseen, faults>>

\* The process starts: WarmRegistry, EnsureGroups, and Run's first Step.
Restart(n) ==
  /\ pc[n] = "down"
  /\ pc'       = [pc       EXCEPT ![n] = "poll"]
  /\ mode'     = [mode     EXCEPT ![n] = "step"]
  /\ todo'     = [todo     EXCEPT ![n] = OwnedPartitions(n)]
  /\ registry' = [registry EXCEPT ![n] = stored]
  /\ cursor'   = [cursor   EXCEPT ![n] = 1]
  /\ UNCHANGED <<redisVars, part, msgs, fresh, recs, ops, replies, rm, unseen,
                 faults>>

----------------------------------------------------------------------------
Api(n) ==
  \/ \E b \in Boards : \/ HandleCreateBoard(n, b)
                       \/ ResolveBoard(n, b)
                       \/ AppendTombstone(n, b)
                       \/ SyncScan(n, b)
  \/ \E b \in Boards, m \in Moderated : HandleRemoveScore(n, b, m)
  \/ \E m \in Moderated : HandleDeleteUser(n, m)
  \/ \E r \in Submissions : HandleSubmit(n, r)
  \/ \E k \in Boards \X Slices : SyncRemove(n, k)

Consume(w) ==
  \/ RunStep(w) \/ RunReclaim(w) \/ ReclaimDone(w)
  \/ \E p \in Partitions : \/ StepEmpty(w, p) \/ StepRead(w, p)
                           \/ ReclaimEmpty(w, p) \/ ReclaimClaim(w, p)
  \/ Check(w) \/ Flush(w) \/ FlushFails(w) \/ ScanTombstone(w)
  \/ \E i \in msgs[w], s \in Slices : Exec(w, i, s)
  \/ Applied(w)
  \/ \E i \in fresh[w] : Mark(w, i)
  \/ Ack(w)

Failure(n) ==
  \/ RedisError(n) \/ CancelRequest(n) \/ Crash(n)
  \/ \E b \in Boards : SyncFails(n, b)

Next ==
  \/ \E n \in Nodes : Api(n) \/ Consume(n) \/ ReadBack(n) \/ Failure(n) \/ Restart(n)
  \/ \E p \in Partitions : Age(p) \/ (\E i \in marked[p] : ExpireMarker(p, i))

Spec == Init /\ [][Next]_vars

(***************************************************************************)
(* Fairness: a running goroutine keeps making progress and its ticker      *)
(* keeps firing, time passes, and the container runtime restarts a process *)
(* that exited (restart: unless-stopped).  Nothing makes clients act.      *)
(***************************************************************************)
Fairness ==
  /\ \A n \in Nodes : /\ WF_vars(Consume(n) \/ ReadBack(n)) /\ SF_vars(RunReclaim(n))
                      /\ WF_vars(Restart(n))
  /\ \A p \in Partitions : WF_vars(Age(p))

FairSpec == Spec /\ Fairness

----------------------------------------------------------------------------
(* Properties *)

Streams   == [Partitions -> Seq(Record)]
EntrySets == [Partitions -> SUBSET Nat]
Rankings  == [Boards \X Slices \X Members -> Int \cup {None}]
HeldSets  == [Nodes -> SUBSET Nat]
Queues    == [Nodes -> SUBSET (Nat \X Slices)]
Passes    == [Nodes -> SUBSET Partitions]
Removals  == [Nodes -> Removal \cup {NoRemoval}]
Places    == [Nodes -> {"poll", "check", "apply", "mark", "stopped", "down"}]

\* Every variable has its type: entries are positions in their stream.
TypeOK ==
  /\ log \in Streams /\ delivered \in [Partitions -> Nat]
  /\ pending \in EntrySets /\ idle \in EntrySets /\ marked \in EntrySets
  /\ board \in Rankings
  /\ stored \in SUBSET Boards /\ registry \in [Nodes -> SUBSET Boards]
  /\ pc \in Places /\ mode \in [Nodes -> {"step", "reclaim"}]
  /\ todo \in Passes /\ part \in [Nodes -> Partitions] /\ cursor \in [Nodes -> Nat]
  /\ msgs \in HeldSets /\ fresh \in HeldSets /\ recs \in HeldSets
  /\ ops \in Queues /\ unread \in Queues /\ missing \in [Nodes -> BOOLEAN]
  /\ rm \in Removals /\ unseen \in EntrySets
  /\ faults \in [FaultKinds -> Nat]

Acked(p) == (1 .. delivered[p]) \ pending[p]

\* A worker that holds a batch holds pending entries of a partition it owns: no
\* other worker can apply, mark or acknowledge them meanwhile (group.go: XACK
\* after apply, OwnedPartitions).
BatchIsPending ==
  \A w \in Nodes : msgs[w] # {} =>
    /\ part[w] \in OwnedPartitions(w)
    /\ msgs[w] \subseteq pending[part[w]]
    /\ pending[part[w]] \subseteq 1 .. delivered[part[w]]

\* apply skips, and still acknowledges, an entry whose board its process cannot
\* resolve (group.go:143).  That happens only to entries that were accepted by
\* another process while the owner of their partition was up and had not heard of
\* the board; nothing else is acknowledged without having been applied, whatever
\* processes crash and are started again.
DropsAreUnseen == \A p \in Partitions : Acked(p) \ marked[p] \subseteq unseen[p]

HasTombstone(streams, b, m) ==
  \E p \in Partitions : \E i \in 1 .. Len(streams[p]) :
    LET r == streams[p][i] IN r.op = "remove" /\ r.board = b /\ r.member = m

Tombstoned(b, m) == HasTombstone(log, b, m)

\* board reflects a submit on a best-wins board: the member is ranked, with that
\* score or a better one.
Ranked(r, s) == /\ board[Cell(r, s)] # None
                /\ ~ Better(r.board, r.score, board[Cell(r, s)])

\* On a best-wins board, a marked submit is ranked in every slice of its fan-out,
\* whatever crashed, was redelivered or expired since, unless moderation has
\* removed the member (apply-before-mark, group.go:149).
MarkedScoreRanked ==
  \A p \in Partitions : \A i \in marked[p] :
    LET r == log[p][i]
    IN (r.op = "submit" /\ PolicyOf[r.board] = "best" /\ ~ Tombstoned(r.board, r.member))
         => \A s \in r.slices : Ranked(r, s)

\* A ranked score of a best- or last-wins board was submitted for that very
\* member, board and slice, and has been delivered to the consumer group.
ScoreHasSource ==
  \A c \in Boards \X Slices \X Members :
    (board[c] # None /\ PolicyOf[c[1]] # "increment") =>
      \E p \in Partitions : \E i \in 1 .. delivered[p] :
        LET r == log[p][i]
        IN r.op = "submit" /\ c[2] \in r.slices /\ Cell(r, c[2]) = c /\ r.score = board[c]

\* What applyRecords does to one cell, whose score is x, when it comes to entry r.
ReplayEntry(c, r, x) ==
  IF Cell(r, c[2]) # c THEN x
  ELSE IF r.op = "remove" THEN None
  ELSE IF c[2] \in r.slices THEN Combine(c[1], x, r.score) ELSE x

\* Consumer.Drain: a stream applied in order to an empty engine, as the score of
\* one cell after each of its entries.
Replay(entries, c) ==
  LET replay[i \in 0 .. Len(entries)] ==
        IF i = 0 THEN None ELSE ReplayEntry(c, entries[i], replay[i - 1])
  IN replay

\* Rebuild: the whole log replayed.
ReplayCell(b, s, m) ==
  LET entries == log[PartitionOf(b, m)] IN Replay(entries, <<b, s, m>>)[Len(entries)]

\* Every entry of the partition has been acknowledged, and none was dropped.
Settled(p) ==
  /\ delivered[p] = Len(log[p]) /\ pending[p] = {}
  /\ Acked(p) \subseteq marked[p]

\* Cells that no removal touches and whose partition is settled.
SettledCells(policy) ==
  {c \in Boards \X Slices \X Members :
     /\ PolicyOf[c[1]] = policy
     /\ ~ Tombstoned(c[1], c[3])
     /\ Settled(PartitionOf(c[1], c[3]))}

MatchesReplay(c) == board[c] = ReplayCell(c[1], c[2], c[3])

\* Best-wins boards are effectively exactly-once: once everything is
\* acknowledged the sorted set is what Rebuild would compute, however many
\* crashes, redeliveries and expired markers there were (group.go:18-21).
BestConverges == \A c \in SettledCells("best") : MatchesReplay(c)

FaultFree == faults["crash"] = 0 /\ faults["error"] = 0 /\ faults["expire"] = 0

\* Without faults, batching, slicing and the Step/Reclaim passes preserve the
\* per-member log order under every policy.
FaultFreeConverges ==
  FaultFree => \A policy \in {"best", "last", "increment"} :
                 \A c \in SettledCells(policy) : MatchesReplay(c)

\* Increment boards never lose an increment, and apply one at most once more
\* for each crash or failed call (the residual of group.go:22-23).
IncrementBounded ==
  \A c \in SettledCells("increment") :
    LET exact == ReplayCell(c[1], c[2], c[3])
    IN IF exact = None THEN board[c] = None
       ELSE /\ board[c] # None
            /\ exact <= board[c]
            /\ board[c] <= exact * (1 + faults["crash"] + faults["error"])

\* The score was submitted after the member's last removal from the board.
SubmittedSinceRemoval(c) ==
  LET entries == log[PartitionOf(c[1], c[3])]
      Of(i)   == entries[i].board = c[1] /\ entries[i].member = c[3]
  IN \E i \in 1 .. Len(entries) :
       /\ Of(i) /\ entries[i].op = "submit"
       /\ c[2] \in entries[i].slices /\ entries[i].score = board[c]
       /\ \A j \in i .. Len(entries) : Of(j) => entries[j].op = "submit"

\* A removed score is never permanently resurrected: once the partition is
\* settled, a ranked score was submitted after the last removal
\* (moderation.go:17-21, the claim as the comment states it).
NoResurrection ==
  \A c \in Boards \X Slices \X Members :
    (/\ board[c] # None /\ PolicyOf[c[1]] # "increment"
     /\ Settled(PartitionOf(c[1], c[3]))) => SubmittedSinceRemoval(c)

\* What the code does guarantee of that claim: it holds as long as no worker
\* failed with entries pending, for every interleaving of the consumer with the
\* handlers' synchronous removals, cancelled ones included.
FaultFreeNoResurrection == FaultFree => NoResurrection

\* An entry that has its applied marker never touches a board again.
MarkedNotReapplied ==
  [][\A w \in Nodes : \A o \in ops[w] :
       (o \notin ops'[w] /\ board' # board) => o[1] \notin marked[part[w]]]_vars

\* The consumer goroutine that owns the partition has ended, in a process that
\* goes on serving requests (main.go:139-143).
ConsumerStopped(p) == \E w \in Nodes : p \in OwnedPartitions(w) /\ pc[w] = "stopped"

\* An accepted entry is eventually acknowledged, through crashes, reclaims and
\* removals beside the consumer, unless the consumer of its partition stops and
\* nothing restarts its process ("the score is durably logged and will be ranked
\* shortly", server.go:484, has that exception).
AcceptedIsHandled ==
  \A p \in Partitions : \A i \in 1 .. MaxLog :
    (i <= Len(log[p])) ~> (i \in Acked(p) \/ []ConsumerStopped(p))

=============================================================================
