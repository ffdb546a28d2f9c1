----------------------- MODULE GroupConsumerProofs -----------------------
(***************************************************************************)
(* Machine-checked proofs about GroupConsumer, for every number of nodes,  *)
(* partitions, boards, slices and members, every batch size, and every     *)
(* bound on the log and on the faults.                                     *)
(***************************************************************************)
EXTENDS GroupConsumer, TLAPS, WellFoundedInduction

(* A ZSCORE of the consumer only touches the replies of its own pipeline; every *)
(* other step is one of CoreNext.                                               *)
coreVars == <<redisVars, registry, pc, mode, todo, part, cursor, msgs, fresh, recs, ops,
              rm, unseen, faults>>

CoreNext ==
  \/ \E n \in Nodes : Api(n) \/ Consume(n) \/ Failure(n) \/ Restart(n)
  \/ \E p \in Partitions : Age(p) \/ (\E i \in marked[p] : ExpireMarker(p, i))

LEMMA StepIsCore ==
  ASSUME [Next]_vars
  PROVE  [CoreNext]_coreVars
BY DEF Next, CoreNext, ReadBack, vars, coreVars, redisVars, workerVars

(* The types of the variables that CoreNext's steps are about. *)
CoreType ==
  /\ log \in Streams /\ delivered \in [Partitions -> Nat]
  /\ pending \in EntrySets /\ idle \in EntrySets /\ marked \in EntrySets
  /\ board \in Rankings
  /\ stored \in SUBSET Boards /\ registry \in [Nodes -> SUBSET Boards]
  /\ pc \in Places /\ mode \in [Nodes -> {"step", "reclaim"}]
  /\ todo \in Passes /\ part \in [Nodes -> Partitions] /\ cursor \in [Nodes -> Nat]
  /\ msgs \in HeldSets /\ fresh \in HeldSets /\ recs \in HeldSets
  /\ ops \in Queues
  /\ rm \in Removals
  /\ faults \in [FaultKinds -> Nat]

(* A worker only walks and holds partitions that it owns. *)
OwnedInv ==
  \A w \in Nodes : /\ todo[w] \subseteq OwnedPartitions(w)
                   /\ msgs[w] # {} => part[w] \in OwnedPartitions(w)

(* The consumer group's state is about entries that exist. *)
PelInv ==
  \A p \in Partitions :
    /\ delivered[p] <= Len(log[p])
    /\ pending[p] \subseteq 1 .. delivered[p]
    /\ idle[p] \subseteq pending[p]
    /\ marked[p] \subseteq 1 .. delivered[p]

(* The batch in hand, at each point of apply. *)
BatchInv ==
  \A w \in Nodes :
    /\ msgs[w] \subseteq pending[part[w]]
    /\ fresh[w] \subseteq msgs[w]
    /\ recs[w] \subseteq fresh[w]
    /\ \A o \in ops[w] : o[1] \in fresh[w] \ recs[w]
    /\ pc[w] \in {"poll", "stopped", "down"} => msgs[w] = {}
    /\ pc[w] = "check" => fresh[w] = {}
    /\ pc[w] = "mark" => recs[w] = {} /\ ops[w] = {}

(* A removal request deletes members only where it has left a tombstone. *)
RemovalInv ==
  \A n \in Nodes :
    /\ \A b \in rm[n].scans : b \in rm[n].tombs \/ Tombstoned(b, rm[n].member)
    /\ \A k \in rm[n].keys : Tombstoned(k[1], rm[n].member)

(* A submit that must stay ranked, given the streams; a submit that is ranked, *)
(* given the sorted sets.                                                      *)
Binding(streams, r) ==
  r.op = "submit" /\ PolicyOf[r.board] = "best" /\ ~ HasTombstone(streams, r.board, r.member)

RankedIn(sets, r, s) ==
  sets[Cell(r, s)] # None /\ ~ Better(r.board, r.score, sets[Cell(r, s)])

(* The part of a batch that has been turned into commands is ranked, but for *)
(* the commands still queued.                                                *)
AppliedInv ==
  \A w \in Nodes : \A i \in fresh[w] \ recs[w] :
    LET r == log[part[w]][i]
    IN Binding(log, r) =>
         \A s \in r.slices : <<i, s>> \in ops[w] \/ RankedIn(board, r, s)

(* MarkedScoreRanked in these terms. *)
MarkedInv ==
  \A p \in Partitions : \A i \in marked[p] :
    Binding(log, log[p][i]) => \A s \in log[p][i].slices : RankedIn(board, log[p][i], s)

DeliveryInv == OwnedInv /\ PelInv /\ BatchInv
RankInv     == RemovalInv /\ AppliedInv /\ MarkedInv
IInv        == TypeOK /\ DeliveryInv /\ RankInv

----------------------------------------------------------------------------
(* Every entry of (board, member) goes to one partition that exists. *)
LEMMA PartitionOfType ==
  ASSUME NEW b \in Boards, NEW m \in Members
  PROVE  PartitionOf(b, m) \in Partitions
<1>1. Hash[<<b, m>>] \in Nat
  BY HashAssumption
<1> QED
  BY <1>1, PartitionsAssumption DEF PartitionOf, Partitions

(* OwnedPartitions assigns every partition to exactly one worker. *)
THEOREM OwnershipPartitions ==
  /\ \A p \in Partitions : \E w \in Nodes : p \in OwnedPartitions(w)
  /\ \A v, w \in Nodes : v # w => OwnedPartitions(v) \cap OwnedPartitions(w) = {}
<1>1. ASSUME NEW p \in Partitions
      PROVE  \E w \in Nodes : p \in OwnedPartitions(w)
  <2>1. p % WorkerCount \in Nodes
    BY PartitionsAssumption, WorkersAssumption DEF Partitions, Nodes
  <2> QED
    BY <2>1 DEF OwnedPartitions
<1>2. ASSUME NEW v \in Nodes, NEW w \in Nodes, v # w
      PROVE  OwnedPartitions(v) \cap OwnedPartitions(w) = {}
  BY <1>2 DEF OwnedPartitions
<1> QED
  BY <1>1, <1>2

(* What the engine stores is a score. *)
LEMMA CombineType ==
  ASSUME NEW b \in Boards, NEW old \in Int \cup {None}, NEW new \in Int
  PROVE  Combine(b, old, new) \in Int
BY DEF Combine

(* On a best-wins board a cell that is at least as good as a score stays so. *)
LEMMA CombineBest ==
  ASSUME NEW b \in Boards, PolicyOf[b] = "best",
         NEW old \in Int \cup {None}, NEW new \in Int, NEW x \in Int
  PROVE  /\ ~ Better(b, new, Combine(b, old, new))
         /\ (old # None /\ ~ Better(b, x, old)) => ~ Better(b, x, Combine(b, old, new))
BY NoneAssumption, OrderAssumption DEF Combine, Better

LEMMA OwnedType == \A w : OwnedPartitions(w) \subseteq Partitions
BY DEF OwnedPartitions

LEMMA FinishType == \A r \in Removal : Finish(r) \in Removal \cup {NoRemoval}
BY DEF Finish

(* A worker holds entries that are in the stream it is working on. *)
LEMMA EntryInLog ==
  ASSUME TypeOK, PelInv, BatchInv, NEW w \in Nodes, NEW i \in msgs[w]
  PROVE  /\ part[w] \in Partitions
         /\ i \in 1 .. Len(log[part[w]])
         /\ log[part[w]][i] \in Record
<1>1. part[w] \in Partitions
  BY DEF TypeOK
<1>2. i \in 1 .. delivered[part[w]] /\ delivered[part[w]] <= Len(log[part[w]])
  BY <1>1 DEF PelInv, BatchInv
<1>3. log[part[w]] \in Seq(Record) /\ delivered[part[w]] \in Nat
  BY <1>1 DEF TypeOK, Streams
<1> QED
  BY <1>1, <1>2, <1>3

LEMMA InitType == Init => TypeOK
<1> SUFFICES ASSUME Init PROVE TypeOK
  OBVIOUS
<1>1. 0 \in Partitions
  BY PartitionsAssumption DEF Partitions
<1>2. log \in Streams
  BY DEF Init, Streams
<1>3. board \in Rankings
  BY DEF Init, Rankings
<1> QED
  BY <1>1, <1>2, <1>3, OwnedType, BoardsAssumption
  DEF Init, TypeOK, EntrySets, HeldSets, Queues, Passes, Places, Removals

(* Every step preserves the types. *)
LEMMA NextCoreType ==
  ASSUME TypeOK, PelInv, BatchInv, [CoreNext]_coreVars
  PROVE  CoreType'
<1>1. ASSUME NEW n \in Nodes, NEW b \in Boards, HandleCreateBoard(n, b)
      PROVE  CoreType'
  BY <1>1 DEF HandleCreateBoard, TypeOK, CoreType, workerVars
<1>2. ASSUME NEW n \in Nodes, NEW b \in Boards, ResolveBoard(n, b)
      PROVE  CoreType'
  BY <1>2 DEF ResolveBoard, TypeOK, CoreType, redisVars, workerVars
<1>3. ASSUME NEW n \in Nodes, NEW r \in Submissions, HandleSubmit(n, r)
      PROVE  CoreType'
  <2>1. PartitionOf(r.board, r.member) \in Partitions
    BY SubmissionsAssumption, PartitionOfType
  <2>2. [op |-> "submit", board |-> r.board, member |-> r.member, score |-> r.score,
         slices |-> r.slices, ok |-> r.ok] \in Record
    BY SubmissionsAssumption DEF Record, Submit
  <2> QED
    BY <1>3, <2>1, <2>2 DEF HandleSubmit, Append1, TypeOK, CoreType, Streams, workerVars
<1>4. ASSUME NEW n \in Nodes, NEW b \in Boards, NEW m \in Moderated,
             HandleRemoveScore(n, b, m)
      PROVE  CoreType'
  BY <1>4, MembersAssumption DEF HandleRemoveScore, TypeOK, CoreType, Removals, Removal, redisVars, workerVars
<1>5. ASSUME NEW n \in Nodes, NEW m \in Moderated, HandleDeleteUser(n, m)
      PROVE  CoreType'
  BY <1>5, MembersAssumption DEF HandleDeleteUser, TypeOK, CoreType, Removals, Removal, Finish, redisVars, workerVars
<1>6. ASSUME NEW n \in Nodes, NEW b \in Boards, AppendTombstone(n, b)
      PROVE  CoreType'
  <2>1. rm[n] \in Removal /\ rm[n].member \in Members
    BY <1>6 DEF AppendTombstone, TypeOK, CoreType, Removals, Removal, NoRemoval
  <2>2. PartitionOf(b, rm[n].member) \in Partitions
    BY <2>1, PartitionOfType
  <2>3. [op |-> "remove", board |-> b, member |-> rm[n].member] \in Record
    BY <2>1 DEF Record, Tombstone
  <2>4. log' \in Streams
    BY <1>6, <2>2, <2>3 DEF AppendTombstone, Append1, TypeOK, CoreType, Streams
  <2>5. rm' \in Removals
    BY <1>6, <2>1 DEF AppendTombstone, TypeOK, CoreType, Removals, Removal
  <2> QED
    BY <1>6, <2>4, <2>5 DEF AppendTombstone, TypeOK, CoreType, workerVars
<1>7. ASSUME NEW n \in Nodes, NEW b \in Boards, SyncScan(n, b)
      PROVE  CoreType'
  <2> DEFINE r == [rm[n] EXCEPT !.scans = @ \ {b}, !.keys = {b} \X scanBoardKeys(b)]
  <2>1. rm[n] \in Removal
    BY <1>7 DEF SyncScan, TypeOK, CoreType, Removals, NoRemoval
  <2>2. r \in Removal
    BY <2>1 DEF Removal, scanBoardKeys
  <2>3. rm' = [rm EXCEPT ![n] = Finish(r)]
    BY <1>7 DEF SyncScan
  <2> HIDE DEF r
  <2>4. rm' \in Removals
    BY <2>2, <2>3, FinishType DEF TypeOK, CoreType, Removals
  <2> QED
    BY <1>7, <2>4 DEF SyncScan, TypeOK, CoreType, redisVars, workerVars
<1>8. ASSUME NEW n \in Nodes, NEW k \in Boards \X Slices, SyncRemove(n, k)
      PROVE  CoreType'
  <2> DEFINE r == [rm[n] EXCEPT !.keys = @ \ {k}]
  <2>1. rm[n] \in Removal
    BY <1>8 DEF SyncRemove, TypeOK, CoreType, Removals, NoRemoval
  <2>2. r \in Removal
    BY <2>1 DEF Removal
  <2>3. rm' = [rm EXCEPT ![n] = Finish(r)]
    BY <1>8 DEF SyncRemove
  <2> HIDE DEF r
  <2>4. rm' \in Removals
    BY <2>2, <2>3, FinishType DEF TypeOK, CoreType, Removals
  <2>5. board' \in Rankings
    BY <1>8, <2>1 DEF SyncRemove, TypeOK, CoreType, Rankings, Removal
  <2> QED
    BY <1>8, <2>4, <2>5 DEF SyncRemove, TypeOK, CoreType, workerVars
<1>9. ASSUME NEW w \in Nodes, RunStep(w)
      PROVE  CoreType'
  BY <1>9, OwnedType DEF RunStep, TypeOK, CoreType, Passes, redisVars
<1>10. ASSUME NEW w \in Nodes, RunReclaim(w)
      PROVE  CoreType'
  BY <1>10, OwnedType DEF RunReclaim, TypeOK, CoreType, Passes, redisVars
<1>11. ASSUME NEW w \in Nodes, ReclaimDone(w)
      PROVE  CoreType'
  BY <1>11, OwnedType DEF ReclaimDone, TypeOK, CoreType, Passes, redisVars
<1>12. ASSUME NEW w \in Nodes, NEW p \in Partitions, StepEmpty(w, p)
      PROVE  CoreType'
  BY <1>12 DEF StepEmpty, TypeOK, CoreType, Passes, redisVars
<1>13. ASSUME NEW w \in Nodes, NEW p \in Partitions, StepRead(w, p)
      PROVE  CoreType'
  <2>1. LastRead(p) \in Nat /\ NextRead(p) \subseteq Nat
    BY BatchAssumption DEF LastRead, NextRead, TypeOK, CoreType, Streams
  <2> QED
    BY <1>13, <2>1 DEF StepRead, TypeOK, CoreType, EntrySets, HeldSets, Places
<1>14. ASSUME NEW w \in Nodes, NEW p \in Partitions, ReclaimEmpty(w, p)
      PROVE  CoreType'
  BY <1>14 DEF ReclaimEmpty, TypeOK, CoreType, Passes, redisVars
<1>15. ASSUME NEW w \in Nodes, NEW p \in Partitions, ReclaimClaim(w, p)
      PROVE  CoreType'
  <2>1. FirstBatch(Claimable(w, p)) \subseteq Nat
    BY DEF FirstBatch, Claimable, TypeOK, CoreType, EntrySets
  <2>2. cursor' \in [Nodes -> Nat]
    BY <1>15 DEF ReclaimClaim, TypeOK, CoreType, EntrySets
  <2> QED
    BY <1>15, <2>1, <2>2 DEF ReclaimClaim, TypeOK, CoreType, EntrySets, HeldSets, Places
<1>16. ASSUME NEW w \in Nodes, Check(w)
      PROVE  CoreType'
  <2>1. ToApply(w) \subseteq Nat
    BY DEF ToApply, TypeOK, CoreType, HeldSets
  <2> QED
    BY <1>16, <2>1 DEF Check, TypeOK, CoreType, HeldSets, Places, redisVars
<1>17. ASSUME NEW w \in Nodes, Flush(w)
      PROVE  CoreType'
  <2>1. NextSubmits(w) \subseteq Nat
    BY DEF NextSubmits, TypeOK, CoreType, HeldSets
  <2> QED
    BY <1>17, <2>1 DEF Flush, TypeOK, CoreType, HeldSets, Queues, redisVars
<1>18. ASSUME NEW w \in Nodes, FlushFails(w)
      PROVE  CoreType'
  BY <1>18 DEF FlushFails, TypeOK, CoreType, DropBatch, HeldSets, Queues, Places, redisVars
<1>19. ASSUME NEW w \in Nodes, ScanTombstone(w)
      PROVE  CoreType'
  <2>1. PICK i \in recs[w] :
          /\ ops'  = [ops  EXCEPT ![w] = {i} \X scanBoardKeys(log[part[w]][i].board)]
          /\ recs' = [recs EXCEPT ![w] = @ \ {i}]
    BY <1>19 DEF ScanTombstone
  <2>2. i \in Nat /\ scanBoardKeys(log[part[w]][i].board) \subseteq Slices
    BY DEF scanBoardKeys, TypeOK, CoreType, HeldSets
  <2> QED
    BY <1>19, <2>1, <2>2 DEF ScanTombstone, TypeOK, CoreType, HeldSets, Queues, redisVars
<1>20. ASSUME NEW w \in Nodes, NEW i \in msgs[w], NEW s \in Slices,
             Exec(w, i, s)
      PROVE  CoreType'
  <2> DEFINE r == log[part[w]][i]
  <2>1. r \in Record
    BY EntryInLog
  <2>2. Cell(r, s) \in Boards \X Slices \X Members
    BY <2>1 DEF Record, Submit, Tombstone, Cell
  <2>3. r.op # "remove" => Combine(r.board, board[Cell(r, s)], r.score) \in Int
    BY <2>1, <2>2, CombineType, ScoresAssumption
    DEF Record, Submit, Tombstone, TypeOK, CoreType, Rankings
  <2>4. board' \in Rankings
    BY <1>20, <2>2, <2>3 DEF Exec, TypeOK, CoreType, Rankings
  <2> QED
    BY <1>20, <2>4 DEF Exec, TypeOK, CoreType, Queues
<1>21. ASSUME NEW w \in Nodes, Applied(w)
      PROVE  CoreType'
  BY <1>21 DEF Applied, TypeOK, CoreType, Places, redisVars
<1>22. ASSUME NEW w \in Nodes, NEW i \in fresh[w], Mark(w, i)
      PROVE  CoreType'
  BY <1>22 DEF Mark, TypeOK, CoreType, EntrySets, HeldSets
<1>23. ASSUME NEW w \in Nodes, Ack(w)
      PROVE  CoreType'
  <2>1. todo' \in Passes /\ cursor' \in [Nodes -> Nat]
    BY <1>23 DEF Ack, TypeOK, CoreType, Passes
  <2> QED
    BY <1>23, <2>1 DEF Ack, TypeOK, CoreType, EntrySets, HeldSets, Places
<1>24. ASSUME NEW p \in Partitions, Age(p)
      PROVE  CoreType'
  BY <1>24 DEF Age, TypeOK, CoreType, EntrySets, workerVars
<1>25. ASSUME NEW w \in Nodes, RedisError(w)
      PROVE  CoreType'
  <2>1. faults' \in [FaultKinds -> Nat]
    BY <1>25 DEF RedisError, Fault, FaultKinds, TypeOK, CoreType
  <2> QED
    BY <1>25, <2>1 DEF RedisError, TypeOK, CoreType, DropBatch, HeldSets, Queues, Places, redisVars
<1>26. ASSUME NEW n \in Nodes, CancelRequest(n)
      PROVE  CoreType'
  <2>1. faults' \in [FaultKinds -> Nat]
    BY <1>26 DEF CancelRequest, Fault, FaultKinds, TypeOK, CoreType
  <2> QED
    BY <1>26, <2>1 DEF CancelRequest, TypeOK, CoreType, Removals, redisVars, workerVars
<1>27. ASSUME NEW p \in Partitions, NEW i \in marked[p], ExpireMarker(p, i)
      PROVE  CoreType'
  <2>1. faults' \in [FaultKinds -> Nat]
    BY <1>27 DEF ExpireMarker, Fault, FaultKinds, TypeOK, CoreType
  <2> QED
    BY <1>27, <2>1 DEF ExpireMarker, TypeOK, CoreType, EntrySets, workerVars
<1>28. ASSUME NEW n \in Nodes, Crash(n)
      PROVE  CoreType'
  <2>1. faults' \in [FaultKinds -> Nat]
    BY <1>28 DEF Crash, Fault, FaultKinds, TypeOK, CoreType
  <2> QED
    BY <1>28, <2>1 DEF Crash, TypeOK, CoreType, DropBatch, HeldSets, Queues, Places, Removals, redisVars
<1>29. ASSUME NEW n \in Nodes, Restart(n)
      PROVE  CoreType'
  BY <1>29, OwnedType DEF Restart, TypeOK, CoreType, Places, Passes, redisVars
<1>30. CASE UNCHANGED coreVars
  BY <1>30 DEF coreVars, redisVars, TypeOK, CoreType
<1>31. ASSUME NEW n \in Nodes, NEW b \in Boards, SyncFails(n, b)
      PROVE  CoreType'
  <2> DEFINE r == [rm[n] EXCEPT !.scans = @ \ {b}, !.keys = {}]
  <2>1. rm[n] \in Removal
    BY <1>31 DEF SyncFails, TypeOK, CoreType, Removals, NoRemoval
  <2>2. r \in Removal
    BY <2>1 DEF Removal
  <2>3. rm' = [rm EXCEPT ![n] = Finish(r)]
    BY <1>31 DEF SyncFails
  <2> HIDE DEF r
  <2>4. rm' \in Removals
    BY <2>2, <2>3, FinishType DEF TypeOK, CoreType, Removals
  <2>5. faults' \in [FaultKinds -> Nat]
    BY <1>31 DEF SyncFails, Fault, FaultKinds, TypeOK, CoreType
  <2> QED
    BY <1>31, <2>4, <2>5 DEF SyncFails, TypeOK, CoreType, redisVars, workerVars
<1> QED
  BY <1>1, <1>2, <1>3, <1>4, <1>5, <1>6, <1>7, <1>8, <1>9, <1>10, <1>11, <1>12, <1>13, <1>14, <1>15, <1>16, <1>17, <1>18, <1>19, <1>20, <1>21, <1>22, <1>23, <1>24, <1>25, <1>26, <1>27, <1>28, <1>29, <1>30, <1>31 DEF CoreNext, Api, Consume, Failure

(* The replies of a pipeline are reset with the batch, set by a ZADD and read by *)
(* its ZSCORE; only an append adds to the entries the owner had not heard of.    *)
LEMMA NextReplies ==
  ASSUME TypeOK, PelInv, BatchInv, [Next]_vars
  PROVE  unread' \in Queues /\ missing' \in [Nodes -> BOOLEAN] /\ unseen' \in EntrySets
<1> DEFINE Typed == unread' \in Queues /\ missing' \in [Nodes -> BOOLEAN] /\ unseen' \in EntrySets
<1>0. unread \in Queues /\ missing \in [Nodes -> BOOLEAN] /\ unseen \in EntrySets
  BY DEF TypeOK
<1>1. CASE UNCHANGED <<replies, unseen>>
  BY <1>0, <1>1 DEF replies
<1>2. ASSUME NEW w \in Nodes, DropBatch(w), UNCHANGED unseen PROVE Typed
  BY <1>0, <1>2 DEF DropBatch, Queues
<1>3. ASSUME NEW n \in Nodes, NEW p, NEW r, Append1(n, p, r), UNCHANGED replies PROVE Typed
  <2>1. \A q \in Partitions : unseen'[q] \subseteq unseen[q] \cup {Len(log[q]) + 1}
    BY <1>0, <1>3 DEF Append1, EntrySets
  <2>2. \A q \in Partitions : Len(log[q]) + 1 \in Nat
    BY DEF TypeOK, Streams
  <2>3. \A q \in Partitions : unseen'[q] \subseteq Nat
    BY <1>0, <2>1, <2>2 DEF EntrySets
  <2> QED
    BY <1>0, <1>3, <2>3 DEF Append1, EntrySets, replies
<1>4. ASSUME NEW w \in Nodes, NEW i \in msgs[w], NEW t \in Slices, Exec(w, i, t) PROVE Typed
  <2>1. i \in Nat
    BY DEF TypeOK, HeldSets
  <2>2. {o \in {<<i, t>>} : ReadsBack(log[part[w]][i])} \in SUBSET (Nat \X Slices)
    BY <2>1
  <2> QED
    BY <1>0, <1>4, <2>2 DEF Exec, Queues
<1>5. ASSUME NEW w \in Nodes, ReadBack(w) PROVE Typed
  BY <1>0, <1>5 DEF ReadBack, Queues
<1>6. ASSUME NEW n \in Nodes, Api(n) PROVE Typed
  BY <1>1, <1>3, <1>6 DEF Api, HandleCreateBoard, ResolveBoard, HandleSubmit, HandleRemoveScore,
              HandleDeleteUser, AppendTombstone, SyncScan, SyncRemove, workerVars
<1>7. ASSUME NEW w \in Nodes, Consume(w) PROVE Typed
  BY <1>1, <1>2, <1>4, <1>7 DEF Consume, RunStep, RunReclaim, ReclaimDone, StepEmpty, StepRead,
              ReclaimEmpty, ReclaimClaim, Check, Flush, FlushFails, ScanTombstone,
              Applied, Mark, Ack
<1>8. ASSUME NEW n \in Nodes, Failure(n) \/ Restart(n) PROVE Typed
  BY <1>1, <1>2, <1>8 DEF Failure, RedisError, CancelRequest, SyncFails, Crash, Restart, workerVars
<1>9. ASSUME NEW p \in Partitions, Age(p) \/ \E i \in marked[p] : ExpireMarker(p, i)
      PROVE  Typed
  BY <1>1, <1>9 DEF Age, ExpireMarker, workerVars
<1>10. CASE UNCHANGED vars
  BY <1>1, <1>10 DEF vars, workerVars
<1> QED
  BY <1>5, <1>6, <1>7, <1>8, <1>9, <1>10 DEF Next

LEMMA NextType ==
  ASSUME TypeOK, PelInv, BatchInv, [Next]_vars
  PROVE  TypeOK'
<1>1. CoreType'
  BY StepIsCore, NextCoreType
<1> QED
  BY <1>1, NextReplies DEF CoreType, TypeOK

(* Before the first step nothing is delivered and nothing is held. *)
LEMMA InitDelivery == Init => DeliveryInv
BY DEF Init, DeliveryInv, OwnedInv, PelInv, BatchInv

(* Every step preserves the delivery invariant. *)
LEMMA NextDelivery ==
  ASSUME TypeOK, DeliveryInv, [CoreNext]_coreVars
  PROVE  DeliveryInv'
<1>1. ASSUME NEW n \in Nodes, NEW b \in Boards, HandleCreateBoard(n, b)
      PROVE  DeliveryInv'
  BY <1>1
  DEF HandleCreateBoard, DeliveryInv, OwnedInv, PelInv, BatchInv, workerVars
<1>2. ASSUME NEW n \in Nodes, NEW b \in Boards, ResolveBoard(n, b)
      PROVE  DeliveryInv'
  BY <1>2
  DEF ResolveBoard, DeliveryInv, OwnedInv, PelInv, BatchInv, redisVars, workerVars
<1>3. ASSUME NEW n \in Nodes, NEW r \in Submissions, HandleSubmit(n, r)
      PROVE  DeliveryInv'
  BY <1>3
  DEF HandleSubmit, DeliveryInv, OwnedInv, PelInv, BatchInv, Append1, TypeOK, Streams, workerVars
<1>4. ASSUME NEW n \in Nodes, NEW b \in Boards, NEW m \in Moderated,
             HandleRemoveScore(n, b, m)
      PROVE  DeliveryInv'
  BY <1>4
  DEF HandleRemoveScore, DeliveryInv, OwnedInv, PelInv, BatchInv, redisVars, workerVars
<1>5. ASSUME NEW n \in Nodes, NEW m \in Moderated, HandleDeleteUser(n, m)
      PROVE  DeliveryInv'
  BY <1>5
  DEF HandleDeleteUser, DeliveryInv, OwnedInv, PelInv, BatchInv, redisVars, workerVars
<1>6. ASSUME NEW n \in Nodes, NEW b \in Boards, AppendTombstone(n, b)
      PROVE  DeliveryInv'
  BY <1>6
  DEF AppendTombstone, DeliveryInv, OwnedInv, PelInv, BatchInv, Append1, TypeOK, Streams, workerVars
<1>7. ASSUME NEW n \in Nodes, NEW b \in Boards, SyncScan(n, b)
      PROVE  DeliveryInv'
  BY <1>7
  DEF SyncScan, DeliveryInv, OwnedInv, PelInv, BatchInv, redisVars, workerVars
<1>8. ASSUME NEW n \in Nodes, NEW k \in Boards \X Slices, SyncRemove(n, k)
      PROVE  DeliveryInv'
  BY <1>8
  DEF SyncRemove, DeliveryInv, OwnedInv, PelInv, BatchInv, workerVars
<1>9. ASSUME NEW w \in Nodes, RunStep(w)
      PROVE  DeliveryInv'
  BY <1>9
  DEF RunStep, DeliveryInv, OwnedInv, PelInv, BatchInv, TypeOK, Passes, redisVars
<1>10. ASSUME NEW w \in Nodes, RunReclaim(w)
      PROVE  DeliveryInv'
  BY <1>10
  DEF RunReclaim, DeliveryInv, OwnedInv, PelInv, BatchInv, TypeOK, Passes, redisVars
<1>11. ASSUME NEW w \in Nodes, ReclaimDone(w)
      PROVE  DeliveryInv'
  BY <1>11
  DEF ReclaimDone, DeliveryInv, OwnedInv, PelInv, BatchInv, TypeOK, Passes, redisVars
<1>12. ASSUME NEW w \in Nodes, NEW p \in Partitions, StepEmpty(w, p)
      PROVE  DeliveryInv'
  BY <1>12
  DEF StepEmpty, DeliveryInv, OwnedInv, PelInv, BatchInv, TypeOK, Passes, redisVars
<1>13. ASSUME NEW w \in Nodes, NEW p \in Partitions, StepRead(w, p)
      PROVE  DeliveryInv'
  <2>1. p \in OwnedPartitions(w)
    BY <1>13 DEF StepRead, NextPartition, DeliveryInv, OwnedInv
  <2>2. /\ NextRead(p) \subseteq 1 .. LastRead(p)
        /\ delivered[p] <= LastRead(p) /\ LastRead(p) <= Len(log[p])
        /\ LastRead(p) \in Nat
    BY <1>13, BatchAssumption DEF StepRead, LastRead, NextRead, TypeOK, Streams
  <2>3. OwnedInv'
    BY <1>13, <2>1 DEF StepRead, TypeOK, DeliveryInv, OwnedInv
  <2>4. PelInv'
    <3> SUFFICES ASSUME NEW q \in Partitions
                 PROVE  /\ delivered'[q] <= Len(log'[q])
                        /\ pending'[q] \subseteq 1 .. delivered'[q]
                        /\ idle'[q] \subseteq pending'[q]
                        /\ marked'[q] \subseteq 1 .. delivered'[q]
      BY DEF PelInv
    <3>1. CASE q = p
      BY <1>13, <2>2, <3>1 DEF StepRead, TypeOK, EntrySets, DeliveryInv, PelInv
    <3>2. CASE q # p
      BY <1>13, <3>2 DEF StepRead, TypeOK, EntrySets, DeliveryInv, PelInv
    <3> QED
      BY <3>1, <3>2
  <2>5. BatchInv'
    BY <1>13 DEF StepRead, InPass, TypeOK, EntrySets, HeldSets, Places, DeliveryInv, BatchInv
  <2> QED
    BY <2>3, <2>4, <2>5 DEF DeliveryInv
<1>14. ASSUME NEW w \in Nodes, NEW p \in Partitions, ReclaimEmpty(w, p)
      PROVE  DeliveryInv'
  BY <1>14
  DEF ReclaimEmpty, DeliveryInv, OwnedInv, PelInv, BatchInv, TypeOK, Passes, redisVars
<1>15. ASSUME NEW w \in Nodes, NEW p \in Partitions, ReclaimClaim(w, p)
      PROVE  DeliveryInv'
  <2> DEFINE claimed == FirstBatch(Claimable(w, p))
  <2>1. p \in OwnedPartitions(w)
    BY <1>15 DEF ReclaimClaim, NextPartition, DeliveryInv, OwnedInv
  <2>2. claimed \subseteq pending[p]
    BY DEF FirstBatch, Claimable, DeliveryInv, PelInv
  <2>3. /\ msgs' = [msgs EXCEPT ![w] = claimed]
        /\ idle' = [idle EXCEPT ![p] = @ \ claimed]
    BY <1>15 DEF ReclaimClaim
  <2> HIDE DEF claimed
  <2>4. OwnedInv'
    BY <1>15, <2>1, <2>3 DEF ReclaimClaim, TypeOK, DeliveryInv, OwnedInv
  <2>5. PelInv'
    BY <1>15, <2>3 DEF ReclaimClaim, TypeOK, EntrySets, DeliveryInv, PelInv
  <2>6. BatchInv'
    BY <1>15, <2>2, <2>3
    DEF ReclaimClaim, InPass, TypeOK, HeldSets, Places, DeliveryInv, BatchInv
  <2> QED
    BY <2>4, <2>5, <2>6 DEF DeliveryInv
<1>16. ASSUME NEW w \in Nodes, Check(w)
      PROVE  DeliveryInv'
  BY <1>16
  DEF Check, DeliveryInv, OwnedInv, PelInv, BatchInv, ToApply, TypeOK, HeldSets, Places, redisVars
<1>17. ASSUME NEW w \in Nodes, Flush(w)
      PROVE  DeliveryInv'
  BY <1>17
  DEF Flush, DeliveryInv, OwnedInv, PelInv, BatchInv, NextSubmits, TypeOK, HeldSets, Queues, redisVars
<1>18. ASSUME NEW w \in Nodes, FlushFails(w)
      PROVE  DeliveryInv'
  BY <1>18
  DEF FlushFails, DeliveryInv, OwnedInv, PelInv, BatchInv, DropBatch, TypeOK, HeldSets, Queues, Places, redisVars
<1>19. ASSUME NEW w \in Nodes, ScanTombstone(w)
      PROVE  DeliveryInv'
  BY <1>19
  DEF ScanTombstone, DeliveryInv, OwnedInv, PelInv, BatchInv, TypeOK, HeldSets, Queues, redisVars
<1>20. ASSUME NEW w \in Nodes, NEW i \in msgs[w], NEW s \in Slices,
             Exec(w, i, s)
      PROVE  DeliveryInv'
  BY <1>20
  DEF Exec, DeliveryInv, OwnedInv, PelInv, BatchInv, TypeOK, Queues
<1>21. ASSUME NEW w \in Nodes, Applied(w)
      PROVE  DeliveryInv'
  BY <1>21
  DEF Applied, Answered, DeliveryInv, OwnedInv, PelInv, BatchInv, TypeOK, Places, redisVars
<1>22. ASSUME NEW w \in Nodes, NEW i \in fresh[w], Mark(w, i)
      PROVE  DeliveryInv'
  BY <1>22
  DEF Mark, DeliveryInv, OwnedInv, PelInv, BatchInv, TypeOK, EntrySets, HeldSets
<1>23. ASSUME NEW w \in Nodes, Ack(w)
      PROVE  DeliveryInv'
  <2>1. OwnedInv'
    <3>1. \A v \in Nodes : todo'[v] \subseteq todo[v]
      BY <1>23 DEF Ack, TypeOK, Passes
    <3> QED
      BY <1>23, <3>1 DEF Ack, TypeOK, HeldSets, DeliveryInv, OwnedInv
  <2>2. PelInv'
    BY <1>23 DEF Ack, TypeOK, EntrySets, DeliveryInv, PelInv
  <2>3. ASSUME NEW v \in Nodes, v # w, msgs[v] # {}
        PROVE  part[v] # part[w] \/ msgs[w] = {}
    BY <2>3, OwnershipPartitions DEF DeliveryInv, OwnedInv
  <2>4. ASSUME NEW v \in Nodes
        PROVE  msgs'[v] \subseteq pending'[part'[v]]
    <3>1. CASE v = w
      BY <1>23, <3>1 DEF Ack, TypeOK, HeldSets
    <3>2. CASE v # w
      BY <1>23, <2>3, <3>2 DEF Ack, TypeOK, EntrySets, HeldSets, DeliveryInv, BatchInv
    <3> QED
      BY <3>1, <3>2
  <2>5. BatchInv'
    BY <1>23, <2>4 DEF Ack, TypeOK, HeldSets, Queues, Places, DeliveryInv, BatchInv
  <2> QED
    BY <2>1, <2>2, <2>5 DEF DeliveryInv
<1>24. ASSUME NEW p \in Partitions, Age(p)
      PROVE  DeliveryInv'
  BY <1>24
  DEF Age, DeliveryInv, OwnedInv, PelInv, BatchInv, TypeOK, EntrySets, workerVars
<1>25. ASSUME NEW w \in Nodes, RedisError(w)
      PROVE  DeliveryInv'
  BY <1>25
  DEF RedisError, DeliveryInv, OwnedInv, PelInv, BatchInv, DropBatch, TypeOK, HeldSets, Queues, Places, redisVars
<1>26. ASSUME NEW n \in Nodes, CancelRequest(n)
      PROVE  DeliveryInv'
  BY <1>26
  DEF CancelRequest, DeliveryInv, OwnedInv, PelInv, BatchInv, redisVars, workerVars
<1>27. ASSUME NEW p \in Partitions, NEW i \in marked[p], ExpireMarker(p, i)
      PROVE  DeliveryInv'
  BY <1>27
  DEF ExpireMarker, DeliveryInv, OwnedInv, PelInv, BatchInv, TypeOK, EntrySets, workerVars
<1>28. ASSUME NEW n \in Nodes, Crash(n)
      PROVE  DeliveryInv'
  BY <1>28
  DEF Crash, DeliveryInv, OwnedInv, PelInv, BatchInv, DropBatch, TypeOK, HeldSets, Queues, Places, redisVars
<1>29. ASSUME NEW n \in Nodes, Restart(n)
      PROVE  DeliveryInv'
  BY <1>29
  DEF Restart, DeliveryInv, OwnedInv, PelInv, BatchInv, TypeOK, Places, Passes, redisVars
<1>30. CASE UNCHANGED coreVars
  BY <1>30 DEF coreVars, redisVars, DeliveryInv, OwnedInv, PelInv, BatchInv
<1>31. ASSUME NEW n \in Nodes, NEW b \in Boards, SyncFails(n, b)
      PROVE  DeliveryInv'
  BY <1>31
  DEF SyncFails, DeliveryInv, OwnedInv, PelInv, BatchInv, redisVars, workerVars
<1> QED
  BY <1>1, <1>2, <1>3, <1>4, <1>5, <1>6, <1>7, <1>8, <1>9, <1>10, <1>11, <1>12, <1>13, <1>14, <1>15, <1>16, <1>17, <1>18, <1>19, <1>20, <1>21, <1>22, <1>23, <1>24, <1>25, <1>26, <1>27, <1>28, <1>29, <1>30, <1>31 DEF CoreNext, Api, Consume, Failure

(* The types and the delivery invariant hold together: neither is inductive *)
(* alone, for a worker's commands have their type only because the entries  *)
(* it holds are in the log.                                                 *)
LEMMA DeliveryCorrect == Spec => [](TypeOK /\ DeliveryInv)
<1>1. Init => TypeOK /\ DeliveryInv
  BY InitType, InitDelivery
<1>2. TypeOK /\ DeliveryInv /\ [Next]_vars => (TypeOK /\ DeliveryInv)'
  BY StepIsCore, NextType, NextDelivery DEF DeliveryInv
<1> QED
  BY <1>1, <1>2, PTL DEF Spec

(* Every variable keeps its type in every behaviour. *)
THEOREM TypeCorrect == Spec => []TypeOK
BY DeliveryCorrect, PTL

(* No two workers ever hold entries of the same partition, and what a worker *)
(* holds stays pending until that worker acknowledges it.                    *)
THEOREM BatchesArePending == Spec => []BatchIsPending
<1>1. TypeOK /\ DeliveryInv => BatchIsPending
  BY DEF TypeOK, DeliveryInv, OwnedInv, PelInv, BatchInv, BatchIsPending
<1> QED
  BY <1>1, DeliveryCorrect, PTL
----------------------------------------------------------------------------
(* Which steps touch which part of the state. *)

Appends   == \/ \E n \in Nodes, r \in Submissions : HandleSubmit(n, r)
             \/ \E n \in Nodes, b \in Boards : AppendTombstone(n, b)
Rewrites  == \/ \E w \in Nodes : \E i \in msgs[w], s \in Slices : Exec(w, i, s)
             \/ \E n \in Nodes, k \in Boards \X Slices : SyncRemove(n, k)
Removes   == \E n \in Nodes :
               \/ \E b \in Boards : AppendTombstone(n, b) \/ SyncScan(n, b) \/ SyncFails(n, b)
               \/ \E b \in Boards, m \in Moderated : HandleRemoveScore(n, b, m)
               \/ \E m \in Moderated : HandleDeleteUser(n, m)
               \/ \E k \in Boards \X Slices : SyncRemove(n, k)
               \/ CancelRequest(n) \/ Crash(n)
Handles   == \E w \in Nodes :
               \/ Check(w) \/ Flush(w) \/ FlushFails(w) \/ ScanTombstone(w)
               \/ \E i \in msgs[w], s \in Slices : Exec(w, i, s)
               \/ \E i \in fresh[w] : Mark(w, i)
               \/ RedisError(w) \/ Crash(w)
Reads     == \E w \in Nodes, p \in Partitions : StepRead(w, p) \/ ReclaimClaim(w, p)
Marks     == \E w \in Nodes : \E i \in fresh[w] : Mark(w, i)
Expires   == \E p \in Partitions : \E i \in marked[p] : ExpireMarker(p, i)

LEMMA Frame ==
  ASSUME [CoreNext]_coreVars
  PROVE  /\ UNCHANGED <<log, unseen>> \/ Appends
         /\ UNCHANGED board \/ Rewrites
         /\ UNCHANGED rm \/ Removes
         /\ UNCHANGED <<fresh, recs, ops>> \/ Handles
         /\ UNCHANGED part \/ Reads
         /\ UNCHANGED marked \/ Marks \/ Expires
<1> DEFINE Goal == /\ UNCHANGED <<log, unseen>> \/ Appends
                   /\ UNCHANGED board \/ Rewrites
                   /\ UNCHANGED rm \/ Removes
                   /\ UNCHANGED <<fresh, recs, ops>> \/ Handles
                   /\ UNCHANGED part \/ Reads
                   /\ UNCHANGED marked \/ Marks \/ Expires
<1>1. ASSUME NEW n \in Nodes, Api(n) PROVE Goal
  BY <1>1 DEF Api, HandleCreateBoard, ResolveBoard, HandleSubmit, HandleRemoveScore,
              HandleDeleteUser, AppendTombstone, SyncScan, SyncRemove, redisVars,
              workerVars, Appends, Rewrites, Removes
<1>2. ASSUME NEW w \in Nodes, Consume(w) PROVE Goal
  BY <1>2 DEF Consume, RunStep, RunReclaim, ReclaimDone, StepEmpty, StepRead,
              ReclaimEmpty, ReclaimClaim, Check, Flush, FlushFails, ScanTombstone,
              Exec, Applied, Mark, Ack, redisVars, Rewrites, Handles, Reads, Marks
<1>3. ASSUME NEW n \in Nodes, Failure(n) \/ Restart(n) PROVE Goal
  BY <1>3 DEF Failure, RedisError, CancelRequest, SyncFails, Crash, Restart, redisVars,
              workerVars, Removes, Handles
<1>4. ASSUME NEW p \in Partitions, Age(p) \/ \E i \in marked[p] : ExpireMarker(p, i)
      PROVE  Goal
  BY <1>4 DEF Age, ExpireMarker, workerVars, Expires
<1>5. CASE UNCHANGED coreVars
  BY <1>5 DEF coreVars, redisVars
<1> QED
  BY <1>1, <1>2, <1>3, <1>4, <1>5 DEF CoreNext

(* The log is append-only: entries keep their position and their content. *)
LEMMA LogGrows ==
  ASSUME TypeOK, [CoreNext]_coreVars, NEW p \in Partitions, NEW i \in 1 .. Len(log[p])
  PROVE  i \in 1 .. Len(log'[p]) /\ log'[p][i] = log[p][i]
<1>0. log[p] \in Seq(Record)
  BY DEF TypeOK, Streams
<1>1. CASE UNCHANGED log
  BY <1>1
<1>2. ASSUME NEW q, NEW r, log' = [log EXCEPT ![q] = Append(@, r)]
      PROVE  i \in 1 .. Len(log'[p]) /\ log'[p][i] = log[p][i]
  <2>1. CASE q # p
    BY <1>2, <2>1 DEF TypeOK, Streams
  <2>2. CASE q = p
    <3>1. log'[p] = Append(log[p], r)
      BY <1>2, <2>2 DEF TypeOK, Streams
    <3> QED
      BY <1>0, <3>1
  <2> QED
    BY <2>1, <2>2
<1> QED
  BY <1>1, <1>2, Frame DEF Appends, HandleSubmit, AppendTombstone, Append1

(* A tombstone is there for good. *)
LEMMA TombstonedStable ==
  ASSUME TypeOK, [CoreNext]_coreVars, NEW b, NEW m, Tombstoned(b, m)
  PROVE  Tombstoned(b, m)'
BY LogGrows DEF Tombstoned, HasTombstone

LEMMA BindingStable ==
  ASSUME TypeOK, [CoreNext]_coreVars, NEW r, Binding(log', r)
  PROVE  Binding(log, r)
BY TombstonedStable DEF Binding, Tombstoned

----------------------------------------------------------------------------
(* A removal request cleans a board only after its tombstone is in the log. *)
LEMMA NextRemoval ==
  ASSUME TypeOK, RemovalInv, [CoreNext]_coreVars
  PROVE  RemovalInv'
<1> SUFFICES ASSUME NEW v \in Nodes
             PROVE  /\ \A b \in rm'[v].scans :
                         b \in rm'[v].tombs \/ HasTombstone(log', b, rm'[v].member)
                    /\ \A k \in rm'[v].keys : HasTombstone(log', k[1], rm'[v].member)
  BY DEF RemovalInv, Tombstoned
<1>1. /\ \A b \in rm[v].scans : b \in rm[v].tombs \/ HasTombstone(log', b, rm[v].member)
      /\ \A k \in rm[v].keys : HasTombstone(log', k[1], rm[v].member)
  BY TombstonedStable DEF RemovalInv, Tombstoned
<1>2. CASE rm'[v] = rm[v]
  BY <1>1, <1>2
<1>3. CASE rm'[v] = NoRemoval
  BY <1>3 DEF NoRemoval
<1>4. ASSUME NEW b \in Boards, NEW m \in Moderated, HandleRemoveScore(v, b, m)
      PROVE  rm'[v].scans = rm'[v].tombs /\ rm'[v].keys = {}
  BY <1>4 DEF HandleRemoveScore, TypeOK, Removals
<1>5. ASSUME NEW m \in Moderated, HandleDeleteUser(v, m)
      PROVE  rm'[v].scans = rm'[v].tombs /\ rm'[v].keys = {}
  BY <1>5 DEF HandleDeleteUser, TypeOK, Removals, Finish, NoRemoval
<1>6. ASSUME NEW b \in Boards, AppendTombstone(v, b)
      PROVE  /\ rm'[v].scans = rm[v].scans /\ rm'[v].keys = rm[v].keys
             /\ rm'[v].member = rm[v].member
             /\ rm'[v].tombs = rm[v].tombs \ {b}
             /\ HasTombstone(log', b, rm[v].member)
  <2>1. rm[v] \in Removal /\ rm[v].member \in Members
    BY <1>6 DEF AppendTombstone, TypeOK, Removals, Removal, NoRemoval
  <2> DEFINE p == PartitionOf(b, rm[v].member)
             r == [op |-> "remove", board |-> b, member |-> rm[v].member]
  <2>2. p \in Partitions /\ log[p] \in Seq(Record) /\ r \in Record
    BY <2>1, PartitionOfType DEF TypeOK, Streams, Record, Tombstone
  <2>3. log'[p] = Append(log[p], r)
    BY <1>6, <2>2 DEF AppendTombstone, Append1, TypeOK, Streams
  <2>4. Len(log'[p]) \in 1 .. Len(log'[p]) /\ log'[p][Len(log'[p])] = r
    <3> HIDE DEF p, r
    <3> QED
      BY <2>2, <2>3
  <2>5. HasTombstone(log', b, rm[v].member)
    BY <2>2, <2>4 DEF HasTombstone
  <2> QED
    BY <1>6, <2>1, <2>5 DEF AppendTombstone, TypeOK, Removals, Removal
<1>7. ASSUME NEW b \in Boards, SyncScan(v, b), rm'[v] # NoRemoval
      PROVE  /\ rm'[v].scans = rm[v].scans \ {b} /\ rm'[v].tombs = rm[v].tombs
             /\ rm'[v].member = rm[v].member
             /\ rm'[v].keys = {b} \X scanBoardKeys(b)
             /\ b \in rm[v].scans /\ rm[v].tombs = {}
  <2>1. rm[v] \in Removal
    BY <1>7 DEF SyncScan, TypeOK, Removals, NoRemoval
  <2>2. rm'[v] = [rm[v] EXCEPT !.scans = @ \ {b}, !.keys = {b} \X scanBoardKeys(b)]
    BY <1>7 DEF SyncScan, TypeOK, Removals, Finish
  <2> QED
    BY <1>7, <2>1, <2>2 DEF SyncScan, Removal
<1>8. ASSUME NEW k \in Boards \X Slices, SyncRemove(v, k), rm'[v] # NoRemoval
      PROVE  /\ rm'[v].scans = rm[v].scans /\ rm'[v].tombs = rm[v].tombs
             /\ rm'[v].member = rm[v].member /\ rm'[v].keys = rm[v].keys \ {k}
  <2>1. rm[v] \in Removal
    BY <1>8 DEF SyncRemove, TypeOK, Removals, NoRemoval
  <2>2. rm'[v] = [rm[v] EXCEPT !.keys = @ \ {k}]
    BY <1>8 DEF SyncRemove, TypeOK, Removals, Finish
  <2> QED
    BY <2>1, <2>2 DEF Removal
<1>9. ASSUME NEW n \in Nodes, n # v,
             \/ \E b \in Boards : AppendTombstone(n, b) \/ SyncScan(n, b) \/ SyncFails(n, b)
             \/ \E b \in Boards, m \in Moderated : HandleRemoveScore(n, b, m)
             \/ \E m \in Moderated : HandleDeleteUser(n, m)
             \/ \E k \in Boards \X Slices : SyncRemove(n, k)
             \/ CancelRequest(n) \/ Crash(n)
      PROVE  rm'[v] = rm[v]
  BY <1>9 DEF AppendTombstone, SyncScan, SyncFails, HandleRemoveScore, HandleDeleteUser,
              SyncRemove, CancelRequest, Crash, TypeOK, Removals
<1>10. ASSUME CancelRequest(v) \/ Crash(v) PROVE rm'[v] = NoRemoval
  BY <1>10 DEF CancelRequest, Crash, TypeOK, Removals
<1>11. ASSUME NEW b \in Boards, SyncScan(v, b), rm'[v] # NoRemoval
       PROVE  /\ \A c \in rm'[v].scans :
                   c \in rm'[v].tombs \/ HasTombstone(log', c, rm'[v].member)
              /\ \A k \in rm'[v].keys : HasTombstone(log', k[1], rm'[v].member)
  BY <1>1, <1>7, <1>11
<1>12. ASSUME NEW b \in Boards, AppendTombstone(v, b)
       PROVE  /\ \A c \in rm'[v].scans :
                   c \in rm'[v].tombs \/ HasTombstone(log', c, rm'[v].member)
              /\ \A k \in rm'[v].keys : HasTombstone(log', k[1], rm'[v].member)
  BY <1>1, <1>6, <1>12
<1>13. ASSUME NEW k \in Boards \X Slices, SyncRemove(v, k), rm'[v] # NoRemoval
       PROVE  /\ \A c \in rm'[v].scans :
                   c \in rm'[v].tombs \/ HasTombstone(log', c, rm'[v].member)
              /\ \A l \in rm'[v].keys : HasTombstone(log', l[1], rm'[v].member)
  BY <1>1, <1>8, <1>13
<1>14. ASSUME NEW b \in Boards, SyncFails(v, b), rm'[v] # NoRemoval
       PROVE  /\ \A c \in rm'[v].scans :
                   c \in rm'[v].tombs \/ HasTombstone(log', c, rm'[v].member)
              /\ \A k \in rm'[v].keys : HasTombstone(log', k[1], rm'[v].member)
  <2>1. rm[v] \in Removal
    BY <1>14 DEF SyncFails, TypeOK, Removals, NoRemoval
  <2>2. rm'[v] = [rm[v] EXCEPT !.scans = @ \ {b}, !.keys = {}]
    BY <1>14 DEF SyncFails, TypeOK, Removals, Finish
  <2>3. /\ rm'[v].scans = rm[v].scans \ {b} /\ rm'[v].keys = {}
        /\ rm'[v].member = rm[v].member /\ rm'[v].tombs = rm[v].tombs
    BY <2>1, <2>2 DEF Removal
  <2> QED
    BY <1>1, <2>3
<1> QED
  BY <1>2, <1>3, <1>4, <1>5, <1>9, <1>10, <1>11, <1>12, <1>13, <1>14, Frame DEF Removes

(* A score that must stay ranked does: commands only improve a best-wins cell, *)
(* and only a tombstone's removal clears one.                                  *)
LEMMA RankedStable ==
  ASSUME TypeOK, DeliveryInv, RemovalInv, [CoreNext]_coreVars,
         NEW r \in Submit, NEW s \in r.slices, Binding(log', r),
         RankedIn(board, r, s)
  PROVE  RankedIn(board', r, s)
<1>0. Cell(r, s) \in Boards \X Slices \X Members /\ Binding(log, r)
  BY BindingStable DEF Submit, Cell
<1>1. CASE board'[Cell(r, s)] = board[Cell(r, s)]
  BY <1>1 DEF RankedIn
<1>2. ASSUME NEW w \in Nodes, NEW i \in msgs[w], NEW t \in Slices, Exec(w, i, t)
      PROVE  RankedIn(board', r, s)
  <2> DEFINE e == log[part[w]][i]
  <2>1. e \in Record /\ part[w] \in Partitions /\ i \in 1 .. Len(log[part[w]])
    BY EntryInLog DEF DeliveryInv
  <2>2. CASE Cell(e, t) # Cell(r, s)
    BY <1>0, <1>1, <1>2, <2>2 DEF Exec, TypeOK, Rankings
  <2>3. CASE Cell(e, t) = Cell(r, s)
    <3>1. e.board = r.board /\ e.member = r.member
      BY <2>3 DEF Cell
    <3>2. e.op # "remove"
      BY <1>0, <2>1, <3>1 DEF Binding, HasTombstone
    <3>3. board'[Cell(r, s)] = Combine(r.board, board[Cell(r, s)], e.score)
      BY <1>0, <1>2, <2>3, <3>1, <3>2 DEF Exec, TypeOK, Rankings
    <3>4. /\ r.board \in Boards /\ PolicyOf[r.board] = "best" /\ e.score \in Int
          /\ r.score \in Int /\ board[Cell(r, s)] \in Int \cup {None}
      BY <1>0, <2>1, <3>2, ScoresAssumption
      DEF Binding, Record, Submit, Tombstone, TypeOK, Rankings
    <3>5. /\ ~ Better(r.board, r.score, board'[Cell(r, s)])
          /\ board'[Cell(r, s)] \in Int
      BY <3>3, <3>4, CombineBest, CombineType DEF RankedIn
    <3> QED
      BY <3>5, NoneAssumption DEF RankedIn
  <2> QED
    BY <2>2, <2>3
<1>3. ASSUME NEW n \in Nodes, NEW k \in Boards \X Slices, SyncRemove(n, k)
      PROVE  RankedIn(board', r, s)
  <2>1. Tombstoned(k[1], rm[n].member)
    BY <1>3 DEF SyncRemove, RemovalInv
  <2>2. <<k[1], k[2], rm[n].member>> # Cell(r, s)
    BY <1>0, <2>1 DEF Binding, Cell, Tombstoned
  <2> QED
    BY <1>0, <1>1, <1>3, <2>2 DEF SyncRemove, TypeOK, Rankings
<1> QED
  BY <1>1, <1>2, <1>3, Frame DEF Rewrites

(* The part of the batch that a worker has executed is ranked. *)
LEMMA NextApplied ==
  ASSUME TypeOK, DeliveryInv, RemovalInv, AppliedInv, [CoreNext]_coreVars
  PROVE  AppliedInv'
<1> SUFFICES ASSUME NEW v \in Nodes, NEW i \in fresh'[v] \ recs'[v],
                    Binding(log', log'[part'[v]][i]),
                    NEW s \in log'[part'[v]][i].slices, <<i, s>> \notin ops'[v]
             PROVE  RankedIn(board', log'[part'[v]][i], s)
  BY DEF AppliedInv
<1> DEFINE r == log[part[v]][i]
<1>1. ASSUME fresh'[v] \subseteq fresh[v], part'[v] = part[v]
      PROVE  /\ r \in Submit /\ log'[part'[v]][i] = r
             /\ Binding(log', r) /\ Binding(log, r)
             /\ i \in fresh[v] /\ part[v] \in Partitions
  <2>1. i \in msgs[v]
    BY <1>1 DEF DeliveryInv, BatchInv
  <2>2. r \in Record /\ part[v] \in Partitions /\ i \in 1 .. Len(log[part[v]])
    BY <2>1, EntryInLog DEF DeliveryInv
  <2>3. log'[part'[v]][i] = r
    BY <1>1, <2>2, LogGrows
  <2>4. r.op = "submit"
    BY <2>3 DEF Binding
  <2>5. r \in Submit
    BY <2>2, <2>4 DEF Record, Tombstone
  <2> QED
    BY <1>1, <2>2, <2>3, <2>5, BindingStable
<1>2. ASSUME fresh'[v] \subseteq fresh[v], part'[v] = part[v],
             i \notin recs[v], <<i, s>> \notin ops[v]
      PROVE  RankedIn(board', log'[part'[v]][i], s)
  <2>1. RankedIn(board, r, s)
    BY <1>1, <1>2 DEF AppliedInv
  <2> QED
    BY <1>1, <1>2, <2>1, RankedStable
<1>3. CASE UNCHANGED <<fresh, recs, ops>>
  <2>1. CASE UNCHANGED part
    BY <1>2, <1>3, <2>1
  <2>2. ASSUME NEW w \in Nodes, NEW p \in Partitions,
               StepRead(w, p) \/ ReclaimClaim(w, p)
        PROVE  part'[v] = part[v]
    <3>1. pc[w] = "poll" /\ part' = [part EXCEPT ![w] = p]
      BY <2>2 DEF StepRead, ReclaimClaim, InPass
    <3>2. fresh[w] = {}
      BY <3>1 DEF DeliveryInv, BatchInv
    <3> QED
      BY <1>3, <3>1, <3>2 DEF TypeOK
  <2> QED
    BY <1>2, <1>3, <2>1, <2>2, Frame DEF Reads
<1>4. ASSUME NEW w \in Nodes, w # v,
             \/ Check(w) \/ Flush(w) \/ FlushFails(w) \/ ScanTombstone(w)
             \/ \E j \in msgs[w], t \in Slices : Exec(w, j, t)
             \/ \E j \in fresh[w] : Mark(w, j)
             \/ RedisError(w) \/ Crash(w)
      PROVE  RankedIn(board', log'[part'[v]][i], s)
  <2>1. /\ fresh'[v] = fresh[v] /\ recs'[v] = recs[v] /\ ops'[v] = ops[v]
        /\ part'[v] = part[v]
    BY <1>4 DEF Check, Flush, FlushFails, ScanTombstone, Exec, Mark, RedisError,
                Crash, DropBatch, TypeOK, HeldSets, Queues
  <2> QED
    BY <1>2, <2>1
<1>5. ASSUME Check(v) PROVE FALSE
  BY <1>5 DEF Check, TypeOK, HeldSets
<1>6. ASSUME FlushFails(v) \/ RedisError(v) \/ Crash(v) PROVE FALSE
  BY <1>6 DEF FlushFails, RedisError, Crash, DropBatch, TypeOK, HeldSets
<1>7. ASSUME Flush(v)
      PROVE  RankedIn(board', log'[part'[v]][i], s)
  <2>1. fresh'[v] = fresh[v] /\ part'[v] = part[v] /\ ops[v] = {}
    BY <1>7 DEF Flush, Answered
  <2>2. CASE i \in NextSubmits(v)
    <3>1. s \in r.slices /\ s \in Slices
      BY <1>1, <2>1 DEF Submit
    <3>2. <<i, s>> \in ops'[v]
      BY <1>7, <2>2, <3>1 DEF Flush, TypeOK, Queues
    <3> QED
      BY <3>2
  <2>3. CASE i \notin NextSubmits(v)
    <3>1. i \notin recs[v]
      BY <1>7, <2>3 DEF Flush, TypeOK, HeldSets
    <3> QED
      BY <1>2, <2>1, <3>1
  <2> QED
    BY <2>2, <2>3
<1>8. ASSUME ScanTombstone(v)
      PROVE  RankedIn(board', log'[part'[v]][i], s)
  <2>1. /\ fresh'[v] = fresh[v] /\ part'[v] = part[v] /\ ops[v] = {}
        /\ NextSubmits(v) = {}
    BY <1>8 DEF ScanTombstone, Answered
  <2>2. PICK j \in recs[v] : /\ \A k \in recs[v] : j <= k
                             /\ recs'[v] = recs[v] \ {j}
    BY <1>8 DEF ScanTombstone, TypeOK, HeldSets
  <2>3. i # j
    <3> SUFFICES ASSUME i = j PROVE FALSE
      OBVIOUS
    <3>1. r.op = "submit"
      BY <1>1, <2>1 DEF Binding
    <3>2. ASSUME NEW k \in recs[v], k <= j PROVE k = j
      BY <2>2, <3>2 DEF TypeOK, HeldSets
    <3>3. j \in NextSubmits(v)
      BY <2>2, <3>1, <3>2 DEF NextSubmits, Op
    <3> QED
      BY <2>1, <3>3
  <2> QED
    BY <1>2, <2>1, <2>2, <2>3
<1>9. ASSUME NEW j \in msgs[v], NEW t \in Slices, Exec(v, j, t)
      PROVE  RankedIn(board', log'[part'[v]][i], s)
  <2>1. /\ fresh'[v] = fresh[v] /\ part'[v] = part[v] /\ recs'[v] = recs[v]
        /\ ops'[v] = ops[v] \ {<<j, t>>}
    BY <1>9 DEF Exec, TypeOK, Queues
  <2>2. CASE <<i, s>> # <<j, t>>
    BY <1>2, <2>1, <2>2
  <2>3. CASE <<i, s>> = <<j, t>>
    <3>1. /\ r \in Submit /\ Binding(log, r) /\ log'[part'[v]][i] = r
      BY <1>1, <2>1
    <3>2. Cell(r, s) \in Boards \X Slices \X Members
      BY <2>3, <3>1 DEF Submit, Cell
    <3>3. board'[Cell(r, s)] = Combine(r.board, board[Cell(r, s)], r.score)
      BY <1>9, <2>3, <3>1, <3>2 DEF Exec, Submit, TypeOK, Rankings
    <3>4. /\ r.board \in Boards /\ PolicyOf[r.board] = "best" /\ r.score \in Int
          /\ board[Cell(r, s)] \in Int \cup {None}
      BY <3>1, <3>2, ScoresAssumption DEF Binding, Submit, TypeOK, Rankings
    <3>5. /\ ~ Better(r.board, r.score, board'[Cell(r, s)])
          /\ board'[Cell(r, s)] \in Int
      BY <3>3, <3>4, CombineBest, CombineType
    <3> QED
      BY <3>1, <3>5, NoneAssumption DEF RankedIn
  <2> QED
    BY <2>2, <2>3
<1>10. ASSUME NEW j \in fresh[v], Mark(v, j)
       PROVE  RankedIn(board', log'[part'[v]][i], s)
  BY <1>2, <1>10 DEF Mark, TypeOK, HeldSets
<1> QED
  BY <1>3, <1>4, <1>5, <1>6, <1>7, <1>8, <1>9, <1>10, Frame DEF Handles

(* An entry is marked only when all its commands have been executed. *)
LEMMA NextMarked ==
  ASSUME TypeOK, DeliveryInv, RemovalInv, AppliedInv, MarkedInv, [CoreNext]_coreVars
  PROVE  MarkedInv'
<1> SUFFICES ASSUME NEW p \in Partitions, NEW i \in marked'[p],
                    Binding(log', log'[p][i]), NEW s \in log'[p][i].slices
             PROVE  RankedIn(board', log'[p][i], s)
  BY DEF MarkedInv
<1> DEFINE r == log[p][i]
<1>1. ASSUME i \in 1 .. delivered[p]
      PROVE  r \in Submit /\ log'[p][i] = r /\ Binding(log', r) /\ Binding(log, r)
  <2>1. i \in 1 .. Len(log[p]) /\ log[p] \in Seq(Record)
    BY <1>1 DEF DeliveryInv, PelInv, TypeOK, Streams
  <2>2. log'[p][i] = r
    BY <2>1, LogGrows
  <2>3. r \in Record /\ r.op = "submit"
    BY <2>1, <2>2 DEF Binding
  <2> QED
    BY <2>2, <2>3, BindingStable DEF Record, Tombstone
<1>2. CASE i \in marked[p]
  <2>1. i \in 1 .. delivered[p]
    BY <1>2 DEF DeliveryInv, PelInv
  <2>2. RankedIn(board, r, s)
    BY <1>1, <1>2, <2>1 DEF MarkedInv
  <2> QED
    BY <1>1, <2>1, <2>2, RankedStable
<1>3. ASSUME i \notin marked[p], NEW w \in Nodes, NEW j \in fresh[w], Mark(w, j)
      PROVE  RankedIn(board', log'[p][i], s)
  <2>1. i = j /\ part[w] = p
    BY <1>3 DEF Mark, TypeOK, EntrySets
  <2>2. i \in 1 .. delivered[p] /\ recs[w] = {} /\ ops[w] = {}
    BY <1>3, <2>1 DEF Mark, DeliveryInv, PelInv, BatchInv
  <2>3. RankedIn(board, r, s)
    BY <1>1, <2>1, <2>2 DEF AppliedInv
  <2> QED
    BY <1>1, <2>2, <2>3, RankedStable
<1>4. Expires => i \in marked[p]
  BY DEF Expires, ExpireMarker, TypeOK, EntrySets
<1> QED
  BY <1>2, <1>3, <1>4, Frame DEF Marks

----------------------------------------------------------------------------
(* Types, delivery and ranks together. *)
LEMMA RankCorrect == Spec => []IInv
<1>1. Init => IInv
  BY InitType, InitDelivery
  DEF Init, IInv, RankInv, RemovalInv, AppliedInv, MarkedInv, NoRemoval
<1>2. IInv /\ [Next]_vars => IInv'
  BY StepIsCore, NextType, NextDelivery, NextRemoval, NextApplied, NextMarked
  DEF IInv, RankInv, DeliveryInv
<1> QED
  BY <1>1, <1>2, PTL DEF Spec

(* A score that the consumer has marked as applied on a best-wins board stays  *)
(* ranked, at its value or a better one, in every slice it fans out to, across *)
(* any number of crashes, failed calls, redeliveries and expired markers, and  *)
(* whatever other workers and handlers do, unless the member is removed.       *)
THEOREM MarkedScoresAreRanked == Spec => []MarkedScoreRanked
<1>1. IInv => MarkedScoreRanked
  BY DEF IInv, RankInv, MarkedInv, MarkedScoreRanked, Binding, RankedIn, Ranked,
         Tombstoned
<1> QED
  BY <1>1, RankCorrect, PTL

----------------------------------------------------------------------------
(* Registries, tombstones still to be appended and entries are all of boards in *)
(* the store.                                                                   *)
ResolvableInv ==
  /\ \A n \in Nodes : registry[n] \subseteq stored
  /\ \A n \in Nodes : rm[n].tombs \subseteq stored
  /\ \A p \in Partitions : \A i \in 1 .. Len(log[p]) : log[p][i].board \in stored

(* The owner of a partition, while it is up, resolves the board of every entry  *)
(* but the ones that were appended without its having heard of the board.       *)
KnownInv ==
  \A p \in Partitions : \A i \in (1 .. Len(log[p])) \ unseen[p] :
    \A w \in Nodes : (p \in OwnedPartitions(w) /\ Up(w)) => log[p][i].board \in registry[w]

(* What a worker will acknowledge is marked already, about to be, or excused. *)
HandledInv ==
  /\ \A w \in Nodes : pc[w] \in {"apply", "mark"} =>
                        msgs[w] \subseteq fresh[w] \cup marked[part[w]] \cup unseen[part[w]]
  /\ DropsAreUnseen

LEMMA AppendResolvable ==
  ASSUME TypeOK, ResolvableInv, NEW q, NEW r, r.board \in stored,
         log' = [log EXCEPT ![q] = Append(@, r)],
         NEW p \in Partitions, NEW i \in 1 .. Len(log'[p])
  PROVE  log'[p][i].board \in stored
<1>1. log[p] \in Seq(Record)
  BY DEF TypeOK, Streams
<1>2. CASE p # q
  BY <1>2 DEF ResolvableInv, TypeOK, Streams
<1>3. CASE p = q
  <2>1. log'[p] = Append(log[p], r)
    BY <1>3 DEF TypeOK, Streams
  <2>2. Len(log'[p]) = Len(log[p]) + 1 /\ Len(log[p]) \in Nat
    BY <1>1, <2>1
  <2>3. CASE i = Len(log[p]) + 1
    BY <1>1, <2>1, <2>3
  <2>4. CASE i \in 1 .. Len(log[p])
    BY <1>1, <2>1, <2>4 DEF ResolvableInv
  <2> QED
    BY <2>2, <2>3, <2>4
<1> QED
  BY <1>2, <1>3

(* Every step keeps them so. *)
LEMMA NextResolvable ==
  ASSUME TypeOK, ResolvableInv, [CoreNext]_coreVars
  PROVE  ResolvableInv'
<1>1. ASSUME NEW n \in Nodes, NEW b \in Boards, HandleCreateBoard(n, b)
      PROVE  ResolvableInv'
  BY <1>1
  DEF HandleCreateBoard, ResolvableInv, TypeOK, workerVars
<1>2. ASSUME NEW n \in Nodes, NEW b \in Boards, ResolveBoard(n, b)
      PROVE  ResolvableInv'
  BY <1>2
  DEF ResolveBoard, ResolvableInv, Up, TypeOK, redisVars, workerVars
<1>3. ASSUME NEW n \in Nodes, NEW r \in Submissions, HandleSubmit(n, r)
      PROVE  ResolvableInv'
  <2> DEFINE q == PartitionOf(r.board, r.member)
             e == [op |-> "submit", board |-> r.board, member |-> r.member,
                   score |-> r.score, slices |-> r.slices, ok |-> r.ok]
  <2>1. e.board \in stored /\ log' = [log EXCEPT ![q] = Append(@, e)]
    BY <1>3 DEF HandleSubmit, Append1, ResolvableInv
  <2> HIDE DEF q, e
  <2>2. \A p \in Partitions : \A i \in 1 .. Len(log'[p]) : log'[p][i].board \in stored
    BY <2>1, AppendResolvable
  <2> QED
    BY <1>3, <2>2 DEF HandleSubmit, ResolvableInv, Up, workerVars
<1>4. ASSUME NEW n \in Nodes, NEW b \in Boards, NEW m \in Moderated,
             HandleRemoveScore(n, b, m)
      PROVE  ResolvableInv'
  BY <1>4
  DEF HandleRemoveScore, ResolvableInv, Up, TypeOK, Removals, redisVars, workerVars
<1>5. ASSUME NEW n \in Nodes, NEW m \in Moderated, HandleDeleteUser(n, m)
      PROVE  ResolvableInv'
  <2>1. rm'[n].tombs \subseteq stored
    BY <1>5 DEF HandleDeleteUser, Finish, NoRemoval, TypeOK, Removals
  <2> QED
    BY <1>5, <2>1 DEF HandleDeleteUser, ResolvableInv, Up, TypeOK, Removals, redisVars, workerVars
<1>6. ASSUME NEW n \in Nodes, NEW b \in Boards, AppendTombstone(n, b)
      PROVE  ResolvableInv'
  <2> DEFINE q == PartitionOf(b, rm[n].member)
             e == [op |-> "remove", board |-> b, member |-> rm[n].member]
  <2>1. e.board \in stored /\ log' = [log EXCEPT ![q] = Append(@, e)]
    BY <1>6 DEF AppendTombstone, Append1, ResolvableInv
  <2> HIDE DEF q, e
  <2>2. \A p \in Partitions : \A i \in 1 .. Len(log'[p]) : log'[p][i].board \in stored
    BY <2>1, AppendResolvable
  <2>3. \A v \in Nodes : rm'[v].tombs \subseteq stored
    BY <1>6 DEF AppendTombstone, ResolvableInv, TypeOK, Removals, Removal, NoRemoval
  <2>4. b \in stored
    BY <1>6 DEF AppendTombstone, ResolvableInv
  <2> QED
    BY <1>6, <2>2, <2>3, <2>4 DEF AppendTombstone, ResolvableInv, Up, TypeOK, workerVars
<1>7. ASSUME NEW n \in Nodes, NEW b \in Boards, SyncScan(n, b)
      PROVE  ResolvableInv'
  <2>1. \A v \in Nodes : rm'[v].tombs \subseteq stored
    BY <1>7 DEF SyncScan, Finish, ResolvableInv, TypeOK, Removals, Removal, NoRemoval
  <2> QED
    BY <1>7, <2>1 DEF SyncScan, ResolvableInv, Up, redisVars, workerVars
<1>8. ASSUME NEW n \in Nodes, NEW k \in Boards \X Slices, SyncRemove(n, k)
      PROVE  ResolvableInv'
  <2>1. \A v \in Nodes : rm'[v].tombs \subseteq stored
    BY <1>8 DEF SyncRemove, Finish, ResolvableInv, TypeOK, Removals, Removal, NoRemoval
  <2> QED
    BY <1>8, <2>1 DEF SyncRemove, ResolvableInv, Up, workerVars
<1>9. ASSUME NEW w \in Nodes, RunStep(w)
      PROVE  ResolvableInv'
  BY <1>9
  DEF RunStep, ResolvableInv, Up, redisVars
<1>10. ASSUME NEW w \in Nodes, RunReclaim(w)
      PROVE  ResolvableInv'
  BY <1>10
  DEF RunReclaim, ResolvableInv, Up, redisVars
<1>11. ASSUME NEW w \in Nodes, ReclaimDone(w)
      PROVE  ResolvableInv'
  BY <1>11
  DEF ReclaimDone, ResolvableInv, Up, redisVars
<1>12. ASSUME NEW w \in Nodes, NEW p \in Partitions, StepEmpty(w, p)
      PROVE  ResolvableInv'
  BY <1>12
  DEF StepEmpty, ResolvableInv, Up, redisVars
<1>13. ASSUME NEW w \in Nodes, NEW p \in Partitions, StepRead(w, p)
      PROVE  ResolvableInv'
  BY <1>13
  DEF StepRead, ResolvableInv, Up, InPass, TypeOK, Places
<1>14. ASSUME NEW w \in Nodes, NEW p \in Partitions, ReclaimEmpty(w, p)
      PROVE  ResolvableInv'
  BY <1>14
  DEF ReclaimEmpty, ResolvableInv, Up, redisVars
<1>15. ASSUME NEW w \in Nodes, NEW p \in Partitions, ReclaimClaim(w, p)
      PROVE  ResolvableInv'
  BY <1>15
  DEF ReclaimClaim, ResolvableInv, Up, InPass, TypeOK, Places
<1>16. ASSUME NEW w \in Nodes, Check(w)
      PROVE  ResolvableInv'
  BY <1>16
  DEF Check, ResolvableInv, Up, TypeOK, Places, redisVars
<1>17. ASSUME NEW w \in Nodes, Flush(w)
      PROVE  ResolvableInv'
  BY <1>17
  DEF Flush, ResolvableInv, Up, TypeOK, Places, redisVars
<1>18. ASSUME NEW w \in Nodes, FlushFails(w)
      PROVE  ResolvableInv'
  BY <1>18
  DEF FlushFails, ResolvableInv, Up, TypeOK, Places, redisVars
<1>19. ASSUME NEW w \in Nodes, ScanTombstone(w)
      PROVE  ResolvableInv'
  BY <1>19
  DEF ScanTombstone, ResolvableInv, Up, TypeOK, Places, redisVars
<1>20. ASSUME NEW w \in Nodes, NEW i \in msgs[w], NEW s \in Slices,
             Exec(w, i, s)
      PROVE  ResolvableInv'
  BY <1>20
  DEF Exec, ResolvableInv, Up
<1>21. ASSUME NEW w \in Nodes, Applied(w)
      PROVE  ResolvableInv'
  BY <1>21
  DEF Applied, ResolvableInv, Up, TypeOK, Places, redisVars
<1>22. ASSUME NEW w \in Nodes, NEW i \in fresh[w], Mark(w, i)
      PROVE  ResolvableInv'
  BY <1>22
  DEF Mark, ResolvableInv, Up
<1>23. ASSUME NEW w \in Nodes, Ack(w)
      PROVE  ResolvableInv'
  BY <1>23
  DEF Ack, ResolvableInv, Up, TypeOK, Places
<1>24. ASSUME NEW p \in Partitions, Age(p)
      PROVE  ResolvableInv'
  BY <1>24
  DEF Age, ResolvableInv, Up, workerVars
<1>25. ASSUME NEW w \in Nodes, RedisError(w)
      PROVE  ResolvableInv'
  BY <1>25
  DEF RedisError, ResolvableInv, Up, Alive, TypeOK, Places, redisVars
<1>26. ASSUME NEW n \in Nodes, CancelRequest(n)
      PROVE  ResolvableInv'
  BY <1>26
  DEF CancelRequest, ResolvableInv, Up, TypeOK, Removals, NoRemoval, redisVars, workerVars
<1>27. ASSUME NEW p \in Partitions, NEW i \in marked[p], ExpireMarker(p, i)
      PROVE  ResolvableInv'
  BY <1>27
  DEF ExpireMarker, ResolvableInv, Up, workerVars
<1>28. ASSUME NEW n \in Nodes, Crash(n)
      PROVE  ResolvableInv'
  BY <1>28
  DEF Crash, ResolvableInv, Up, TypeOK, Places, Removals, NoRemoval, redisVars
<1>29. ASSUME NEW n \in Nodes, Restart(n)
      PROVE  ResolvableInv'
  BY <1>29
  DEF Restart, ResolvableInv, Up, TypeOK, Places, redisVars
<1>30. CASE UNCHANGED coreVars
  BY <1>30 DEF coreVars, redisVars, ResolvableInv, Up
<1>31. ASSUME NEW n \in Nodes, NEW b \in Boards, SyncFails(n, b)
      PROVE  ResolvableInv'
  <2>1. \A v \in Nodes : rm'[v].tombs \subseteq stored
    BY <1>31 DEF SyncFails, Finish, ResolvableInv, TypeOK, Removals, Removal, NoRemoval
  <2> QED
    BY <1>31, <2>1 DEF SyncFails, ResolvableInv, Up, redisVars, workerVars
<1> QED
  BY <1>1, <1>2, <1>3, <1>4, <1>5, <1>6, <1>7, <1>8, <1>9, <1>10, <1>11, <1>12, <1>13, <1>14, <1>15, <1>16, <1>17, <1>18, <1>19, <1>20, <1>21, <1>22, <1>23, <1>24, <1>25, <1>26, <1>27, <1>28, <1>29, <1>30, <1>31 DEF CoreNext, Api, Consume, Failure

(* A registry only grows while its process is up, and holds the stored boards *)
(* when it has just been started.                                             *)
LEMMA RegistryGrows ==
  ASSUME TypeOK, [CoreNext]_coreVars, NEW w \in Nodes, Up(w)'
  PROVE  /\ stored \subseteq stored'
         /\ (Up(w) /\ registry[w] \subseteq registry'[w]) \/ registry'[w] = stored
<1> DEFINE Goal == /\ stored \subseteq stored'
                   /\ (Up(w) /\ registry[w] \subseteq registry'[w]) \/ registry'[w] = stored
<1>1. ASSUME NEW n \in Nodes, Api(n) PROVE Goal
  <2>1. UNCHANGED pc
    BY <1>1 DEF Api, HandleCreateBoard, ResolveBoard, HandleSubmit, HandleRemoveScore,
              HandleDeleteUser, AppendTombstone, SyncScan, SyncRemove, workerVars
  <2>2. stored \subseteq stored'
    BY <1>1 DEF Api, HandleCreateBoard, ResolveBoard, HandleSubmit, HandleRemoveScore,
              HandleDeleteUser, AppendTombstone, SyncScan, SyncRemove, redisVars
  <2>3. UNCHANGED registry \/ \E b : registry' = [registry EXCEPT ![n] = @ \cup {b}]
    BY <1>1 DEF Api, HandleCreateBoard, ResolveBoard, HandleSubmit, HandleRemoveScore,
              HandleDeleteUser, AppendTombstone, SyncScan, SyncRemove, redisVars
  <2>4. registry[w] \subseteq registry'[w]
    BY <2>3 DEF TypeOK
  <2> QED
    BY <2>1, <2>2, <2>4 DEF Up
<1>2. ASSUME NEW v \in Nodes, Consume(v) PROVE Goal
  <2>1. UNCHANGED <<registry, stored>>
    BY <1>2 DEF Consume, RunStep, RunReclaim, ReclaimDone, StepEmpty, StepRead,
              ReclaimEmpty, ReclaimClaim, Check, Flush, FlushFails, ScanTombstone,
              Exec, Applied, Mark, Ack, redisVars
  <2>2. pc[v] # "down"
    BY <1>2 DEF Consume, RunStep, RunReclaim, ReclaimDone, StepEmpty, StepRead, InPass,
              ReclaimEmpty, ReclaimClaim, Check, Flush, FlushFails, ScanTombstone,
              Exec, Applied, Mark, Ack
  <2>3. v # w => pc'[w] = pc[w]
    BY <1>2 DEF Consume, RunStep, RunReclaim, ReclaimDone, StepEmpty, StepRead,
              ReclaimEmpty, ReclaimClaim, Check, Flush, FlushFails, ScanTombstone,
              Exec, Applied, Mark, Ack, TypeOK, Places
  <2> QED
    BY <2>1, <2>2, <2>3 DEF Up
<1>3. ASSUME NEW n \in Nodes, Failure(n) PROVE Goal
  BY <1>3 DEF Failure, RedisError, CancelRequest, SyncFails, Crash, Alive, redisVars,
              workerVars, TypeOK, Places, Up
<1>4. ASSUME NEW n \in Nodes, Restart(n) PROVE Goal
  BY <1>4 DEF Restart, redisVars, TypeOK, Places, Up
<1>5. ASSUME NEW p \in Partitions, Age(p) \/ \E i \in marked[p] : ExpireMarker(p, i)
      PROVE  Goal
  BY <1>5 DEF Age, ExpireMarker, workerVars, Up
<1>6. CASE UNCHANGED coreVars
  BY <1>6 DEF coreVars, redisVars, Up
<1> QED
  BY <1>1, <1>2, <1>3, <1>4, <1>5, <1>6 DEF CoreNext

(* An entry is known to its owner when it is appended, or noted as unseen. *)
LEMMA AppendKnown ==
  ASSUME TypeOK, ResolvableInv, KnownInv, NEW n \in Nodes, NEW q \in Partitions, NEW r,
         Append1(n, q, r), r.board \in registry'[n], UNCHANGED pc,
         \A v \in Nodes : registry[v] \subseteq registry'[v]
  PROVE  KnownInv'
<1> SUFFICES ASSUME NEW p \in Partitions, NEW i \in (1 .. Len(log'[p])) \ unseen'[p],
                    NEW w \in Nodes, p \in OwnedPartitions(w), pc[w] # "down"
             PROVE  log'[p][i].board \in registry'[w]
  BY DEF KnownInv, Up, OwnedPartitions
<1>1. log[p] \in Seq(Record) /\ unseen \in EntrySets
  BY DEF TypeOK, Streams
<1>2. CASE p # q
  BY <1>1, <1>2 DEF KnownInv, Append1, TypeOK, Streams, Up, EntrySets
<1>3. CASE p = q
  <2>1. log'[p] = Append(log[p], r)
    BY <1>3 DEF Append1, TypeOK, Streams
  <2>2. Len(log'[p]) = Len(log[p]) + 1 /\ Len(log[p]) \in Nat
    BY <1>1, <2>1
  <2>3. unseen'[p] = unseen[p] \cup {j \in {Len(log[p]) + 1} : Unheard(n, p, r.board)}
    BY <1>1, <1>3 DEF Append1, EntrySets
  <2>4. CASE i = Len(log[p]) + 1
    <3>1. ~ Unheard(n, p, r.board)
      BY <2>3, <2>4
    <3>2. w = n \/ r.board \in registry[w]
      BY <3>1 DEF Unheard, Up
    <3>3. log'[p][i] = r
      BY <1>1, <2>1, <2>4
    <3> QED
      BY <3>2, <3>3
  <2>5. CASE i \in 1 .. Len(log[p])
    <3>1. log'[p][i] = log[p][i]
      BY <1>1, <2>1, <2>5
    <3>2. i \notin unseen[p]
      BY <2>3
    <3>3. log[p][i].board \in registry[w]
      BY <2>5, <3>2 DEF KnownInv, Up
    <3> QED
      BY <3>1, <3>3
  <2> QED
    BY <2>2, <2>4, <2>5
<1> QED
  BY <1>2, <1>3

LEMMA NextKnown ==
  ASSUME TypeOK, ResolvableInv, KnownInv, [CoreNext]_coreVars
  PROVE  KnownInv'
<1>1. CASE UNCHANGED <<log, unseen>>
  <2> SUFFICES ASSUME NEW p \in Partitions, NEW i \in (1 .. Len(log[p])) \ unseen[p],
                      NEW w \in Nodes, p \in OwnedPartitions(w), Up(w)'
               PROVE  log[p][i].board \in registry'[w]
    BY <1>1 DEF KnownInv, OwnedPartitions
  <2>1. log[p][i].board \in stored
    BY DEF ResolvableInv
  <2>2. Up(w) => log[p][i].board \in registry[w]
    BY DEF KnownInv
  <2> QED
    BY <2>1, <2>2, RegistryGrows
<1>2. ASSUME NEW n \in Nodes, NEW r \in Submissions, HandleSubmit(n, r) PROVE KnownInv'
  <2> DEFINE q == PartitionOf(r.board, r.member)
             e == [op |-> "submit", board |-> r.board, member |-> r.member,
                   score |-> r.score, slices |-> r.slices, ok |-> r.ok]
  <2>1. q \in Partitions
    BY SubmissionsAssumption, PartitionOfType
  <2>2. Append1(n, q, e) /\ e.board \in registry'[n] /\ UNCHANGED <<pc, registry>>
    BY <1>2 DEF HandleSubmit, workerVars
  <2> HIDE DEF q, e
  <2> QED
    BY <2>1, <2>2, AppendKnown
<1>3. ASSUME NEW n \in Nodes, NEW b \in Boards, AppendTombstone(n, b) PROVE KnownInv'
  <2> DEFINE q == PartitionOf(b, rm[n].member)
             e == [op |-> "remove", board |-> b, member |-> rm[n].member]
  <2>0. rm[n].member \in Members
    BY <1>3 DEF AppendTombstone, TypeOK, Removals, Removal, NoRemoval
  <2>1. q \in Partitions
    BY <2>0, PartitionOfType
  <2>2. /\ Append1(n, q, e) /\ UNCHANGED pc
        /\ registry' = [registry EXCEPT ![n] = @ \cup {b}]
    BY <1>3 DEF AppendTombstone, workerVars
  <2>3. e.board \in registry'[n] /\ \A v \in Nodes : registry[v] \subseteq registry'[v]
    BY <2>2 DEF TypeOK
  <2> HIDE DEF q, e
  <2> QED
    BY <2>1, <2>2, <2>3, AppendKnown
<1> QED
  BY <1>1, <1>2, <1>3, Frame DEF Appends

(* Every step keeps the acknowledged entries marked, or excused. *)
LEMMA AppendUnseen ==
  ASSUME TypeOK, NEW n, NEW q, NEW r, Append1(n, q, r), NEW p \in Partitions
  PROVE  unseen[p] \subseteq unseen'[p]
BY DEF Append1, TypeOK, EntrySets

LEMMA NextHandled ==
  ASSUME TypeOK, DeliveryInv, KnownInv, HandledInv, [CoreNext]_coreVars
  PROVE  HandledInv'
<1>1. ASSUME NEW n \in Nodes, NEW b \in Boards, HandleCreateBoard(n, b)
      PROVE  HandledInv'
  BY <1>1
  DEF HandleCreateBoard, HandledInv, DropsAreUnseen, Acked, workerVars
<1>2. ASSUME NEW n \in Nodes, NEW b \in Boards, ResolveBoard(n, b)
      PROVE  HandledInv'
  BY <1>2
  DEF ResolveBoard, HandledInv, DropsAreUnseen, Acked, redisVars, workerVars
<1>3. ASSUME NEW n \in Nodes, NEW r \in Submissions, HandleSubmit(n, r)
      PROVE  HandledInv'
  <2>1. \A p \in Partitions : unseen[p] \subseteq unseen'[p]
    BY <1>3, AppendUnseen DEF HandleSubmit
  <2>2. UNCHANGED <<delivered, pending, marked, pc, msgs, fresh, part>>
    BY <1>3 DEF HandleSubmit, workerVars
  <2>3. \A w \in Nodes : part[w] \in Partitions
    BY DEF TypeOK
  <2> QED
    BY <2>1, <2>2, <2>3 DEF HandledInv, DropsAreUnseen, Acked
<1>4. ASSUME NEW n \in Nodes, NEW b \in Boards, NEW m \in Moderated,
             HandleRemoveScore(n, b, m)
      PROVE  HandledInv'
  BY <1>4
  DEF HandleRemoveScore, HandledInv, DropsAreUnseen, Acked, redisVars, workerVars
<1>5. ASSUME NEW n \in Nodes, NEW m \in Moderated, HandleDeleteUser(n, m)
      PROVE  HandledInv'
  BY <1>5
  DEF HandleDeleteUser, HandledInv, DropsAreUnseen, Acked, redisVars, workerVars
<1>6. ASSUME NEW n \in Nodes, NEW b \in Boards, AppendTombstone(n, b)
      PROVE  HandledInv'
  <2>1. \A p \in Partitions : unseen[p] \subseteq unseen'[p]
    BY <1>6, AppendUnseen DEF AppendTombstone
  <2>2. UNCHANGED <<delivered, pending, marked, pc, msgs, fresh, part>>
    BY <1>6 DEF AppendTombstone, workerVars
  <2>3. \A w \in Nodes : part[w] \in Partitions
    BY DEF TypeOK
  <2> QED
    BY <2>1, <2>2, <2>3 DEF HandledInv, DropsAreUnseen, Acked
<1>7. ASSUME NEW n \in Nodes, NEW b \in Boards, SyncScan(n, b)
      PROVE  HandledInv'
  BY <1>7
  DEF SyncScan, HandledInv, DropsAreUnseen, Acked, redisVars, workerVars
<1>8. ASSUME NEW n \in Nodes, NEW k \in Boards \X Slices, SyncRemove(n, k)
      PROVE  HandledInv'
  BY <1>8
  DEF SyncRemove, HandledInv, DropsAreUnseen, Acked, workerVars
<1>9. ASSUME NEW w \in Nodes, RunStep(w)
      PROVE  HandledInv'
  BY <1>9
  DEF RunStep, HandledInv, DropsAreUnseen, Acked, redisVars
<1>10. ASSUME NEW w \in Nodes, RunReclaim(w)
      PROVE  HandledInv'
  BY <1>10
  DEF RunReclaim, HandledInv, DropsAreUnseen, Acked, redisVars
<1>11. ASSUME NEW w \in Nodes, ReclaimDone(w)
      PROVE  HandledInv'
  BY <1>11
  DEF ReclaimDone, HandledInv, DropsAreUnseen, Acked, redisVars
<1>12. ASSUME NEW w \in Nodes, NEW p \in Partitions, StepEmpty(w, p)
      PROVE  HandledInv'
  BY <1>12
  DEF StepEmpty, HandledInv, DropsAreUnseen, Acked, redisVars
<1>13. ASSUME NEW w \in Nodes, NEW p \in Partitions, StepRead(w, p)
      PROVE  HandledInv'
  <2>1. \A q \in Partitions : Acked(q)' \subseteq Acked(q)
    BY <1>13, BatchAssumption
    DEF StepRead, Acked, LastRead, NextRead, TypeOK, Streams, EntrySets
  <2> QED
    BY <1>13, <2>1 DEF StepRead, InPass, HandledInv, DropsAreUnseen, TypeOK, HeldSets, Places
<1>14. ASSUME NEW w \in Nodes, NEW p \in Partitions, ReclaimEmpty(w, p)
      PROVE  HandledInv'
  BY <1>14
  DEF ReclaimEmpty, HandledInv, DropsAreUnseen, Acked, redisVars
<1>15. ASSUME NEW w \in Nodes, NEW p \in Partitions, ReclaimClaim(w, p)
      PROVE  HandledInv'
  BY <1>15
  DEF ReclaimClaim, HandledInv, DropsAreUnseen, Acked, InPass, TypeOK, HeldSets, Places
<1>16. ASSUME NEW w \in Nodes, Check(w)
      PROVE  HandledInv'
  <2>1. ASSUME NEW i \in msgs[w], i \notin unseen[part[w]]
        PROVE  log[part[w]][i].board \in registry[w]
    <3>1. i \in 1 .. Len(log[part[w]])
      BY EntryInLog DEF DeliveryInv
    <3>2. part[w] \in Partitions /\ part[w] \in OwnedPartitions(w)
      BY DEF DeliveryInv, OwnedInv, TypeOK
    <3> QED
      BY <1>16, <2>1, <3>1, <3>2 DEF Check, KnownInv, Up
  <2>2. msgs[w] \subseteq ToApply(w) \cup marked[part[w]] \cup unseen[part[w]]
    BY <2>1 DEF ToApply
  <2> QED
    BY <1>16, <2>2
    DEF Check, HandledInv, DropsAreUnseen, Acked, TypeOK, HeldSets, Places, redisVars
<1>17. ASSUME NEW w \in Nodes, Flush(w)
      PROVE  HandledInv'
  BY <1>17
  DEF Flush, HandledInv, DropsAreUnseen, Acked, redisVars
<1>18. ASSUME NEW w \in Nodes, FlushFails(w)
      PROVE  HandledInv'
  BY <1>18
  DEF FlushFails, HandledInv, DropsAreUnseen, Acked, DropBatch, TypeOK, Places, HeldSets, redisVars
<1>19. ASSUME NEW w \in Nodes, ScanTombstone(w)
      PROVE  HandledInv'
  BY <1>19
  DEF ScanTombstone, HandledInv, DropsAreUnseen, Acked, redisVars
<1>20. ASSUME NEW w \in Nodes, NEW i \in msgs[w], NEW s \in Slices,
             Exec(w, i, s)
      PROVE  HandledInv'
  BY <1>20
  DEF Exec, HandledInv, DropsAreUnseen, Acked
<1>21. ASSUME NEW w \in Nodes, Applied(w)
      PROVE  HandledInv'
  BY <1>21
  DEF Applied, HandledInv, DropsAreUnseen, Acked, TypeOK, Places, redisVars
<1>22. ASSUME NEW w \in Nodes, NEW i \in fresh[w], Mark(w, i)
      PROVE  HandledInv'
  BY <1>22
  DEF Mark, HandledInv, DropsAreUnseen, Acked, TypeOK, EntrySets, HeldSets
<1>23. ASSUME NEW w \in Nodes, Ack(w)
      PROVE  HandledInv'
  <2>1. msgs[w] \subseteq marked[part[w]] \cup unseen[part[w]]
    BY <1>23 DEF Ack, HandledInv
  <2>2. \A q \in Partitions : Acked(q)' \subseteq Acked(q) \cup marked[q] \cup unseen[q]
    BY <1>23, <2>1 DEF Ack, Acked, TypeOK, EntrySets
  <2> QED
    BY <1>23, <2>2 DEF Ack, HandledInv, DropsAreUnseen, TypeOK, HeldSets, Places
<1>24. ASSUME NEW p \in Partitions, Age(p)
      PROVE  HandledInv'
  BY <1>24
  DEF Age, HandledInv, DropsAreUnseen, Acked, workerVars
<1>25. ASSUME NEW w \in Nodes, RedisError(w)
      PROVE  HandledInv'
  BY <1>25
  DEF RedisError, HandledInv, DropsAreUnseen, Acked, DropBatch, TypeOK, HeldSets, Places, redisVars
<1>26. ASSUME NEW n \in Nodes, CancelRequest(n)
      PROVE  HandledInv'
  BY <1>26
  DEF CancelRequest, HandledInv, DropsAreUnseen, Acked, redisVars, workerVars
<1>27. ASSUME NEW p \in Partitions, NEW i \in marked[p], ExpireMarker(p, i)
      PROVE  HandledInv'
  <2>1. DropsAreUnseen'
    BY <1>27 DEF ExpireMarker, HandledInv, DropsAreUnseen, Acked, TypeOK, EntrySets
  <2>2. ASSUME NEW v \in Nodes, pc[v] \in {"apply", "mark"}, msgs[v] # {}
        PROVE  part[v] # p
    BY <1>27, <2>2 DEF ExpireMarker, Alive, DeliveryInv, OwnedInv
  <2> QED
    BY <1>27, <2>1, <2>2 DEF ExpireMarker, HandledInv, TypeOK, EntrySets, workerVars
<1>28. ASSUME NEW n \in Nodes, Crash(n)
      PROVE  HandledInv'
  BY <1>28
  DEF Crash, HandledInv, DropsAreUnseen, Acked, DropBatch, TypeOK, HeldSets, Places, redisVars
<1>29. ASSUME NEW n \in Nodes, Restart(n)
      PROVE  HandledInv'
  BY <1>29
  DEF Restart, HandledInv, DropsAreUnseen, Acked, TypeOK, Places, redisVars
<1>30. CASE UNCHANGED coreVars
  BY <1>30 DEF coreVars, redisVars, HandledInv, DropsAreUnseen, Acked
<1>31. ASSUME NEW n \in Nodes, NEW b \in Boards, SyncFails(n, b)
      PROVE  HandledInv'
  BY <1>31
  DEF SyncFails, HandledInv, DropsAreUnseen, Acked, redisVars, workerVars
<1> QED
  BY <1>1, <1>2, <1>3, <1>4, <1>5, <1>6, <1>7, <1>8, <1>9, <1>10, <1>11, <1>12, <1>13, <1>14, <1>15, <1>16, <1>17, <1>18, <1>19, <1>20, <1>21, <1>22, <1>23, <1>24, <1>25, <1>26, <1>27, <1>28, <1>29, <1>30, <1>31 DEF CoreNext, Api, Consume, Failure

(* An entry is acknowledged unapplied only when another process accepted it     *)
(* while the owner of its partition was up and had not heard of the board: no    *)
(* crash, restart, reclaim or expired marker loses one, for any number of        *)
(* processes and whenever boards are defined.                                    *)
THEOREM OnlyUnseenAreDropped == Spec => []DropsAreUnseen
<1> DEFINE J == TypeOK /\ DeliveryInv /\ ResolvableInv /\ KnownInv /\ HandledInv
<1>1. Init => J
  <2>1. Init => ResolvableInv /\ KnownInv /\ HandledInv
    BY DEF Init, ResolvableInv, KnownInv, HandledInv, DropsAreUnseen, Acked, NoRemoval
  <2> QED
    BY <2>1, InitType, InitDelivery
<1>2. J /\ [Next]_vars => J'
  BY StepIsCore, NextType, NextDelivery, NextResolvable, NextKnown, NextHandled DEF DeliveryInv
<1>3. J => DropsAreUnseen
  BY DEF HandledInv
<1> QED
  BY <1>1, <1>2, <1>3, PTL DEF Spec

----------------------------------------------------------------------------
(* Where scores come from, and the order in which a batch is applied. *)

(* Every entry is in the partition of its board and member. *)
PlacedInv ==
  \A p \in Partitions : \A i \in 1 .. Len(log[p]) :
    PartitionOf(log[p][i].board, log[p][i].member) = p

(* applyRecords goes through the batch in log order: what it has turned into   *)
(* commands comes before what is left, a queued tombstone or submit comes after *)
(* every tombstone turned into commands, and a submit is only sent to the       *)
(* slices of its fan-out.  What is being applied has no marker yet.             *)
OrderInv ==
  \A w \in Nodes :
    /\ \A i \in fresh[w] \ recs[w] : \A j \in recs[w] : i < j
    /\ \A o \in ops[w] : \A j \in fresh[w] \ recs[w] : Op(w, j) = "remove" => j <= o[1]
    /\ \A o \in ops[w] : Op(w, o[1]) = "submit" => o[2] \in log[part[w]][o[1]].slices
    /\ pc[w] = "apply" => fresh[w] \cap marked[part[w]] = {}

(* Without faults the only entries pending are the batch in hand, or what a   *)
(* stopped consumer left, and markers are older than the batch being applied. *)
InOrderInv ==
  FaultFree =>
    \A w \in Nodes :
      /\ pc[w] # "down"
      /\ \A p \in OwnedPartitions(w) :
           pending[p] # {} => pc[w] = "stopped" \/ (part[w] = p /\ pending[p] \subseteq msgs[w])
      /\ pc[w] \in {"check", "apply"} =>
           \A i \in msgs[w] : \A j \in marked[part[w]] : j < i

(* Entry j of partition p has been executed on slice s. *)
Done(p, j, s) ==
  \/ j \in marked[p]
  \/ \E w \in Nodes : part[w] = p /\ j \in fresh[w] \ recs[w] /\ <<j, s>> \notin ops[w]

IsSubmit(r, c, x) == r.op = "submit" /\ c[2] \in r.slices /\ Cell(r, c[2]) = c /\ r.score = x
IsRemoval(r, c)   == r.op = "remove" /\ r.board = c[1] /\ r.member = c[3]

(* Every ranked score comes from a delivered submit, and without faults no     *)
(* removal after that submit has been executed.                               *)
Source(c, i) ==
  LET p == PartitionOf(c[1], c[3])
  IN /\ i \in 1 .. delivered[p]
     /\ IsSubmit(log[p][i], c, board[c])
     /\ FaultFree => \A j \in i .. Len(log[p]) : IsRemoval(log[p][j], c) => ~ Done(p, j, c[2])

SourceInv ==
  \A c \in Boards \X Slices \X Members :
    (board[c] # None /\ PolicyOf[c[1]] # "increment") => \E i \in Nat : Source(c, i)

OrderedInv == TypeOK /\ DeliveryInv /\ PlacedInv /\ OrderInv /\ InOrderInv

(* A batch stays with the partition it was read from, and its entries with it. *)
LEMMA HeldStable ==
  ASSUME TypeOK, DeliveryInv, [CoreNext]_coreVars, NEW w \in Nodes, NEW i \in msgs[w]
  PROVE  /\ part'[w] = part[w]
         /\ i \in 1 .. Len(log[part[w]]) /\ log[part[w]][i] \in Record
         /\ log'[part'[w]][i] = log[part[w]][i]
<1>1. ASSUME NEW v \in Nodes, NEW p \in Partitions, StepRead(v, p) \/ ReclaimClaim(v, p)
      PROVE  part'[w] = part[w]
  <2>1. pc[v] = "poll" /\ part' = [part EXCEPT ![v] = p]
    BY <1>1 DEF StepRead, ReclaimClaim, InPass
  <2>2. v # w
    BY <2>1 DEF DeliveryInv, BatchInv
  <2> QED
    BY <2>1, <2>2 DEF TypeOK
<1>2. part'[w] = part[w]
  BY <1>1, Frame DEF Reads
<1> QED
  BY <1>2, EntryInLog, LogGrows DEF DeliveryInv

(* Two workers never hold entries of one partition. *)
LEMMA OneHolder ==
  ASSUME DeliveryInv, NEW v \in Nodes, NEW w \in Nodes,
         msgs[v] # {}, msgs[w] # {}, part[v] = part[w]
  PROVE  v = w
BY OwnershipPartitions DEF DeliveryInv, OwnedInv

(* A worker starts to apply a batch by checking it. *)
LEMMA ApplyStarts ==
  ASSUME TypeOK, [CoreNext]_coreVars, NEW v \in Nodes, pc'[v] = "apply"
  PROVE  pc[v] = "apply" \/ Check(v)
<1>1. ASSUME NEW n \in Nodes, Api(n) PROVE pc' = pc
  BY <1>1 DEF Api, HandleCreateBoard, ResolveBoard, HandleSubmit, HandleRemoveScore,
              HandleDeleteUser, AppendTombstone, SyncScan, SyncRemove, workerVars
<1>2. ASSUME NEW w \in Nodes, Consume(w), ~ Check(w) PROVE pc[v] = "apply"
  BY <1>2 DEF Consume, RunStep, RunReclaim, ReclaimDone, StepEmpty, StepRead,
              ReclaimEmpty, ReclaimClaim, Flush, FlushFails, ScanTombstone,
              Exec, Applied, Mark, Ack, TypeOK, Places
<1>3. ASSUME NEW w \in Nodes, Check(w) PROVE pc[v] = "apply" \/ Check(v)
  BY <1>3 DEF Check, TypeOK, Places
<1>4. ASSUME NEW n \in Nodes, Failure(n) \/ Restart(n) PROVE pc[v] = "apply"
  BY <1>4 DEF Failure, RedisError, CancelRequest, SyncFails, Crash, Restart,
              workerVars, TypeOK, Places
<1>5. ASSUME NEW p \in Partitions, Age(p) \/ \E i \in marked[p] : ExpireMarker(p, i)
      PROVE  pc' = pc
  BY <1>5 DEF Age, ExpireMarker, workerVars
<1>6. CASE UNCHANGED coreVars
  BY <1>6 DEF coreVars
<1> QED
  BY <1>1, <1>2, <1>3, <1>4, <1>5, <1>6 DEF CoreNext

(* Every entry is appended to the partition of its board and member. *)
LEMMA NextPlaced ==
  ASSUME TypeOK, PlacedInv, [CoreNext]_coreVars
  PROVE  PlacedInv'
<1> SUFFICES ASSUME NEW p \in Partitions, NEW i \in 1 .. Len(log'[p])
             PROVE  PartitionOf(log'[p][i].board, log'[p][i].member) = p
  BY DEF PlacedInv, PartitionOf
<1>0. log[p] \in Seq(Record)
  BY DEF TypeOK, Streams
<1>1. CASE UNCHANGED log
  BY <1>1 DEF PlacedInv
<1>2. ASSUME NEW q, NEW r, PartitionOf(r.board, r.member) = q,
             log' = [log EXCEPT ![q] = Append(@, r)]
      PROVE  PartitionOf(log'[p][i].board, log'[p][i].member) = p
  <2>1. CASE q # p
    BY <1>2, <2>1 DEF TypeOK, Streams, PlacedInv
  <2>2. CASE q = p
    <3>1. log'[p] = Append(log[p], r)
      BY <1>2, <2>2 DEF TypeOK, Streams
    <3>2. CASE i = Len(log[p]) + 1
      BY <1>0, <1>2, <2>2, <3>1, <3>2
    <3>3. CASE i \in 1 .. Len(log[p])
      BY <1>0, <3>1, <3>3 DEF PlacedInv
    <3> QED
      BY <1>0, <3>1, <3>2, <3>3
  <2> QED
    BY <2>1, <2>2
<1>3. ASSUME NEW n \in Nodes, NEW r \in Submissions, HandleSubmit(n, r)
      PROVE  PartitionOf(log'[p][i].board, log'[p][i].member) = p
  <2> DEFINE e == [op |-> "submit", board |-> r.board, member |-> r.member,
                   score |-> r.score, slices |-> r.slices, ok |-> r.ok]
  <2>1. /\ e.board = r.board /\ e.member = r.member
        /\ log' = [log EXCEPT ![PartitionOf(r.board, r.member)] = Append(@, e)]
    BY <1>3 DEF HandleSubmit, Append1
  <2> QED
    BY <1>2, <2>1
<1>4. ASSUME NEW n \in Nodes, NEW b \in Boards, AppendTombstone(n, b)
      PROVE  PartitionOf(log'[p][i].board, log'[p][i].member) = p
  <2> DEFINE e == [op |-> "remove", board |-> b, member |-> rm[n].member]
  <2>1. /\ e.board = b /\ e.member = rm[n].member
        /\ log' = [log EXCEPT ![PartitionOf(b, rm[n].member)] = Append(@, e)]
    BY <1>4 DEF AppendTombstone, Append1
  <2> QED
    BY <1>2, <2>1
<1> QED
  BY <1>1, <1>3, <1>4, Frame DEF Appends

(* The order of a batch, for one worker. *)
LEMMA NextOrder ==
  ASSUME TypeOK, DeliveryInv, OrderInv, [CoreNext]_coreVars
  PROVE  OrderInv'
<1> SUFFICES ASSUME NEW v \in Nodes
             PROVE  /\ \A i \in fresh'[v] \ recs'[v] : \A j \in recs'[v] : i < j
                    /\ \A o \in ops'[v] : \A j \in fresh'[v] \ recs'[v] :
                         log'[part'[v]][j].op = "remove" => j <= o[1]
                    /\ \A o \in ops'[v] : log'[part'[v]][o[1]].op = "submit" =>
                                            o[2] \in log'[part'[v]][o[1]].slices
                    /\ pc'[v] = "apply" => fresh'[v] \cap marked'[part'[v]] = {}
  BY DEF OrderInv, Op
<1> DEFINE Goal == /\ \A i \in fresh'[v] \ recs'[v] : \A j \in recs'[v] : i < j
                   /\ \A o \in ops'[v] : \A j \in fresh'[v] \ recs'[v] :
                        log'[part'[v]][j].op = "remove" => j <= o[1]
                   /\ \A o \in ops'[v] : log'[part'[v]][o[1]].op = "submit" =>
                                           o[2] \in log'[part'[v]][o[1]].slices
                   /\ pc'[v] = "apply" => fresh'[v] \cap marked'[part'[v]] = {}
<1>0. /\ recs[v] \subseteq fresh[v] /\ fresh[v] \subseteq msgs[v]
      /\ \A o \in ops[v] : o[1] \in fresh[v] \ recs[v]
      /\ msgs[v] \subseteq Nat
  BY DEF DeliveryInv, BatchInv, TypeOK, HeldSets
<1>1. ASSUME NEW i \in fresh[v]
      PROVE  part'[v] = part[v] /\ log'[part'[v]][i] = log[part[v]][i]
  BY <1>0, HeldStable
<1>2. ASSUME fresh'[v] = fresh[v], recs'[v] = recs[v], ops'[v] \subseteq ops[v]
      PROVE  Goal
  <2>1. CASE fresh[v] = {}
    BY <1>0, <1>2, <2>1
  <2>2. CASE fresh[v] # {}
    <3>1. part'[v] = part[v]
      BY <1>1, <2>2
    <3>2. \A i \in fresh'[v] \ recs'[v] : \A j \in recs'[v] : i < j
      BY <1>2 DEF OrderInv
    <3>3. \A o \in ops'[v] : \A j \in fresh'[v] \ recs'[v] :
            log'[part'[v]][j].op = "remove" => j <= o[1]
      BY <1>1, <1>2 DEF OrderInv, Op
    <3>4. \A o \in ops'[v] : log'[part'[v]][o[1]].op = "submit" =>
                               o[2] \in log'[part'[v]][o[1]].slices
      BY <1>0, <1>1, <1>2 DEF OrderInv, Op
    <3>5. ASSUME pc'[v] = "apply" PROVE fresh'[v] \cap marked'[part'[v]] = {}
      <4>1. CASE Check(v)
        BY <2>2, <4>1 DEF Check, DeliveryInv, BatchInv
      <4>2. CASE pc[v] = "apply"
        <5>1. fresh[v] \cap marked[part[v]] = {}
          BY <4>2 DEF OrderInv
        <5>2. ASSUME NEW w \in Nodes, NEW i \in fresh[w], Mark(w, i)
              PROVE  marked'[part[v]] = marked[part[v]]
          <6>1. w # v
            BY <4>2, <5>2 DEF Mark
          <6>2. msgs[w] # {} /\ msgs[v] # {}
            BY <1>0, <2>2, <5>2 DEF DeliveryInv, BatchInv
          <6>3. part[w] # part[v]
            BY <6>1, <6>2, OneHolder
          <6> QED
            BY <5>2, <6>3 DEF Mark, TypeOK, EntrySets
        <5>3. Expires => marked'[part[v]] \subseteq marked[part[v]]
          BY DEF Expires, ExpireMarker, TypeOK, EntrySets
        <5> QED
          BY <1>2, <3>1, <5>1, <5>2, <5>3, Frame DEF Marks
      <4> QED
        BY <3>5, <4>1, <4>2, ApplyStarts
    <3> QED
      BY <3>2, <3>3, <3>4, <3>5
  <2> QED
    BY <2>1, <2>2
<1>3. ASSUME UNCHANGED <<fresh, recs, ops>> PROVE Goal
  BY <1>2, <1>3
<1>4. ASSUME NEW w \in Nodes, w # v,
             \/ Check(w) \/ Flush(w) \/ FlushFails(w) \/ ScanTombstone(w)
             \/ \E j \in msgs[w], t \in Slices : Exec(w, j, t)
             \/ \E j \in fresh[w] : Mark(w, j)
             \/ RedisError(w) \/ Crash(w)
      PROVE  Goal
  <2>1. fresh'[v] = fresh[v] /\ recs'[v] = recs[v] /\ ops'[v] = ops[v]
    BY <1>4 DEF Check, Flush, FlushFails, ScanTombstone, Exec, Mark, RedisError,
                Crash, DropBatch, TypeOK, HeldSets, Queues
  <2> QED
    BY <1>2, <2>1
<1>5. ASSUME Check(v) PROVE Goal
  <2>1. /\ fresh'[v] = ToApply(v) /\ recs'[v] = ToApply(v) /\ ops'[v] = ops[v]
        /\ part' = part /\ marked' = marked
    BY <1>5 DEF Check, TypeOK, HeldSets, redisVars
  <2>2. ops[v] = {}
    BY <1>5, <1>0 DEF Check, DeliveryInv, BatchInv
  <2> QED
    BY <2>1, <2>2 DEF ToApply
<1>6. ASSUME FlushFails(v) \/ RedisError(v) \/ Crash(v) PROVE Goal
  BY <1>6 DEF FlushFails, RedisError, Crash, DropBatch, TypeOK, HeldSets, Queues
<1>7. ASSUME Flush(v) PROVE Goal
  <2>1. /\ fresh'[v] = fresh[v] /\ recs'[v] = recs[v] \ NextSubmits(v)
        /\ ops'[v] = {o \in NextSubmits(v) \X Slices : o[2] \in log[part[v]][o[1]].slices}
        /\ part' = part /\ marked' = marked /\ log' = log /\ pc[v] = "apply"
    BY <1>7 DEF Flush, TypeOK, HeldSets, Queues, redisVars
  <2>2. ASSUME NEW i \in NextSubmits(v), NEW j \in recs[v] \ NextSubmits(v)
        PROVE  i < j
    <3> SUFFICES ASSUME j <= i PROVE j \in NextSubmits(v)
      BY <1>0 DEF NextSubmits
    <3>1. \A k \in recs[v] : k <= j => k <= i
      BY <1>0 DEF NextSubmits
    <3> QED
      BY <3>1 DEF NextSubmits
  <2>3. \A i \in fresh'[v] \ recs'[v] : \A j \in recs'[v] : i < j
    BY <2>1, <2>2 DEF OrderInv
  <2>4. ASSUME NEW o \in ops'[v], NEW j \in fresh'[v] \ recs'[v],
               log'[part'[v]][j].op = "remove"
        PROVE  j <= o[1]
    <3>1. o[1] \in NextSubmits(v) /\ o[1] \in recs[v]
      BY <2>1 DEF NextSubmits
    <3>2. j \notin NextSubmits(v)
      <4> SUFFICES ASSUME j \in NextSubmits(v) PROVE FALSE
        OBVIOUS
      <4>1. j \in recs[v] /\ j \in Nat /\ (j <= j => Op(v, j) = "submit")
        BY <1>0 DEF NextSubmits
      <4> QED
        BY <2>1, <2>4, <4>1 DEF Op
    <3>3. j \in fresh[v] \ recs[v]
      BY <2>1, <3>2
    <3>4. j < o[1] /\ j \in Nat /\ o[1] \in Nat
      BY <1>0, <3>1, <3>3 DEF OrderInv
    <3> QED
      BY <3>4
  <2>5. fresh'[v] \cap marked'[part'[v]] = {}
    BY <2>1 DEF OrderInv
  <2> QED
    BY <2>1, <2>3, <2>4, <2>5
<1>8. ASSUME ScanTombstone(v) PROVE Goal
  <2>1. PICK i \in recs[v] :
          /\ \A j \in recs[v] : i <= j
          /\ ops'[v] = {i} \X scanBoardKeys(log[part[v]][i].board)
          /\ recs'[v] = recs[v] \ {i}
    BY <1>8 DEF ScanTombstone, TypeOK, HeldSets, Queues
  <2>2. /\ fresh'[v] = fresh[v] /\ part' = part /\ marked' = marked /\ log' = log
        /\ pc[v] = "apply" /\ NextSubmits(v) = {}
    BY <1>8 DEF ScanTombstone, redisVars
  <2>3. Op(v, i) # "submit"
    <3> SUFFICES ASSUME Op(v, i) = "submit" PROVE i \in NextSubmits(v)
      BY <2>2
    <3>1. \A j \in recs[v] : j <= i => j = i
      BY <1>0, <2>1
    <3> QED
      BY <3>1 DEF NextSubmits
  <2>4. \A j \in recs'[v] : i < j
    BY <1>0, <2>1
  <2>5. \A j \in fresh[v] \ recs[v] : j < i /\ j <= i
    BY <1>0, <2>1 DEF OrderInv
  <2>6. \A k \in fresh'[v] \ recs'[v] : \A j \in recs'[v] : k < j
    BY <2>1, <2>2, <2>4 DEF OrderInv
  <2>7. \A o \in ops'[v] : o[1] = i
    BY <2>1
  <2>8. i <= i
    BY <1>0
  <2>9. \A o \in ops'[v] : \A j \in fresh'[v] \ recs'[v] : j <= o[1]
    BY <2>1, <2>2, <2>5, <2>7, <2>8
  <2>10. fresh'[v] \cap marked'[part'[v]] = {}
    BY <2>2 DEF OrderInv
  <2> QED
    BY <2>2, <2>3, <2>6, <2>7, <2>9, <2>10 DEF Op
<1>9. ASSUME NEW j \in msgs[v], NEW t \in Slices, Exec(v, j, t) PROVE Goal
  <2>1. fresh'[v] = fresh[v] /\ recs'[v] = recs[v] /\ ops'[v] \subseteq ops[v]
    BY <1>9 DEF Exec, TypeOK, Queues
  <2> QED
    BY <1>2, <2>1
<1>10. ASSUME NEW j \in fresh[v], Mark(v, j) PROVE Goal
  <2>1. recs[v] = {} /\ ops[v] = {}
    BY <1>10 DEF Mark, DeliveryInv, BatchInv
  <2>2. recs'[v] = {} /\ ops'[v] = {} /\ pc'[v] = "mark"
    BY <1>10, <2>1 DEF Mark
  <2> QED
    BY <2>2
<1> HIDE DEF Goal
<1>11. Goal
  BY <1>3, <1>4, <1>5, <1>6, <1>7, <1>8, <1>9, <1>10, Frame DEF Handles
<1> QED
  BY <1>11 DEF Goal

(* Which steps move a batch along. *)
Moves ==
  \/ Reads \/ Marks \/ Expires
  \/ \E w \in Nodes : \/ Check(w) \/ FlushFails(w) \/ Applied(w) \/ Ack(w)
                      \/ RedisError(w) \/ Crash(w) \/ Restart(w)

LEMMA MoveFrame ==
  ASSUME [CoreNext]_coreVars
  PROVE  UNCHANGED <<delivered, pending, marked, pc, part, msgs>> \/ Moves
<1> DEFINE Goal == UNCHANGED <<delivered, pending, marked, pc, part, msgs>> \/ Moves
<1>1. ASSUME NEW n \in Nodes, Api(n) PROVE Goal
  BY <1>1 DEF Api, HandleCreateBoard, ResolveBoard, HandleSubmit, HandleRemoveScore,
              HandleDeleteUser, AppendTombstone, SyncScan, SyncRemove, redisVars,
              workerVars
<1>2. ASSUME NEW w \in Nodes, Consume(w) PROVE Goal
  BY <1>2 DEF Consume, RunStep, RunReclaim, ReclaimDone, StepEmpty, ReclaimEmpty,
              Flush, ScanTombstone, Exec, redisVars, Moves, Reads, Marks
<1>3. ASSUME NEW n \in Nodes, Failure(n) \/ Restart(n) PROVE Goal
  BY <1>3 DEF Failure, CancelRequest, SyncFails, redisVars, workerVars, Moves
<1>4. ASSUME NEW p \in Partitions, Age(p) \/ \E i \in marked[p] : ExpireMarker(p, i)
      PROVE  Goal
  BY <1>4 DEF Age, workerVars, Expires, Moves
<1>5. CASE UNCHANGED coreVars
  BY <1>5 DEF coreVars, redisVars
<1> QED
  BY <1>1, <1>2, <1>3, <1>4, <1>5 DEF CoreNext

(* A behaviour without faults so far has had none, and this step is none. *)
LEMMA FaultFreeSteps ==
  ASSUME TypeOK, [CoreNext]_coreVars, FaultFree'
  PROVE  /\ FaultFree /\ ~ Expires
         /\ \A w \in Nodes : ~ RedisError(w) /\ ~ Crash(w)
<1>0. /\ {"crash", "error", "expire", "cancel", "sync"} = FaultKinds
      /\ faults'["crash"] = 0 /\ faults'["error"] = 0 /\ faults'["expire"] = 0
  BY DEF FaultKinds, FaultFree
<1>1. ASSUME NEW k \in FaultKinds, Fault(k)
      PROVE  FaultFree /\ k \notin {"crash", "error", "expire"}
  BY <1>0, <1>1 DEF Fault, FaultFree, TypeOK
<1>2. ASSUME NEW w \in Nodes, RedisError(w) \/ Crash(w) PROVE FALSE
  BY <1>0, <1>1, <1>2 DEF RedisError, Crash
<1>3. ASSUME Expires PROVE FALSE
  BY <1>0, <1>1, <1>3 DEF Expires, ExpireMarker
<1>4. FaultFree
  <2>1. ASSUME NEW n \in Nodes, Api(n) PROVE faults' = faults
    BY <2>1 DEF Api, HandleCreateBoard, ResolveBoard, HandleSubmit, HandleRemoveScore,
                HandleDeleteUser, AppendTombstone, SyncScan, SyncRemove
  <2>2. ASSUME NEW w \in Nodes, Consume(w) PROVE faults' = faults
    BY <2>2 DEF Consume, RunStep, RunReclaim, ReclaimDone, StepEmpty, StepRead,
                ReclaimEmpty, ReclaimClaim, Check, Flush, FlushFails, ScanTombstone,
                Exec, Applied, Mark, Ack
  <2>3. ASSUME NEW n \in Nodes, Failure(n) \/ Restart(n)
        PROVE  faults' = faults \/ \E k \in FaultKinds : Fault(k)
    BY <1>0, <2>3 DEF Failure, RedisError, CancelRequest, SyncFails, Crash, Restart
  <2>4. ASSUME NEW p \in Partitions, Age(p) \/ \E i \in marked[p] : ExpireMarker(p, i)
        PROVE  faults' = faults \/ \E k \in FaultKinds : Fault(k)
    BY <1>0, <2>4 DEF Age, ExpireMarker
  <2>5. faults' = faults \/ \E k \in FaultKinds : Fault(k)
    BY <2>1, <2>2, <2>3, <2>4 DEF CoreNext, coreVars
  <2> QED
    BY <1>1, <2>5 DEF FaultFree
<1> QED
  BY <1>2, <1>3, <1>4

(* Without faults a consumer that polls has nothing pending: it acknowledges a *)
(* batch before it reads the next, and Reclaim finds nothing.                  *)
LEMMA NextInOrder ==
  ASSUME TypeOK, DeliveryInv, InOrderInv, [CoreNext]_coreVars
  PROVE  InOrderInv'
<1> SUFFICES ASSUME FaultFree', NEW v \in Nodes
             PROVE  /\ pc'[v] # "down"
                    /\ \A p \in OwnedPartitions(v) :
                         pending'[p] # {} =>
                           pc'[v] = "stopped" \/ (part'[v] = p /\ pending'[p] \subseteq msgs'[v])
                    /\ pc'[v] \in {"check", "apply"} =>
                         \A i \in msgs'[v] : \A j \in marked'[part'[v]] : j < i
  BY DEF InOrderInv, OwnedPartitions
<1> DEFINE Goal == /\ pc'[v] # "down"
                   /\ \A p \in OwnedPartitions(v) :
                        pending'[p] # {} =>
                          pc'[v] = "stopped" \/ (part'[v] = p /\ pending'[p] \subseteq msgs'[v])
                   /\ pc'[v] \in {"check", "apply"} =>
                        \A i \in msgs'[v] : \A j \in marked'[part'[v]] : j < i
<1>0. /\ ~ Expires
      /\ \A w \in Nodes : ~ RedisError(w) /\ ~ Crash(w)
      /\ \A w \in Nodes : pc[w] # "down"
      /\ \A w \in Nodes : \A p \in OwnedPartitions(w) :
           pending[p] # {} => pc[w] = "stopped" \/ (part[w] = p /\ pending[p] \subseteq msgs[w])
      /\ \A w \in Nodes : pc[w] \in {"check", "apply"} =>
           \A i \in msgs[w] : \A j \in marked[part[w]] : j < i
  BY FaultFreeSteps DEF InOrderInv
<1>1. ASSUME UNCHANGED <<delivered, pending, marked, pc, part, msgs>> PROVE Goal
  BY <1>0, <1>1
<1>2. ASSUME NEW w \in Nodes, NEW p \in Partitions, StepRead(w, p) PROVE Goal
  <2>1. /\ p \in OwnedPartitions(w) /\ pc[w] = "poll" /\ msgs[w] = {}
        /\ part' = [part EXCEPT ![w] = p] /\ pc' = [pc EXCEPT ![w] = "check"]
        /\ msgs' = [msgs EXCEPT ![w] = NextRead(p)]
        /\ pending' = [pending EXCEPT ![p] = @ \cup NextRead(p)] /\ marked' = marked
    BY <1>2 DEF StepRead, InPass, NextPartition, DeliveryInv, OwnedInv, BatchInv
  <2>2. CASE v = w
    <3>1. /\ pending[p] = {} /\ \A q \in OwnedPartitions(v) : pending[q] = {}
      BY <1>0, <2>1, <2>2
    <3>2. ASSUME NEW q \in OwnedPartitions(v), pending'[q] # {}
          PROVE  part'[v] = q /\ pending'[q] \subseteq msgs'[v]
      BY <2>1, <2>2, <3>1, <3>2, OwnedType DEF TypeOK, EntrySets, HeldSets
    <3>3. ASSUME NEW i \in msgs'[v], NEW j \in marked'[part'[v]] PROVE j < i
      <4>1. i \in delivered[p] + 1 .. LastRead(p) /\ j \in 1 .. delivered[p]
        BY <2>1, <2>2, <3>3 DEF TypeOK, HeldSets, NextRead, DeliveryInv, PelInv
      <4>2. delivered[p] \in Nat /\ LastRead(p) \in Nat
        BY BatchAssumption DEF TypeOK, Streams, LastRead
      <4> QED
        BY <4>1, <4>2
    <3> QED
      BY <2>1, <2>2, <3>2, <3>3 DEF TypeOK, Places
  <2>3. CASE v # w
    <3>1. p \notin OwnedPartitions(v)
      BY <2>1, <2>3, OwnershipPartitions
    <3>2. \A q \in OwnedPartitions(v) : pending'[q] = pending[q]
      BY <2>1, <3>1, OwnedType DEF TypeOK, EntrySets
    <3>3. part'[v] = part[v] /\ pc'[v] = pc[v] /\ msgs'[v] = msgs[v]
      BY <2>1, <2>3 DEF TypeOK, Places, HeldSets
    <3> QED
      BY <1>0, <2>1, <3>2, <3>3
  <2> QED
    BY <2>2, <2>3
<1>3. ASSUME NEW w \in Nodes, NEW p \in Partitions, ReclaimClaim(w, p) PROVE FALSE
  <2>1. /\ p \in OwnedPartitions(w) /\ pc[w] = "poll" /\ msgs[w] = {}
        /\ idle[p] # {}
    BY <1>3 DEF ReclaimClaim, InPass, NextPartition, Claimable, DeliveryInv, OwnedInv, BatchInv
  <2>2. pending[p] # {}
    BY <2>1 DEF DeliveryInv, PelInv
  <2> QED
    BY <1>0, <2>1, <2>2
<1>4. ASSUME NEW w \in Nodes, NEW i \in fresh[w], Mark(w, i) PROVE Goal
  <2>1. /\ pending' = pending /\ pc' = pc /\ part' = part /\ msgs' = msgs
        /\ pc[w] = "mark" /\ msgs[w] # {}
        /\ marked' = [marked EXCEPT ![part[w]] = @ \cup {i}]
    BY <1>4 DEF Mark, DeliveryInv, BatchInv
  <2>2. ASSUME pc[v] \in {"check", "apply"}, msgs[v] # {}
        PROVE  marked'[part[v]] = marked[part[v]]
    <3>1. v # w
      BY <2>1, <2>2
    <3>2. part[v] # part[w]
      BY <2>1, <2>2, <3>1, OneHolder
    <3> QED
      BY <2>1, <3>2 DEF TypeOK, EntrySets
  <2> QED
    BY <1>0, <2>1, <2>2
<1>5. ASSUME NEW w \in Nodes, Check(w) \/ Applied(w) PROVE Goal
  <2>1. /\ pending' = pending /\ part' = part /\ msgs' = msgs /\ marked' = marked
        /\ pc[w] \in {"check", "apply"}
        /\ pc' = [pc EXCEPT ![w] = "apply"] \/ pc' = [pc EXCEPT ![w] = "mark"]
    BY <1>5 DEF Check, Applied, redisVars
  <2>2. /\ pc'[v] \in {"check", "apply"} => pc[v] \in {"check", "apply"}
        /\ pc[v] = "stopped" => pc'[v] = "stopped"
        /\ pc'[v] # "down"
    BY <1>0, <2>1 DEF TypeOK, Places
  <2> QED
    BY <1>0, <2>1, <2>2
<1>6. ASSUME NEW w \in Nodes, FlushFails(w) PROVE Goal
  <2>1. /\ pending' = pending /\ part' = part /\ marked' = marked
        /\ pc' = [pc EXCEPT ![w] = "stopped"] /\ msgs' = [msgs EXCEPT ![w] = {}]
    BY <1>6 DEF FlushFails, DropBatch, redisVars
  <2>2. CASE v = w
    BY <2>1, <2>2 DEF TypeOK, Places
  <2>3. CASE v # w
    <3>1. pc'[v] = pc[v] /\ msgs'[v] = msgs[v]
      BY <2>1, <2>3 DEF TypeOK, Places, HeldSets
    <3> QED
      BY <1>0, <2>1, <3>1
  <2> QED
    BY <2>2, <2>3
<1>7. ASSUME NEW w \in Nodes, Ack(w) PROVE Goal
  <2>1. /\ pending' = [pending EXCEPT ![part[w]] = @ \ msgs[w]]
        /\ part' = part /\ marked' = marked /\ pc[w] = "mark"
        /\ pc' = [pc EXCEPT ![w] = "poll"] /\ msgs' = [msgs EXCEPT ![w] = {}]
    BY <1>7 DEF Ack
  <2>2. \A q \in Partitions : pending'[q] \subseteq pending[q]
    BY <2>1 DEF TypeOK, EntrySets
  <2>3. CASE v = w
    <3>1. ASSUME NEW q \in OwnedPartitions(v) PROVE pending'[q] = {}
      <4>1. q \in Partitions
        BY OwnedType
      <4>2. CASE part[w] = q /\ pending[q] \subseteq msgs[w]
        BY <2>1, <4>1, <4>2 DEF TypeOK, EntrySets
      <4>3. CASE pending[q] = {}
        BY <2>2, <4>1, <4>3
      <4> QED
        BY <1>0, <2>1, <2>3, <4>2, <4>3
    <3> QED
      BY <2>1, <2>3, <3>1 DEF TypeOK, Places
  <2>4. CASE v # w
    <3>1. pc'[v] = pc[v] /\ msgs'[v] = msgs[v]
      BY <2>1, <2>4 DEF TypeOK, Places, HeldSets
    <3>2. ASSUME NEW q \in OwnedPartitions(v), pending'[q] # {}
          PROVE  /\ pending[q] # {} /\ pending'[q] \subseteq pending[q]
      BY <2>2, <3>2, OwnedType
    <3> QED
      BY <1>0, <2>1, <3>1, <3>2
  <2> QED
    BY <2>3, <2>4
<1>8. ASSUME NEW w \in Nodes, Restart(w) PROVE FALSE
  BY <1>0, <1>8 DEF Restart
<1> HIDE DEF Goal
<1>9. Goal
  BY <1>0, <1>1, <1>2, <1>3, <1>4, <1>5, <1>6, <1>7, <1>8, MoveFrame DEF Moves, Reads, Marks
<1> QED
  BY <1>9 DEF Goal

LEMMA OrderCorrect == Spec => []OrderedInv
<1>1. Init => OrderedInv
  <2>1. Init => PlacedInv
    BY DEF Init, PlacedInv
  <2>2. Init => OrderInv
    BY DEF Init, OrderInv
  <2>3. Init => InOrderInv
    BY OwnedType DEF Init, InOrderInv
  <2> QED
    BY <2>1, <2>2, <2>3, InitType, InitDelivery DEF OrderedInv
<1>2. OrderedInv /\ [Next]_vars => OrderedInv'
  BY StepIsCore, NextType, NextDelivery, NextPlaced, NextOrder, NextInOrder DEF OrderedInv, DeliveryInv
<1> QED
  BY <1>1, <1>2, PTL DEF Spec

(* An entry with an applied marker never touches a board again, whatever was *)
(* redelivered, reclaimed or restarted: only the worker that owns the        *)
(* partition marks, and it marks what it applies only after applying it.     *)
THEOREM MarkedAreNotReapplied == Spec => MarkedNotReapplied
<1>1. ASSUME OrderedInv, [CoreNext]_coreVars, NEW w \in Nodes, NEW o \in ops[w],
             o \notin ops'[w], board' # board
      PROVE  o[1] \notin marked[part[w]]
  <2>1. pc[w] = "apply"
    <3>1. /\ msgs[w] # {} /\ fresh[w] # {} /\ ops[w] # {}
      BY <1>1 DEF OrderedInv, DeliveryInv, BatchInv
    <3>2. pc[w] \in {"poll", "check", "apply", "mark", "stopped", "down"}
      BY <1>1 DEF OrderedInv, TypeOK, Places
    <3> QED
      BY <1>1, <3>1, <3>2 DEF OrderedInv, DeliveryInv, BatchInv
  <2> QED
    BY <1>1, <2>1 DEF OrderedInv, DeliveryInv, BatchInv, OrderInv
<1>2. OrderedInv /\ [Next]_vars =>
        [\A w \in Nodes : \A o \in ops[w] :
           (o \notin ops'[w] /\ board' # board) => o[1] \notin marked[part[w]]]_vars
  BY <1>1, StepIsCore
<1> QED
  BY <1>2, OrderCorrect, PTL DEF Spec, MarkedNotReapplied

----------------------------------------------------------------------------
(* A delivered entry stays delivered. *)
LEMMA DeliveredGrows ==
  ASSUME TypeOK, DeliveryInv, [CoreNext]_coreVars, NEW p \in Partitions, NEW i \in 1 .. delivered[p]
  PROVE  /\ i \in 1 .. delivered'[p] /\ i \in 1 .. Len(log[p])
         /\ log'[p][i] = log[p][i]
<1>1. delivered[p] \in Nat /\ Len(log[p]) \in Nat /\ delivered[p] <= Len(log[p])
  BY DEF TypeOK, Streams, DeliveryInv, PelInv
<1>2. i \in 1 .. Len(log[p]) /\ log'[p][i] = log[p][i]
  BY <1>1, LogGrows
<1>3. ASSUME NEW w \in Nodes, NEW q \in Partitions, StepRead(w, q)
      PROVE  i \in 1 .. delivered'[p]
  <2>1. LastRead(q) \in Nat /\ delivered[q] <= LastRead(q)
    BY <1>3, BatchAssumption DEF StepRead, LastRead, TypeOK, Streams
  <2>2. delivered'[p] = IF p = q THEN LastRead(q) ELSE delivered[p]
    BY <1>3 DEF StepRead, TypeOK
  <2> QED
    BY <1>1, <2>1, <2>2
<1>4. ASSUME Moves, \A w \in Nodes, q \in Partitions : ~ StepRead(w, q)
      PROVE  delivered' = delivered
  BY <1>4 DEF Moves, Reads, ReclaimClaim, Marks, Mark, Expires, ExpireMarker, Check,
              FlushFails, Applied, Ack, RedisError, Crash, Restart, redisVars
<1> QED
  BY <1>2, <1>3, <1>4, MoveFrame

(* Only entries of the log are executed. *)
LEMMA DoneInLog ==
  ASSUME TypeOK, DeliveryInv, NEW p \in Partitions, NEW j, NEW s, Done(p, j, s)
  PROVE  j \in 1 .. Len(log[p])
<1>1. CASE j \in marked[p]
  BY <1>1 DEF TypeOK, Streams, EntrySets, DeliveryInv, PelInv
<1>2. ASSUME NEW w \in Nodes, part[w] = p, j \in fresh[w] PROVE j \in 1 .. Len(log[p])
  BY <1>2, EntryInLog DEF DeliveryInv, BatchInv
<1> QED
  BY <1>1, <1>2 DEF Done

(* A removal that a step executes on a slice leaves the member out of it: what *)
(* stays ranked has not been removed by this step.                             *)
LEMMA DoneBefore ==
  ASSUME OrderedInv, [CoreNext]_coreVars,
         NEW c \in Boards \X Slices \X Members, NEW j,
         board[c] # None, board'[c] = board[c],
         IsRemoval(log'[PartitionOf(c[1], c[3])][j], c),
         Done(PartitionOf(c[1], c[3]), j, c[2])'
  PROVE  Done(PartitionOf(c[1], c[3]), j, c[2])
<1> USE DEF OrderedInv
<1>0. PICK p \in Partitions : p = PartitionOf(c[1], c[3])
  BY PartitionOfType
<1>1. /\ Done(p, j, c[2])' /\ IsRemoval(log'[p][j], c)
  BY <1>0 DEF Done, PartitionOf
<1>2. ASSUME NEW w \in Nodes, part[w] = p, j \in fresh[w] \ recs[w], <<j, c[2]>> \notin ops[w]
      PROVE  Done(p, j, c[2])
  BY <1>2 DEF Done
<1>3. ASSUME j \in marked'[p] PROVE Done(p, j, c[2])
  <2>1. CASE j \in marked[p]
    BY <2>1 DEF Done
  <2>2. ASSUME j \notin marked[p], NEW w \in Nodes, NEW i \in fresh[w], Mark(w, i)
        PROVE  Done(p, j, c[2])
    <3>1. i = j /\ part[w] = p
      BY <1>3, <2>2 DEF Mark, TypeOK, EntrySets
    <3>2. recs[w] = {} /\ ops[w] = {}
      BY <2>2 DEF Mark, DeliveryInv, BatchInv
    <3> QED
      BY <1>2, <2>2, <3>1, <3>2
  <2>3. Expires => j \in marked[p]
    BY <1>3 DEF Expires, ExpireMarker, TypeOK, EntrySets
  <2> QED
    BY <1>3, <2>1, <2>2, <2>3, Frame DEF Marks
<1>4. ASSUME NEW w \in Nodes, part'[w] = p, j \in fresh'[w] \ recs'[w], <<j, c[2]>> \notin ops'[w]
      PROVE  Done(p, j, c[2])
  <2>0. /\ recs[w] \subseteq fresh[w] /\ fresh[w] \subseteq msgs[w]
    BY DEF DeliveryInv, BatchInv
  <2>1. ASSUME j \in fresh[w]
        PROVE  part[w] = p /\ log[p][j] = log'[p][j]
    BY <1>4, <2>0, <2>1, HeldStable
  <2>2. ASSUME fresh'[w] \subseteq fresh[w], recs'[w] = recs[w], ops'[w] = ops[w]
        PROVE  Done(p, j, c[2])
    BY <1>2, <1>4, <2>1, <2>2
  <2>3. ASSUME NEW v \in Nodes, v # w,
               \/ Check(v) \/ Flush(v) \/ FlushFails(v) \/ ScanTombstone(v)
               \/ \E i \in msgs[v], t \in Slices : Exec(v, i, t)
               \/ \E i \in fresh[v] : Mark(v, i)
               \/ RedisError(v) \/ Crash(v)
        PROVE  fresh'[w] = fresh[w] /\ recs'[w] = recs[w] /\ ops'[w] = ops[w]
    BY <2>3 DEF Check, Flush, FlushFails, ScanTombstone, Exec, Mark, RedisError,
                Crash, DropBatch, TypeOK, HeldSets, Queues
  <2>4. ASSUME Check(w) \/ FlushFails(w) \/ RedisError(w) \/ Crash(w) PROVE FALSE
    BY <1>4, <2>4 DEF Check, FlushFails, RedisError, Crash, DropBatch, TypeOK, HeldSets
  <2>5. ASSUME Flush(w) PROVE Done(p, j, c[2])
    <3>1. /\ fresh'[w] = fresh[w] /\ recs'[w] = recs[w] \ NextSubmits(w) /\ ops[w] = {}
      BY <2>5 DEF Flush, Answered, TypeOK, HeldSets
    <3>2. j \notin NextSubmits(w)
      <4> SUFFICES ASSUME j \in NextSubmits(w) PROVE FALSE
        OBVIOUS
      <4>1. j \in recs[w] /\ j \in Nat /\ (j <= j => Op(w, j) = "submit")
        BY DEF NextSubmits, TypeOK, HeldSets
      <4> QED
        BY <1>1, <2>0, <2>1, <4>1 DEF Op, IsRemoval
    <3> QED
      BY <1>2, <1>4, <2>1, <3>1, <3>2
  <2>6. ASSUME ScanTombstone(w) PROVE Done(p, j, c[2])
    <3>1. PICK i \in recs[w] :
            /\ ops'[w] = {i} \X scanBoardKeys(log[part[w]][i].board)
            /\ recs'[w] = recs[w] \ {i}
      BY <2>6 DEF ScanTombstone, TypeOK, HeldSets, Queues
    <3>2. fresh'[w] = fresh[w] /\ ops[w] = {}
      BY <2>6 DEF ScanTombstone, Answered
    <3>3. j # i
      <4> SUFFICES ASSUME j = i PROVE FALSE
        OBVIOUS
      <4>1. log[part[w]][i].board = c[1]
        BY <1>1, <1>4, <2>1, <3>2 DEF IsRemoval
      <4>2. c = <<c[1], c[2], c[3]>> /\ c[2] \in Slices /\ c[3] \in Members
        OBVIOUS
      <4>3. c[2] \in scanBoardKeys(c[1])
        BY <4>2 DEF scanBoardKeys
      <4> QED
        BY <1>4, <3>1, <4>1, <4>3
    <3> QED
      BY <1>2, <1>4, <2>1, <3>1, <3>2, <3>3
  <2>7. ASSUME NEW i \in msgs[w], NEW t \in Slices, Exec(w, i, t) PROVE Done(p, j, c[2])
    <3>1. /\ fresh'[w] = fresh[w] /\ recs'[w] = recs[w] /\ ops'[w] = ops[w] \ {<<i, t>>}
      BY <2>7 DEF Exec, TypeOK, Queues
    <3>2. <<j, c[2]>> # <<i, t>>
      <4> SUFFICES ASSUME j = i, t = c[2] PROVE FALSE
        OBVIOUS
      <4>1. /\ part[w] = p /\ log[p][j].op = "remove"
            /\ log[p][j].board = c[1] /\ log[p][j].member = c[3]
        BY <1>1, <1>4, <2>1, <3>1 DEF IsRemoval
      <4>2. Cell(log[part[w]][i], t) = c
        BY <4>1 DEF Cell
      <4> QED
        BY <2>7, <4>1, <4>2 DEF Exec, TypeOK, Rankings
    <3> QED
      BY <1>2, <1>4, <2>1, <3>1, <3>2
  <2>8. ASSUME NEW i \in fresh[w], Mark(w, i) PROVE Done(p, j, c[2])
    BY <2>2, <2>8 DEF Mark, TypeOK, HeldSets
  <2> QED
    BY <2>2, <2>3, <2>4, <2>5, <2>6, <2>7, <2>8, Frame DEF Handles
<1>5. Done(p, j, c[2])
  BY <1>1, <1>3, <1>4 DEF Done
<1> QED
  BY <1>0, <1>5

(* A score that stays keeps its source. *)
LEMMA SourceKept ==
  ASSUME OrderedInv, [CoreNext]_coreVars,
         NEW c \in Boards \X Slices \X Members, NEW i \in Nat,
         board[c] # None, board'[c] = board[c], Source(c, i)
  PROVE  Source(c, i)'
<1> USE DEF OrderedInv
<1>0. PICK p \in Partitions : p = PartitionOf(c[1], c[3])
  BY PartitionOfType
<1>1. /\ i \in 1 .. delivered[p] /\ IsSubmit(log[p][i], c, board[c])
      /\ FaultFree => \A j \in i .. Len(log[p]) : IsRemoval(log[p][j], c) => ~ Done(p, j, c[2])
  BY <1>0 DEF Source
<1>2. i \in 1 .. delivered'[p] /\ IsSubmit(log'[p][i], c, board'[c])
  BY <1>1, DeliveredGrows
<1>3. ASSUME FaultFree', NEW j \in i .. Len(log'[p]), IsRemoval(log'[p][j], c),
             Done(p, j, c[2])'
      PROVE  FALSE
  <2>1. Done(PartitionOf(c[1], c[3]), j, c[2])'
    BY <1>0, <1>3 DEF Done, PartitionOf
  <2>2. Done(p, j, c[2])
    BY <1>0, <1>3, <2>1, DoneBefore
  <2>3. j \in 1 .. Len(log[p]) /\ Len(log[p]) \in Nat
    BY <2>2, DoneInLog DEF TypeOK, Streams
  <2>4. log'[p][j] = log[p][j]
    BY <2>3, LogGrows
  <2>5. j \in i .. Len(log[p])
    BY <1>3, <2>3
  <2> QED
    BY <1>1, <1>3, <2>2, <2>4, <2>5, FaultFreeSteps
<1> QED
  BY <1>0, <1>2, <1>3 DEF Source, PartitionOf

(* The submit that a worker executes is the source of the score it writes. *)
LEMMA SourceExecuted ==
  ASSUME OrderedInv, [CoreNext]_coreVars, NEW c \in Boards \X Slices \X Members,
         NEW w \in Nodes, NEW i \in msgs[w], NEW t \in Slices, Exec(w, i, t),
         Cell(log[part[w]][i], t) = c, log[part[w]][i].op = "submit",
         board'[c] = log[part[w]][i].score
  PROVE  Source(c, i)'
<1> USE DEF OrderedInv
<1>0. PICK p \in Partitions : p = PartitionOf(c[1], c[3])
  BY PartitionOfType
<1>1. /\ c[1] = log[part[w]][i].board /\ c[2] = t /\ c[3] = log[part[w]][i].member
  BY DEF Cell
<1>2. part[w] = p /\ i \in 1 .. Len(log[p])
  BY <1>0, <1>1, HeldStable, EntryInLog DEF PlacedInv, DeliveryInv
<1>3. i \in 1 .. delivered[p]
  BY <1>2 DEF DeliveryInv, BatchInv, PelInv
<1>4. /\ log' = log /\ marked' = marked /\ part' = part /\ fresh' = fresh /\ recs' = recs
      /\ delivered' = delivered /\ pc[w] = "apply" /\ <<i, t>> \in ops[w]
  BY DEF Exec
<1>5. t \in log[p][i].slices
  BY <1>2, <1>4 DEF OrderInv, Op
<1>6. IsSubmit(log[p][i], c, board'[c])
  BY <1>1, <1>2, <1>5 DEF IsSubmit
<1>7. ASSUME FaultFree', NEW j \in i .. Len(log[p]), IsRemoval(log[p][j], c),
             Done(p, j, c[2])'
      PROVE  FALSE
  <2>0. i \in Nat /\ j \in Nat /\ i <= j /\ i # j
    BY <1>2, <1>7 DEF IsRemoval, TypeOK, HeldSets
  <2>1. CASE j \in marked[p]
    <3>1. j < i
      BY <1>2, <1>4, <1>7, <2>1, FaultFreeSteps DEF InOrderInv
    <3> QED
      BY <2>0, <3>1
  <2>2. ASSUME NEW v \in Nodes, part[v] = p, j \in fresh[v] \ recs[v]
        PROVE  FALSE
    <3>1. v = w
      BY <1>2, <2>2, OneHolder DEF DeliveryInv, BatchInv
    <3>2. j <= i
      BY <1>2, <1>4, <1>7, <2>2, <3>1 DEF OrderInv, Op, IsRemoval
    <3> QED
      BY <2>0, <3>2
  <2> QED
    BY <1>4, <1>7, <2>1, <2>2 DEF Done
<1> QED
  BY <1>0, <1>3, <1>4, <1>6, <1>7 DEF Source, PartitionOf

(* Every step keeps a source for every ranked score. *)
LEMMA NextSource ==
  ASSUME OrderedInv, SourceInv, [CoreNext]_coreVars
  PROVE  SourceInv'
<1> USE DEF OrderedInv
<1> SUFFICES ASSUME NEW c \in Boards \X Slices \X Members,
                    board'[c] # None, PolicyOf[c[1]] # "increment"
             PROVE  \E i \in Nat : Source(c, i)'
  BY DEF SourceInv
<1>1. CASE board'[c] = board[c]
  BY <1>1, SourceKept DEF SourceInv
<1>2. ASSUME NEW w \in Nodes, NEW i \in msgs[w], NEW t \in Slices, Exec(w, i, t),
             board'[c] # board[c]
      PROVE  \E k \in Nat : Source(c, k)'
  <2> DEFINE r == log[part[w]][i]
  <2>1. r \in Record /\ i \in Nat
    BY HeldStable DEF TypeOK, HeldSets
  <2>2. /\ Cell(r, t) = c
        /\ board'[c] = IF r.op = "remove" THEN None ELSE Combine(r.board, board[c], r.score)
    BY <1>2 DEF Exec, TypeOK, Rankings
  <2>3. r.op = "submit"
    BY <2>1, <2>2 DEF Record, Submit, Tombstone
  <2>4. board'[c] = r.score
    BY <1>2, <2>2, <2>3 DEF Combine, Cell
  <2> QED
    BY <1>2, <2>1, <2>2, <2>3, <2>4, SourceExecuted
<1>3. ASSUME NEW n \in Nodes, NEW k \in Boards \X Slices, SyncRemove(n, k)
      PROVE  board'[c] = board[c]
  BY <1>3 DEF SyncRemove, TypeOK, Rankings
<1> QED
  BY <1>1, <1>2, <1>3, Frame DEF Rewrites

LEMMA SourceCorrect == Spec => [](OrderedInv /\ SourceInv)
<1>1. Init => SourceInv
  BY DEF Init, SourceInv
<1>2. OrderedInv /\ SourceInv /\ [Next]_vars => SourceInv'
  BY StepIsCore, NextSource
<1> QED
  BY <1>1, <1>2, OrderCorrect, PTL DEF Spec

(* A ranked score of a best- or last-wins board was submitted for that member, *)
(* board and slice, whatever was redelivered, reclaimed, removed or restarted. *)
THEOREM ScoresHaveSources == Spec => []ScoreHasSource
<1>1. OrderedInv /\ SourceInv => ScoreHasSource
  <2> SUFFICES ASSUME OrderedInv, SourceInv, NEW c \in Boards \X Slices \X Members,
                      board[c] # None, PolicyOf[c[1]] # "increment"
               PROVE  \E p \in Partitions : \E i \in 1 .. delivered[p] :
                        IsSubmit(log[p][i], c, board[c])
    BY DEF ScoreHasSource, IsSubmit
  <2>1. PICK i \in Nat : Source(c, i)
    BY DEF SourceInv
  <2>2. PICK p \in Partitions : p = PartitionOf(c[1], c[3])
    BY PartitionOfType
  <2> QED
    BY <2>1, <2>2 DEF Source
<1> QED
  BY <1>1, SourceCorrect, PTL

(* As long as no worker has crashed, failed or lost a marker, a removed score  *)
(* is not resurrected: once its partition is settled, what is ranked was       *)
(* submitted after the last removal, however the handlers' own removals, also  *)
(* cancelled or failed ones, interleave with the consumer's.                   *)
THEOREM NoResurrectionWithoutFaults == Spec => []FaultFreeNoResurrection
<1>1. OrderedInv /\ SourceInv => FaultFreeNoResurrection
  <2> SUFFICES ASSUME OrderedInv, SourceInv, FaultFree,
                      NEW c \in Boards \X Slices \X Members,
                      board[c] # None, PolicyOf[c[1]] # "increment",
                      Settled(PartitionOf(c[1], c[3]))
               PROVE  SubmittedSinceRemoval(c)
    BY DEF FaultFreeNoResurrection, NoResurrection
  <2>1. PICK i \in Nat : Source(c, i)
    BY DEF SourceInv
  <2>2. PICK p \in Partitions : p = PartitionOf(c[1], c[3])
    BY PartitionOfType
  <2>3. /\ i \in 1 .. delivered[p] /\ IsSubmit(log[p][i], c, board[c])
        /\ \A j \in i .. Len(log[p]) : IsRemoval(log[p][j], c) => ~ Done(p, j, c[2])
    BY <2>1, <2>2 DEF Source
  <2>4. /\ log[p] \in Seq(Record) /\ delivered[p] = Len(log[p])
        /\ 1 .. Len(log[p]) \subseteq marked[p]
    BY <2>2 DEF OrderedInv, TypeOK, Streams, Settled, Acked
  <2>5. ASSUME NEW j \in i .. Len(log[p]), log[p][j].board = c[1], log[p][j].member = c[3]
        PROVE  log[p][j].op = "submit"
    <3>1. j \in 1 .. Len(log[p]) /\ log[p][j] \in Record
      BY <2>3, <2>4
    <3>2. Done(p, j, c[2])
      BY <2>4, <3>1 DEF Done
    <3>3. log[p][j].op # "remove"
      BY <2>3, <2>5, <3>2 DEF IsRemoval
    <3> QED
      BY <3>1, <3>3 DEF Record, Submit, Tombstone
  <2>6. /\ i \in 1 .. Len(log[p]) /\ log[p][i].op = "submit"
        /\ log[p][i].board = c[1] /\ log[p][i].member = c[3]
        /\ c[2] \in log[p][i].slices /\ log[p][i].score = board[c]
    BY <2>3, <2>4 DEF IsSubmit, Cell
  <2> QED
    BY <2>2, <2>5, <2>6 DEF SubmittedSinceRemoval
<1> QED
  BY <1>1, SourceCorrect, PTL

----------------------------------------------------------------------------
(* What the replay of a stream computes.  Induction over the positions of a   *)
(* stream is done by taking a least counterexample.                           *)

(* A set of naturals that is not empty has a least element: induction over    *)
(* positions of a stream, as the absence of a least counterexample.           *)
LEMMA LeastNatural ==
  ASSUME NEW T, T \subseteq Nat, T # {}
  PROVE  \E n \in T : \A m \in T : n <= m
<1>1. PICK n \in T : \A m \in T : <<m, n>> \notin OpToRel(<, Nat)
  BY WFMin, NatLessThanWellFounded
<1>2. \A m \in T : ~ (m < n)
  BY <1>1 DEF OpToRel
<1>3. n \in T
  BY <1>1
<1>4. \A m \in T : n <= m
  BY <1>2, <1>3, SMT
<1> QED
  BY <1>3, <1>4

(* The scores of a cell after each of the first n entries. *)
IsReplay(entries, c, n, f) ==
  f = [i \in 0 .. n |-> IF i = 0 THEN None ELSE ReplayEntry(c, entries[i], f[i - 1])]

(* The recursion of Replay has a solution for every number of entries. *)
LEMMA ReplayExists ==
  ASSUME NEW entries, NEW c
  PROVE  \A n \in Nat : \E f : IsReplay(entries, c, n, f)
<1> DEFINE T == {n \in Nat : ~ \E f : IsReplay(entries, c, n, f)}
<1> SUFFICES ASSUME T # {} PROVE FALSE
  OBVIOUS
<1>0. T \subseteq Nat
  OBVIOUS
<1>1. PICK n \in T : \A m \in T : n <= m
  <2> HIDE DEF T
  <2> QED
    BY <1>0, LeastNatural
<1>2. n \in Nat /\ ~ \E f : IsReplay(entries, c, n, f)
  OBVIOUS
<1>3. n # 0
  <2> SUFFICES ASSUME n = 0 PROVE FALSE
    OBVIOUS
  <2> DEFINE h == [i \in 0 .. n |-> None]
  <2>1. IsReplay(entries, c, n, h)
    BY DEF IsReplay
  <2> QED
    BY <1>2, <2>1
<1>4. n - 1 \in Nat /\ n - 1 \notin T
  <2> HIDE DEF T
  <2> QED
    BY <1>0, <1>1, <1>2, <1>3, SMT
<1>5. PICK g : IsReplay(entries, c, n - 1, g)
  BY <1>4
<1> DEFINE h == [i \in 0 .. n |-> IF i = n THEN ReplayEntry(c, entries[n], g[n - 1]) ELSE g[i]]
<1>6. ASSUME NEW i \in 0 .. n
      PROVE  h[i] = IF i = 0 THEN None ELSE ReplayEntry(c, entries[i], h[i - 1])
  <2>1. CASE i = n
    <3>1. h[i] = ReplayEntry(c, entries[n], g[n - 1])
      BY <2>1
    <3>2. h[i - 1] = g[n - 1]
      BY <1>2, <1>3, <2>1
    <3> QED
      BY <1>3, <2>1, <3>1, <3>2
  <2>2. CASE i # n
    <3>1. i \in 0 .. n - 1 /\ h[i] = g[i]
      BY <1>2, <2>2
    <3>2. g[i] = IF i = 0 THEN None ELSE ReplayEntry(c, entries[i], g[i - 1])
      BY <1>5, <3>1 DEF IsReplay
    <3>3. i # 0 => h[i - 1] = g[i - 1]
      BY <1>2, <3>1
    <3> QED
      BY <3>1, <3>2, <3>3
  <2> QED
    BY <2>1, <2>2
<1>7. IsReplay(entries, c, n, h)
  BY <1>6 DEF IsReplay
<1> QED
  BY <1>2, <1>7

(* Replay is that solution: nothing at first, then one entry at a time. *)
LEMMA ReplayDef ==
  ASSUME NEW entries, NEW c, Len(entries) \in Nat
  PROVE  /\ Replay(entries, c)[0] = None
         /\ \A i \in 1 .. Len(entries) :
              Replay(entries, c)[i] = ReplayEntry(c, entries[i], Replay(entries, c)[i - 1])
<1> DEFINE n == Len(entries)
<1>1. \E f : f = [i \in 0 .. n |-> IF i = 0 THEN None ELSE ReplayEntry(c, entries[i], f[i - 1])]
  <2>1. PICK f : IsReplay(entries, c, n, f)
    BY ReplayExists
  <2> HIDE DEF n
  <2> QED
    BY <2>1, Zenon DEF IsReplay
<1>2. Replay(entries, c) =
        [i \in 0 .. n |-> IF i = 0 THEN None ELSE ReplayEntry(c, entries[i], Replay(entries, c)[i - 1])]
  BY <1>1, Zenon DEF Replay
<1> DEFINE f == Replay(entries, c)
<1> HIDE DEF f
<1>3. f = [i \in 0 .. n |-> IF i = 0 THEN None ELSE ReplayEntry(c, entries[i], f[i - 1])]
  BY <1>2 DEF f
<1>4. f[0] = None /\ \A i \in 1 .. n : f[i] = ReplayEntry(c, entries[i], f[i - 1])
  BY <1>3
<1> QED
  BY <1>4 DEF f

----------------------------------------------------------------------------
(* Entry r changes cell c: a submit for it. *)
Hits(r, c) == IsSubmit(r, c, r.score)

(* An entry that is no removal of the cell either hits it or leaves it alone. *)
LEMMA ReplayOne ==
  ASSUME NEW c \in Boards \X Slices \X Members, NEW r \in Record, ~ IsRemoval(r, c), NEW x
  PROVE  ReplayEntry(c, r, x) = IF Hits(r, c) THEN Combine(c[1], x, r.score) ELSE x
<1>1. r.op \in {"submit", "remove"}
  BY DEF Record, Submit, Tombstone
<1>2. Cell(r, c[2]) = c <=> r.board = c[1] /\ r.member = c[3]
  BY DEF Cell
<1> QED
  BY <1>1, <1>2 DEF ReplayEntry, Hits, IsSubmit, IsRemoval

(* Entries that do not hit the cell leave it as it is. *)
LEMMA ReplayStutters ==
  ASSUME NEW c \in Boards \X Slices \X Members, NEW entries \in Seq(Record),
         \A i \in 1 .. Len(entries) : ~ IsRemoval(entries[i], c),
         NEW k \in 0 .. Len(entries), NEW n \in k .. Len(entries),
         \A i \in k + 1 .. n : ~ Hits(entries[i], c)
  PROVE  Replay(entries, c)[n] = Replay(entries, c)[k]
<1> DEFINE f == Replay(entries, c)
           T == {i \in k .. n : f[i] # f[k]}
<1> SUFFICES ASSUME T # {} PROVE FALSE
  OBVIOUS
<1>0. /\ \A i \in 1 .. Len(entries) : f[i] = ReplayEntry(c, entries[i], f[i - 1])
      /\ k \in Nat /\ n \in Nat /\ k <= n /\ n <= Len(entries) /\ Len(entries) \in Nat
  BY ReplayDef
<1> HIDE DEF f
<1>1. T \subseteq Nat
  BY <1>0
<1>2. PICK i \in T : \A j \in T : i <= j
  <2> HIDE DEF T
  <2> QED
    BY <1>1, LeastNatural
<1>3. i \in k .. n /\ f[i] # f[k]
  OBVIOUS
<1>4. i # k /\ i - 1 \in k .. n /\ i \in k + 1 .. n /\ i \in 1 .. Len(entries)
  BY <1>0, <1>3
<1>5. i - 1 \notin T
  <2> HIDE DEF T
  <2> QED
    BY <1>0, <1>2, <1>3
<1>6. f[i - 1] = f[k]
  BY <1>4, <1>5
<1>7. entries[i] \in Record
  BY <1>4
<1>8. f[i] = f[i - 1]
  BY <1>0, <1>4, <1>7, ReplayOne
<1> QED
  BY <1>3, <1>6, <1>8

(* Appending to a stream does not change the replay of what was there. *)
LEMMA ReplayPrefix ==
  ASSUME NEW c, NEW e \in Seq(Record), NEW d \in Seq(Record), Len(e) <= Len(d),
         \A i \in 1 .. Len(e) : d[i] = e[i],
         NEW k \in 0 .. Len(e)
  PROVE  Replay(d, c)[k] = Replay(e, c)[k]
<1> DEFINE f == Replay(d, c)
           g == Replay(e, c)
           T == {i \in 0 .. Len(e) : f[i] # g[i]}
<1> SUFFICES ASSUME T # {} PROVE FALSE
  OBVIOUS
<1>0. /\ f[0] = None /\ \A i \in 1 .. Len(d) : f[i] = ReplayEntry(c, d[i], f[i - 1])
      /\ g[0] = None /\ \A i \in 1 .. Len(e) : g[i] = ReplayEntry(c, e[i], g[i - 1])
      /\ Len(e) \in Nat /\ Len(d) \in Nat
  BY ReplayDef
<1> HIDE DEF f, g
<1>1. T \subseteq Nat
  BY <1>0
<1>2. PICK i \in T : \A j \in T : i <= j
  <2> HIDE DEF T
  <2> QED
    BY <1>1, LeastNatural
<1>3. i \in 0 .. Len(e) /\ f[i] # g[i]
  OBVIOUS
<1>4. i \in 1 .. Len(e) /\ i \in 1 .. Len(d) /\ i - 1 \in 0 .. Len(e)
  BY <1>0, <1>3
<1>5. i - 1 \notin T
  <2> HIDE DEF T
  <2> QED
    BY <1>0, <1>2, <1>3
<1>6. f[i - 1] = g[i - 1]
  BY <1>4, <1>5
<1> QED
  BY <1>0, <1>3, <1>4, <1>6

(* On a best-wins board the replay of a cell that nothing removes is the best  *)
(* of the scores submitted for it.                                             *)
LEMMA ReplayBest ==
  ASSUME NEW c \in Boards \X Slices \X Members, PolicyOf[c[1]] = "best",
         NEW entries \in Seq(Record),
         \A i \in 1 .. Len(entries) : ~ IsRemoval(entries[i], c)
  PROVE  LET x == Replay(entries, c)[Len(entries)]
         IN /\ x = None \/ \E i \in 1 .. Len(entries) : IsSubmit(entries[i], c, x)
            /\ \A i \in 1 .. Len(entries) :
                 Hits(entries[i], c) => x \in Int /\ ~ Better(c[1], entries[i].score, x)
<1> DEFINE f == Replay(entries, c)
           P(n) == /\ f[n] = None \/ \E i \in 1 .. n : IsSubmit(entries[i], c, f[n])
                   /\ \A i \in 1 .. n :
                        Hits(entries[i], c) => f[n] \in Int /\ ~ Better(c[1], entries[i].score, f[n])
           T == {n \in 0 .. Len(entries) : ~ P(n)}
<1>a. \A r \in Record : r.op = "submit" => r.score \in Int
  BY ScoresAssumption DEF Record, Submit, Tombstone
<1>0. /\ f[0] = None /\ \A i \in 1 .. Len(entries) : f[i] = ReplayEntry(c, entries[i], f[i - 1])
      /\ Len(entries) \in Nat
  BY ReplayDef
<1> HIDE DEF f
<1>1. T = {}
  <2> SUFFICES ASSUME T # {} PROVE FALSE
    OBVIOUS
  <2>1. T \subseteq Nat
    BY <1>0
  <2>2. PICK n \in T : \A m \in T : n <= m
    <3> HIDE DEF T
    <3> QED
      BY <2>1, LeastNatural
  <2>3. n \in 0 .. Len(entries) /\ ~ P(n)
    OBVIOUS
  <2>4. n # 0
    BY <1>0, <2>3
  <2>5. n \in 1 .. Len(entries) /\ n - 1 \in 0 .. Len(entries)
    BY <1>0, <2>3, <2>4
  <2>6. n - 1 \notin T
    <3> HIDE DEF T
    <3> QED
      BY <1>0, <2>2, <2>3
  <2>7. P(n - 1)
    BY <2>5, <2>6
  <2>8. entries[n] \in Record
    BY <2>5
  <2>9. f[n] = IF Hits(entries[n], c) THEN Combine(c[1], f[n - 1], entries[n].score) ELSE f[n - 1]
    BY <1>0, <2>5, <2>8, ReplayOne
  <2>10. 1 .. n = (1 .. n - 1) \cup {n}
    BY <2>5
  <2>11. CASE ~ Hits(entries[n], c)
    BY <2>3, <2>7, <2>9, <2>10, <2>11
  <2>12. CASE Hits(entries[n], c)
    <3>1. /\ entries[n].op = "submit" /\ entries[n].score \in Int
      BY <1>a, <2>8, <2>12 DEF Hits, IsSubmit
    <3>2. f[n - 1] \in Int \cup {None}
      <4>1. ASSUME NEW i \in 1 .. n - 1, IsSubmit(entries[i], c, f[n - 1]) PROVE f[n - 1] \in Int
        <5>1. entries[i] \in Record
          BY <2>5
        <5> QED
          BY <1>a, <4>1, <5>1 DEF IsSubmit
      <4> QED
        BY <2>7, <4>1
    <3>3. /\ f[n] = Combine(c[1], f[n - 1], entries[n].score)
          /\ c[1] \in Boards
      BY <2>9, <2>12
    <3>4. f[n] \in Int /\ ~ Better(c[1], entries[n].score, f[n])
      BY <3>1, <3>2, <3>3, CombineType, CombineBest
    <3>5. f[n] = entries[n].score \/ (f[n] = f[n - 1] /\ f[n - 1] # None)
      BY <3>3 DEF Combine
    <3>6. f[n] = None \/ \E i \in 1 .. n : IsSubmit(entries[i], c, f[n])
      BY <2>7, <2>10, <2>12, <3>5 DEF Hits
    <3>7. ASSUME NEW i \in 1 .. n - 1, Hits(entries[i], c)
          PROVE  ~ Better(c[1], entries[i].score, f[n])
      <4>1. entries[i] \in Record
        BY <2>5
      <4>2. entries[i].score \in Int
        BY <1>a, <3>7, <4>1 DEF Hits, IsSubmit
      <4>3. f[n - 1] \in Int /\ ~ Better(c[1], entries[i].score, f[n - 1])
        BY <2>7, <3>7
      <4>4. f[n - 1] # None
        BY <4>3, NoneAssumption
      <4> QED
        BY <3>1, <3>2, <3>3, <4>2, <4>3, <4>4, CombineBest
    <3> QED
      BY <2>3, <2>10, <3>4, <3>6, <3>7
  <2> QED
    BY <2>11, <2>12
<1>2. P(Len(entries))
  BY <1>0, <1>1
<1> QED
  BY <1>2 DEF f

(* A cell that no tombstone names has no removal in its stream. *)
LEMMA NoRemovals ==
  ASSUME NEW c \in Boards \X Slices \X Members, ~ Tombstoned(c[1], c[3]),
         NEW i \in 1 .. Len(log[PartitionOf(c[1], c[3])])
  PROVE  ~ IsRemoval(log[PartitionOf(c[1], c[3])][i], c)
<1>1. PartitionOf(c[1], c[3]) \in Partitions
  BY PartitionOfType
<1> QED
  BY <1>1 DEF Tombstoned, HasTombstone, IsRemoval

(* Best-wins boards are effectively exactly-once: once a partition is settled, *)
(* every member that moderation has left alone has the score that replaying    *)
(* the log would give, however many crashes, failed calls, redeliveries and    *)
(* expired markers there were.                                                 *)
THEOREM BestBoardsConverge == Spec => []BestConverges
<1>1. IInv /\ OrderedInv /\ SourceInv => BestConverges
  <2> SUFFICES ASSUME IInv, OrderedInv, SourceInv, NEW c \in SettledCells("best")
               PROVE  MatchesReplay(c)
    BY DEF BestConverges
  <2>1. /\ c \in Boards \X Slices \X Members /\ PolicyOf[c[1]] = "best"
        /\ ~ Tombstoned(c[1], c[3]) /\ Settled(PartitionOf(c[1], c[3]))
    BY DEF SettledCells
  <2>2. PICK p \in Partitions : p = PartitionOf(c[1], c[3])
    BY <2>1, PartitionOfType
  <2>3. /\ log[p] \in Seq(Record) /\ Len(log[p]) \in Nat
        /\ delivered[p] = Len(log[p]) /\ 1 .. Len(log[p]) \subseteq marked[p]
    BY <2>1, <2>2 DEF IInv, TypeOK, Streams, Settled, Acked
  <2> DEFINE x == Replay(log[p], c)[Len(log[p])]
  <2>4. \A i \in 1 .. Len(log[p]) : ~ IsRemoval(log[p][i], c)
    BY <2>1, <2>2, NoRemovals
  <2>5. /\ x = None \/ \E i \in 1 .. Len(log[p]) : IsSubmit(log[p][i], c, x)
        /\ \A i \in 1 .. Len(log[p]) :
             Hits(log[p][i], c) => x \in Int /\ ~ Better(c[1], log[p][i].score, x)
    BY <2>1, <2>3, <2>4, ReplayBest
  <2> HIDE DEF x
  <2>6. board[c] = None \/ \E i \in 1 .. Len(log[p]) : IsSubmit(log[p][i], c, board[c])
    BY <2>1, <2>2, <2>3 DEF SourceInv, Source
  <2>7. ASSUME NEW i \in 1 .. Len(log[p]), Hits(log[p][i], c)
        PROVE  board[c] # None /\ ~ Better(c[1], log[p][i].score, board[c])
    <3>1. /\ i \in marked[p] /\ log[p][i].op = "submit" /\ c[2] \in log[p][i].slices
          /\ Cell(log[p][i], c[2]) = c /\ log[p][i].board = c[1] /\ log[p][i].member = c[3]
      BY <2>3, <2>7 DEF Hits, IsSubmit, Cell
    <3>2. Binding(log, log[p][i])
      BY <2>1, <3>1 DEF Binding, Tombstoned
    <3>3. RankedIn(board, log[p][i], c[2])
      BY <3>1, <3>2 DEF IInv, RankInv, MarkedInv
    <3> QED
      BY <3>1, <3>3 DEF RankedIn
  <2>8. board[c] = x
    <3>1. ASSUME NEW i \in 1 .. Len(log[p]), NEW y, IsSubmit(log[p][i], c, y)
          PROVE  /\ Hits(log[p][i], c) /\ log[p][i].score = y /\ y \in Int
      <4>1. log[p][i] \in Record
        BY <2>3
      <4> QED
        BY <3>1, <4>1, ScoresAssumption DEF Hits, IsSubmit, Record, Submit, Tombstone
    <3>2. CASE board[c] = None
      BY <2>5, <2>7, <3>1, <3>2
    <3>3. CASE board[c] # None
      <4>1. PICK i \in 1 .. Len(log[p]) : IsSubmit(log[p][i], c, board[c])
        BY <2>6, <3>3
      <4>2. x \in Int /\ ~ Better(c[1], board[c], x) /\ board[c] \in Int
        BY <2>5, <3>1, <4>1
      <4>3. PICK j \in 1 .. Len(log[p]) : IsSubmit(log[p][j], c, x)
        BY <2>5, <4>2, NoneAssumption
      <4>4. Hits(log[p][j], c) /\ log[p][j].score = x
        BY <4>3 DEF Hits, IsSubmit
      <4>5. ~ Better(c[1], x, board[c])
        BY <2>7, <4>4
      <4> QED
        BY <4>2, <4>5 DEF Better
    <3> QED
      BY <3>2, <3>3
  <2>9. c = <<c[1], c[2], c[3]>>
    BY <2>1
  <2> QED
    BY <2>2, <2>8, <2>9 DEF MatchesReplay, ReplayCell, x
<1> QED
  BY <1>1, RankCorrect, SourceCorrect, PTL

----------------------------------------------------------------------------
(* How a step moves the entries that hit a cell towards being executed. *)

(* The worker that owns partition p stops, or a marker of p expires. *)
Stops(p) ==
  \/ \E w \in Nodes : /\ p \in OwnedPartitions(w) /\ part[w] = p /\ msgs[w] # {}
                      /\ FlushFails(w) \/ RedisError(w) \/ Crash(w)
  \/ \E i \in marked[p] : ExpireMarker(p, i)

(* Executing one entry leaves the others executed or not. *)
LEMMA ExecOthers ==
  ASSUME TypeOK, NEW w \in Nodes, NEW i, NEW t, Exec(w, i, t), NEW p, NEW j, NEW s, j # i
  PROVE  Done(p, j, s)' <=> Done(p, j, s)
<1>1. /\ UNCHANGED <<marked, part, fresh, recs>>
      /\ \A v \in Nodes : ops'[v] = IF v = w THEN ops[w] \ {<<i, t>>} ELSE ops[v]
  BY DEF Exec, TypeOK, Queues
<1> QED
  BY <1>1 DEF Done

(* A worker executes entry i on slice s of the stream it works on. *)
LEMMA ExecStep ==
  ASSUME OrderedInv, NEW c \in Boards \X Slices \X Members, ~ Tombstoned(c[1], c[3]),
         NEW p \in Partitions, p = PartitionOf(c[1], c[3]), [CoreNext]_coreVars,
         NEW w \in Nodes, NEW i \in msgs[w], Exec(w, i, c[2]), Cell(log[part[w]][i], c[2]) = c
  PROVE  /\ part[w] = p /\ i \in 1 .. Len(log[p]) /\ Hits(log[p][i], c)
         /\ pc[w] = "apply" /\ i \in fresh[w] \ recs[w]
         /\ ~ Done(p, i, c[2]) /\ Done(p, i, c[2])'
         /\ board'[c] = Combine(c[1], board[c], log[p][i].score)
         /\ UNCHANGED <<log, delivered, pending, marked, pc, part, msgs, fresh, recs, faults>>
<1> USE DEF OrderedInv
<1>1. /\ c[1] = log[part[w]][i].board /\ c[3] = log[part[w]][i].member
  BY DEF Cell
<1>2. part[w] = p /\ i \in 1 .. Len(log[p]) /\ log[p][i] \in Record
  BY <1>1, HeldStable, EntryInLog DEF PlacedInv, DeliveryInv
<1>3. /\ UNCHANGED <<log, delivered, pending, marked, pc, part, msgs, fresh, recs, faults>>
      /\ pc[w] = "apply" /\ <<i, c[2]>> \in ops[w]
      /\ ops' = [ops EXCEPT ![w] = @ \ {<<i, c[2]>>}]
  BY DEF Exec
<1>4. log[p][i].op = "submit"
  <2>1. ~ IsRemoval(log[p][i], c)
    BY <1>2, NoRemovals
  <2> QED
    BY <1>1, <1>2, <2>1 DEF IsRemoval, Record, Submit, Tombstone
<1>5. Hits(log[p][i], c)
  BY <1>2, <1>3, <1>4 DEF OrderInv, Op, Hits, IsSubmit
<1>6. /\ i \in fresh[w] \ recs[w] /\ i \notin marked[p]
  BY <1>2, <1>3 DEF DeliveryInv, BatchInv, OrderInv
<1>7. ASSUME NEW v \in Nodes, part[v] = p, fresh[v] # {} PROVE v = w
  BY <1>2, <1>7, OneHolder DEF DeliveryInv, BatchInv
<1>8. ~ Done(p, i, c[2])
  BY <1>3, <1>6, <1>7 DEF Done
<1>9. \A v \in Nodes : ops'[v] = IF v = w THEN ops[w] \ {<<i, c[2]>>} ELSE ops[v]
  BY <1>3 DEF TypeOK, Queues
<1>10. Done(p, i, c[2])'
  BY <1>2, <1>3, <1>6, <1>9 DEF Done
<1>11. board'[c] = Combine(c[1], board[c], log[p][i].score)
  BY <1>1, <1>2, <1>4 DEF Exec, TypeOK, Rankings
<1> QED
  BY <1>2, <1>3, <1>5, <1>6, <1>8, <1>10, <1>11

(* Apart from such steps, a cell that no tombstone names keeps its score. *)
LEMMA BoardKept ==
  ASSUME TypeOK, RemovalInv, [CoreNext]_coreVars,
         NEW c \in Boards \X Slices \X Members, ~ Tombstoned(c[1], c[3])
  PROVE  \/ board'[c] = board[c]
         \/ \E w \in Nodes : \E i \in msgs[w] :
              Exec(w, i, c[2]) /\ Cell(log[part[w]][i], c[2]) = c
<1>1. ASSUME NEW w \in Nodes, NEW i \in msgs[w], NEW t \in Slices, Exec(w, i, t),
             board'[c] # board[c]
      PROVE  Exec(w, i, c[2]) /\ Cell(log[part[w]][i], c[2]) = c
  <2>1. Cell(log[part[w]][i], t) = c
    BY <1>1 DEF Exec, TypeOK, Rankings
  <2>2. t = c[2]
    BY <2>1 DEF Cell
  <2> QED
    BY <1>1, <2>1, <2>2
<1>2. ASSUME NEW n \in Nodes, NEW k \in Boards \X Slices, SyncRemove(n, k)
      PROVE  board'[c] = board[c]
  <2>1. Tombstoned(k[1], rm[n].member)
    BY <1>2 DEF SyncRemove, RemovalInv
  <2>2. <<k[1], k[2], rm[n].member>> # c
    BY <2>1
  <2> QED
    BY <1>2, <2>2 DEF SyncRemove, TypeOK, Rankings
<1> QED
  BY <1>1, <1>2, Frame DEF Rewrites

(* Only its execution makes an entry executed. *)
LEMMA DoneGained ==
  ASSUME OrderedInv, [CoreNext]_coreVars, NEW c \in Boards \X Slices \X Members, NEW p \in Partitions,
         NEW j \in 1 .. Len(log[p]), Hits(log[p][j], c), Done(p, j, c[2])'
  PROVE  \/ Done(p, j, c[2])
         \/ \E w \in Nodes : j \in msgs[w] /\ part[w] = p /\ Exec(w, j, c[2])
<1> USE DEF OrderedInv
<1> DEFINE Goal == \/ Done(p, j, c[2])
                   \/ \E w \in Nodes : j \in msgs[w] /\ part[w] = p /\ Exec(w, j, c[2])
<1>2. ASSUME NEW w \in Nodes, part[w] = p, j \in fresh[w] \ recs[w], <<j, c[2]>> \notin ops[w]
      PROVE  Goal
  BY <1>2 DEF Done
<1>3. ASSUME j \in marked'[p] PROVE Goal
  <2>1. CASE j \in marked[p]
    BY <2>1 DEF Done
  <2>2. ASSUME j \notin marked[p], NEW w \in Nodes, NEW i \in fresh[w], Mark(w, i)
        PROVE  Goal
    <3>1. i = j /\ part[w] = p
      BY <1>3, <2>2 DEF Mark, TypeOK, EntrySets
    <3>2. recs[w] = {} /\ ops[w] = {}
      BY <2>2 DEF Mark, DeliveryInv, BatchInv
    <3> HIDE DEF Goal
    <3> QED
      BY <1>2, <2>2, <3>1, <3>2
  <2>3. Expires => j \in marked[p]
    BY <1>3 DEF Expires, ExpireMarker, TypeOK, EntrySets
  <2> HIDE DEF Goal
  <2> QED
    BY <1>3, <2>1, <2>2, <2>3, Frame DEF Marks
<1>4. ASSUME NEW w \in Nodes, part'[w] = p, j \in fresh'[w] \ recs'[w], <<j, c[2]>> \notin ops'[w]
      PROVE  Goal
  <2>0. /\ recs[w] \subseteq fresh[w] /\ fresh[w] \subseteq msgs[w]
    BY DEF DeliveryInv, BatchInv
  <2>1. ASSUME j \in fresh[w] PROVE part[w] = p
    BY <1>4, <2>0, <2>1, HeldStable
  <2>2. ASSUME fresh'[w] \subseteq fresh[w], recs'[w] = recs[w], ops'[w] = ops[w]
        PROVE  Goal
    <3> HIDE DEF Goal
    <3> QED
      BY <1>2, <1>4, <2>1, <2>2
  <2>3. ASSUME NEW v \in Nodes, v # w,
               \/ Check(v) \/ Flush(v) \/ FlushFails(v) \/ ScanTombstone(v)
               \/ \E i \in msgs[v], t \in Slices : Exec(v, i, t)
               \/ \E i \in fresh[v] : Mark(v, i)
               \/ RedisError(v) \/ Crash(v)
        PROVE  fresh'[w] = fresh[w] /\ recs'[w] = recs[w] /\ ops'[w] = ops[w]
    BY <2>3 DEF Check, Flush, FlushFails, ScanTombstone, Exec, Mark, RedisError,
                Crash, DropBatch, TypeOK, HeldSets, Queues
  <2>4. ASSUME Check(w) \/ FlushFails(w) \/ RedisError(w) \/ Crash(w) PROVE FALSE
    BY <1>4, <2>4 DEF Check, FlushFails, RedisError, Crash, DropBatch, TypeOK, HeldSets
  <2>5. ASSUME Flush(w) PROVE Goal
    <3>1. /\ fresh'[w] = fresh[w] /\ recs'[w] = recs[w] \ NextSubmits(w) /\ ops[w] = {}
          /\ ops'[w] = {o \in NextSubmits(w) \X Slices : o[2] \in log[part[w]][o[1]].slices}
      BY <2>5 DEF Flush, Answered, TypeOK, HeldSets, Queues
    <3>2. part[w] = p /\ c[2] \in log[p][j].slices /\ c[2] \in Slices
      BY <1>4, <2>1, <3>1 DEF Hits, IsSubmit
    <3>3. j \notin NextSubmits(w)
      BY <1>4, <3>1, <3>2
    <3> HIDE DEF Goal
    <3> QED
      BY <1>2, <1>4, <2>1, <3>1, <3>3
  <2>6. ASSUME ScanTombstone(w) PROVE Goal
    <3>1. PICK i \in recs[w] :
            /\ \A k \in recs[w] : i <= k
            /\ recs'[w] = recs[w] \ {i}
      BY <2>6 DEF ScanTombstone, TypeOK, HeldSets, Queues
    <3>2. fresh'[w] = fresh[w] /\ ops[w] = {} /\ NextSubmits(w) = {}
      BY <2>6 DEF ScanTombstone, Answered
    <3>3. Op(w, i) # "submit"
      <4>1. \A k \in recs[w] : k \in Nat
        BY DEF TypeOK, HeldSets
      <4>2. ASSUME Op(w, i) = "submit" PROVE i \in NextSubmits(w)
        BY <3>1, <4>1, <4>2 DEF NextSubmits
      <4> QED
        BY <3>2, <4>2
    <3>4. j # i
      BY <1>4, <2>1, <3>2, <3>3 DEF Op, Hits, IsSubmit
    <3> HIDE DEF Goal
    <3> QED
      BY <1>2, <1>4, <2>1, <3>1, <3>2, <3>4
  <2>7. ASSUME NEW i \in msgs[w], NEW t \in Slices, Exec(w, i, t) PROVE Goal
    <3>1. /\ fresh'[w] = fresh[w] /\ recs'[w] = recs[w] /\ ops'[w] = ops[w] \ {<<i, t>>}
      BY <2>7 DEF Exec, TypeOK, Queues
    <3>2. CASE i = j /\ t = c[2]
      BY <1>4, <2>1, <2>7, <3>1, <3>2
    <3>3. CASE ~ (i = j /\ t = c[2])
      <4> HIDE DEF Goal
      <4> QED
        BY <1>2, <1>4, <2>1, <3>1, <3>3
    <3> QED
      BY <3>2, <3>3
  <2>8. ASSUME NEW i \in fresh[w], Mark(w, i) PROVE Goal
    <3>1. fresh'[w] \subseteq fresh[w] /\ recs'[w] = recs[w] /\ ops'[w] = ops[w]
      BY <2>8 DEF Mark, TypeOK, HeldSets
    <3> HIDE DEF Goal
    <3> QED
      BY <2>2, <3>1
  <2> HIDE DEF Goal
  <2> QED
    BY <2>2, <2>3, <2>4, <2>5, <2>6, <2>7, <2>8, Frame DEF Handles
<1> HIDE DEF Goal
<1>5. Goal
  BY <1>3, <1>4 DEF Done
<1> QED
  BY <1>5 DEF Goal

(* An entry is executed for good unless its worker stops or its marker expires. *)
LEMMA DoneLost ==
  ASSUME OrderedInv, [CoreNext]_coreVars, NEW p \in Partitions, NEW j, NEW s, Done(p, j, s)
  PROVE  Done(p, j, s)' \/ Stops(p)
<1> USE DEF OrderedInv
<1> SUFFICES ASSUME ~ Stops(p) PROVE Done(p, j, s)'
  OBVIOUS
<1>1. ASSUME j \in marked[p] PROVE Done(p, j, s)'
  <2>1. marked[p] \subseteq marked'[p]
    <3>1. ASSUME NEW w \in Nodes, NEW i \in fresh[w], Mark(w, i)
          PROVE  marked[p] \subseteq marked'[p]
      BY <3>1 DEF Mark, TypeOK, EntrySets
    <3>2. ASSUME NEW q \in Partitions, NEW i \in marked[q], ExpireMarker(q, i)
          PROVE  marked[p] \subseteq marked'[p]
      BY <3>2 DEF ExpireMarker, Stops, TypeOK, EntrySets
    <3> QED
      BY <3>1, <3>2, Frame DEF Marks, Expires
  <2> QED
    BY <1>1, <2>1 DEF Done
<1>2. ASSUME NEW w \in Nodes, part[w] = p, j \in fresh[w] \ recs[w], <<j, s>> \notin ops[w]
      PROVE  Done(p, j, s)'
  <2>0. /\ recs[w] \subseteq fresh[w] /\ fresh[w] \subseteq msgs[w] /\ p \in OwnedPartitions(w)
    BY <1>2 DEF DeliveryInv, BatchInv, OwnedInv
  <2>1. part'[w] = p
    BY <1>2, <2>0, HeldStable
  <2>2. ASSUME j \in fresh'[w] \ recs'[w], <<j, s>> \notin ops'[w] PROVE Done(p, j, s)'
    BY <2>1, <2>2 DEF Done
  <2>3. ASSUME NEW v \in Nodes, v # w,
               \/ Check(v) \/ Flush(v) \/ FlushFails(v) \/ ScanTombstone(v)
               \/ \E i \in msgs[v], t \in Slices : Exec(v, i, t)
               \/ \E i \in fresh[v] : Mark(v, i)
               \/ RedisError(v) \/ Crash(v)
        PROVE  fresh'[w] = fresh[w] /\ recs'[w] = recs[w] /\ ops'[w] = ops[w]
    BY <2>3 DEF Check, Flush, FlushFails, ScanTombstone, Exec, Mark, RedisError,
                Crash, DropBatch, TypeOK, HeldSets, Queues
  <2>4. ASSUME FlushFails(w) \/ RedisError(w) \/ Crash(w) PROVE FALSE
    BY <1>2, <2>0, <2>4 DEF Stops
  <2>5. ASSUME Check(w) PROVE FALSE
    BY <1>2, <2>5 DEF Check, DeliveryInv, BatchInv
  <2>6. ASSUME Flush(w) PROVE j \in fresh'[w] \ recs'[w] /\ <<j, s>> \notin ops'[w]
    <3>1. /\ fresh'[w] = fresh[w] /\ recs'[w] = recs[w] \ NextSubmits(w)
          /\ \A o \in ops'[w] : o[1] \in NextSubmits(w)
      BY <2>6 DEF Flush, TypeOK, HeldSets, Queues
    <3> QED
      BY <1>2, <3>1 DEF NextSubmits
  <2>7. ASSUME ScanTombstone(w) PROVE j \in fresh'[w] \ recs'[w] /\ <<j, s>> \notin ops'[w]
    <3>1. /\ fresh'[w] = fresh[w] /\ recs'[w] \subseteq recs[w]
          /\ \A o \in ops'[w] : o[1] \in recs[w]
      BY <2>7 DEF ScanTombstone, TypeOK, HeldSets, Queues
    <3> QED
      BY <1>2, <3>1
  <2>8. ASSUME NEW i \in msgs[w], NEW t \in Slices, Exec(w, i, t)
        PROVE  j \in fresh'[w] \ recs'[w] /\ <<j, s>> \notin ops'[w]
    BY <1>2, <2>8 DEF Exec, TypeOK, Queues
  <2>9. ASSUME NEW i \in fresh[w], Mark(w, i) PROVE Done(p, j, s)'
    <3>1. CASE i = j
      BY <1>2, <2>9, <3>1 DEF Mark, Done, TypeOK, EntrySets
    <3>2. CASE i # j
      <4>1. j \in fresh'[w] \ recs'[w] /\ <<j, s>> \notin ops'[w]
        BY <1>2, <2>9, <3>2 DEF Mark, TypeOK, HeldSets
      <4> QED
        BY <2>2, <4>1
    <3> QED
      BY <3>1, <3>2
  <2> QED
    BY <1>2, <2>2, <2>3, <2>4, <2>5, <2>6, <2>7, <2>8, <2>9, Frame DEF Handles
<1> QED
  BY <1>1, <1>2 DEF Done

----------------------------------------------------------------------------
(* Without faults the sorted sets follow the log. *)

(* Partition p will never settle: an entry was acknowledged unapplied, or is in *)
(* a batch that skips it, or the consumer stopped on a record the engine refused. *)
Spoiled(p) ==
  \/ \E j \in Acked(p) : j \notin marked[p]
  \/ \E w \in Nodes : p \in OwnedPartitions(w) /\ pc[w] = "stopped" /\ pending[p] # {}
  \/ \E w \in Nodes : /\ part[w] = p /\ pc[w] \in {"apply", "mark"}
                      /\ \E j \in msgs[w] : j \notin fresh[w] \cup marked[p]

(* Exactly the first k entries of its stream have been executed on a cell. *)
Progress(c, k) ==
  LET p == PartitionOf(c[1], c[3])
  IN /\ board[c] = Replay(log[p], c)[k]
     /\ \A j \in 1 .. Len(log[p]) : Hits(log[p][j], c) => (Done(p, j, c[2]) <=> j <= k)

ProgressInv ==
  FaultFree =>
    \A c \in Boards \X Slices \X Members :
      LET p == PartitionOf(c[1], c[3])
      IN ~ Tombstoned(c[1], c[3]) => Spoiled(p) \/ \E k \in 0 .. Len(log[p]) : Progress(c, k)

(* Without faults, what keeps a partition from settling stays. *)
LEMMA SpoiledStable ==
  ASSUME OrderedInv, [CoreNext]_coreVars, FaultFree', NEW p \in Partitions, Spoiled(p)
  PROVE  Spoiled(p)'
<1> USE DEF OrderedInv
<1>0. /\ FaultFree /\ ~ Expires /\ \A w \in Nodes : ~ RedisError(w) /\ ~ Crash(w) /\ pc[w] # "down"
  BY FaultFreeSteps DEF InOrderInv
<1>a. \A w \in Nodes : fresh[w] \subseteq msgs[w] /\ msgs[w] \subseteq pending[part[w]]
  BY DEF DeliveryInv, BatchInv
<1>b. delivered[p] \in Nat /\ delivered'[p] \in Nat
  BY NextCoreType DEF CoreType, TypeOK, DeliveryInv
<1>c. ASSUME NEW w \in Nodes, Restart(w) PROVE FALSE
  BY <1>0, <1>c DEF Restart
<1>1. ASSUME NEW j \in Acked(p), j \notin marked[p] PROVE Spoiled(p)'
  <2>0. j \in 1 .. delivered[p] /\ j \notin pending[p]
    BY <1>1 DEF Acked
  <2>1. j \in 1 .. delivered'[p]
    BY <2>0, DeliveredGrows
  <2>2. j \notin pending'[p]
    <3>1. ASSUME NEW w \in Nodes, NEW q \in Partitions, StepRead(w, q) PROVE j \notin pending'[p]
      BY <2>0, <1>b, <3>1 DEF StepRead, NextRead, TypeOK, EntrySets
    <3>2. ASSUME NEW w \in Nodes, Ack(w) PROVE j \notin pending'[p]
      BY <2>0, <3>2 DEF Ack, TypeOK, EntrySets
    <3>3. ASSUME Moves, ~ \E w \in Nodes, q \in Partitions : StepRead(w, q),
                 ~ \E w \in Nodes : Ack(w)
          PROVE  pending' = pending
      BY <3>3 DEF Moves, Reads, ReclaimClaim, Marks, Mark, Expires, ExpireMarker, Check,
                  FlushFails, Applied, RedisError, Crash, Restart, redisVars
    <3> QED
      BY <2>0, <3>1, <3>2, <3>3, MoveFrame
  <2>3. j \notin marked'[p]
    <3>1. ASSUME NEW w \in Nodes, NEW i \in fresh[w], Mark(w, i) PROVE j \notin marked'[p]
      BY <1>1, <1>a, <2>0, <3>1 DEF Mark, TypeOK, EntrySets
    <3> QED
      BY <1>0, <1>1, <3>1, Frame DEF Marks
  <2> QED
    BY <2>1, <2>2, <2>3 DEF Spoiled, Acked
<1>2. ASSUME NEW w \in Nodes, p \in OwnedPartitions(w), pc[w] = "stopped", pending[p] # {}
      PROVE  Spoiled(p)'
  <2>1. pc'[w] = "stopped"
    <3>1. ASSUME Moves PROVE pc'[w] = "stopped"
      <4>1. ASSUME NEW v \in Nodes, NEW q \in Partitions, StepRead(v, q) \/ ReclaimClaim(v, q)
            PROVE  pc'[w] = "stopped"
        BY <1>2, <4>1 DEF StepRead, ReclaimClaim, InPass, TypeOK, Places
      <4>2. ASSUME NEW v \in Nodes, Check(v) \/ FlushFails(v) \/ Applied(v) \/ Ack(v)
            PROVE  pc'[w] = "stopped"
        BY <1>2, <4>2 DEF Check, FlushFails, Applied, Ack, TypeOK, Places
      <4>3. ASSUME Marks PROVE pc' = pc
        BY <4>3 DEF Marks, Mark
      <4> QED
        BY <1>0, <1>2, <1>c, <3>1, <4>1, <4>2, <4>3 DEF Moves, Reads
    <3> QED
      BY <1>2, <3>1, MoveFrame
  <2>2. pending[p] \subseteq pending'[p]
    <3>1. ASSUME NEW v \in Nodes, NEW q \in Partitions, StepRead(v, q)
          PROVE pending[p] \subseteq pending'[p]
      BY <3>1 DEF StepRead, TypeOK, EntrySets
    <3>2. ASSUME NEW v \in Nodes, Ack(v) PROVE pending[p] \subseteq pending'[p]
      <4>1. v # w
        BY <1>2, <3>2 DEF Ack
      <4>2. part[v] # p \/ msgs[v] = {}
        BY <1>2, <4>1, OwnershipPartitions DEF DeliveryInv, OwnedInv
      <4> QED
        BY <3>2, <4>2 DEF Ack, TypeOK, EntrySets
    <3>3. ASSUME Moves, ~ \E v \in Nodes, q \in Partitions : StepRead(v, q),
                 ~ \E v \in Nodes : Ack(v)
          PROVE  pending' = pending
      BY <3>3 DEF Moves, Reads, ReclaimClaim, Marks, Mark, Expires, ExpireMarker, Check,
                  FlushFails, Applied, RedisError, Crash, Restart, redisVars
    <3> QED
      BY <3>1, <3>2, <3>3, MoveFrame
  <2>3. pending'[p] # {} /\ p \in OwnedPartitions(w)
    BY <1>2, <2>2
  <2> QED
    BY <2>1, <2>3 DEF Spoiled, OwnedPartitions
<1>3. ASSUME NEW w \in Nodes, part[w] = p, pc[w] \in {"apply", "mark"},
             NEW j \in msgs[w], j \notin fresh[w], j \notin marked[p]
      PROVE  Spoiled(p)'
  <2>0. /\ part'[w] = p /\ j \in pending[p] /\ j \in 1 .. delivered[p] /\ p \in OwnedPartitions(w)
    BY <1>3, HeldStable DEF DeliveryInv, BatchInv, PelInv, OwnedInv
  <2>1. j \notin marked'[p]
    <3>1. ASSUME NEW v \in Nodes, NEW i \in fresh[v], Mark(v, i) PROVE j \notin marked'[p]
      <4>1. CASE v = w
        BY <1>3, <3>1, <4>1 DEF Mark, TypeOK, EntrySets
      <4>2. CASE v # w
        <5>1. part[v] # p
          BY <1>3, <1>a, <4>2, OneHolder
        <5> QED
          BY <1>3, <3>1, <5>1 DEF Mark, TypeOK, EntrySets
      <4> QED
        BY <4>1, <4>2
    <3> QED
      BY <1>0, <1>3, <3>1, Frame DEF Marks
  <2>2. ASSUME FlushFails(w) PROVE Spoiled(p)'
    <3>1. pc'[w] = "stopped" /\ pending' = pending
      BY <2>2 DEF FlushFails, redisVars, TypeOK, Places
    <3> QED
      BY <2>0, <3>1 DEF Spoiled, OwnedPartitions
  <2>3. ASSUME Ack(w) PROVE Spoiled(p)'
    <3>1. j \notin pending'[p] /\ delivered' = delivered
      BY <1>3, <2>3 DEF Ack, TypeOK, EntrySets
    <3> QED
      BY <2>0, <2>1, <3>1 DEF Spoiled, Acked
  <2>4. ASSUME ~ FlushFails(w), ~ Ack(w)
        PROVE  pc'[w] \in {"apply", "mark"} /\ j \in msgs'[w]
    <3>1. ASSUME Moves PROVE pc'[w] \in {"apply", "mark"} /\ j \in msgs'[w]
      <4>1. ASSUME NEW v \in Nodes, NEW q \in Partitions, StepRead(v, q) \/ ReclaimClaim(v, q)
            PROVE  pc'[w] = pc[w] /\ msgs'[w] = msgs[w]
        BY <1>3, <4>1 DEF StepRead, ReclaimClaim, InPass, TypeOK, Places, HeldSets
      <4>2. ASSUME NEW v \in Nodes, Check(v) \/ Applied(v)
            PROVE  pc'[w] \in {"apply", "mark"} /\ msgs' = msgs
        BY <1>3, <4>2 DEF Check, Applied, TypeOK, Places
      <4>3. ASSUME NEW v \in Nodes, v # w, FlushFails(v) \/ Ack(v)
            PROVE  pc'[w] = pc[w] /\ msgs'[w] = msgs[w]
        BY <4>3 DEF FlushFails, DropBatch, Ack, TypeOK, Places, HeldSets
      <4>4. ASSUME Marks PROVE pc' = pc /\ msgs' = msgs
        BY <4>4 DEF Marks, Mark
      <4> QED
        BY <1>0, <1>3, <1>c, <2>4, <3>1, <4>1, <4>2, <4>3, <4>4 DEF Moves, Reads
    <3> QED
      BY <1>3, <3>1, MoveFrame
  <2>5. j \notin fresh'[w]
    <3>1. ASSUME NEW v \in Nodes, Check(v) PROVE fresh'[w] = fresh[w]
      BY <1>3, <3>1 DEF Check, TypeOK, HeldSets
    <3>2. ASSUME NEW v \in Nodes, FlushFails(v) \/ \E i \in fresh[v] : Mark(v, i)
          PROVE  fresh'[w] \subseteq fresh[w]
      BY <3>2 DEF FlushFails, DropBatch, Mark, TypeOK, HeldSets
    <3>3. ASSUME NEW v \in Nodes, \/ Flush(v) \/ ScanTombstone(v)
                                  \/ \E i \in msgs[v], t \in Slices : Exec(v, i, t)
          PROVE  fresh' = fresh
      BY <3>3 DEF Flush, ScanTombstone, Exec
    <3> QED
      BY <1>0, <1>3, <3>1, <3>2, <3>3, Frame DEF Handles
  <2> QED
    BY <2>0, <2>1, <2>2, <2>3, <2>4, <2>5 DEF Spoiled
<1> QED
  BY <1>1, <1>2, <1>3 DEF Spoiled

(* Both ends of a step, for the stream of one cell. *)
LEMMA StreamGrows ==
  ASSUME OrderedInv, [CoreNext]_coreVars, NEW p \in Partitions
  PROVE  /\ log[p] \in Seq(Record) /\ log'[p] \in Seq(Record)
         /\ Len(log[p]) \in Nat /\ Len(log'[p]) \in Nat /\ Len(log[p]) <= Len(log'[p])
         /\ \A j \in 1 .. Len(log[p]) : log'[p][j] = log[p][j]
<1>1. log[p] \in Seq(Record) /\ log'[p] \in Seq(Record)
  BY NextCoreType DEF CoreType, OrderedInv, DeliveryInv, TypeOK, Streams
<1>2. Len(log[p]) \in Nat /\ Len(log'[p]) \in Nat
  BY <1>1
<1>3. \A j \in 1 .. Len(log[p]) : j \in 1 .. Len(log'[p]) /\ log'[p][j] = log[p][j]
  BY LogGrows DEF OrderedInv
<1>4. Len(log[p]) <= Len(log'[p])
  <2>1. CASE Len(log[p]) = 0
    BY <1>2, <2>1
  <2>2. CASE Len(log[p]) # 0
    BY <1>2, <1>3, <2>2
  <2> QED
    BY <2>1, <2>2
<1> QED
  BY <1>1, <1>2, <1>3, <1>4

(* An entry that has just been appended has not been executed. *)
LEMMA NewNotDone ==
  ASSUME OrderedInv, [CoreNext]_coreVars, NEW p \in Partitions, NEW j \in 1 .. Len(log'[p]), NEW s,
         Done(p, j, s)'
  PROVE  j \in 1 .. Len(log[p])
<1> USE DEF OrderedInv
<1>1. CASE UNCHANGED log
  BY <1>1
<1>2. CASE Appends
  <2>1. UNCHANGED <<marked, part, fresh, recs, ops>>
    BY <1>2 DEF Appends, HandleSubmit, AppendTombstone, workerVars
  <2>2. Done(p, j, s)
    BY <2>1 DEF Done
  <2> QED
    BY <2>2, DoneInLog
<1> QED
  BY <1>1, <1>2, Frame

(* When a worker executes an entry, everything before it that hits the cell has *)
(* been executed, unless some of it was skipped.                                *)
LEMMA EarlierDone ==
  ASSUME OrderedInv, FaultFree, NEW p \in Partitions, ~ Spoiled(p), NEW s,
         NEW w \in Nodes, part[w] = p, pc[w] = "apply",
         NEW i \in fresh[w] \ recs[w], \A o \in ops[w] : i <= o[1],
         NEW j \in Nat, 1 <= j, j < i
  PROVE  Done(p, j, s)
<1> USE DEF OrderedInv
<1>1. /\ i \in msgs[w] /\ msgs[w] \subseteq pending[p] /\ p \in OwnedPartitions(w)
      /\ pending[p] \subseteq 1 .. delivered[p] /\ delivered[p] \in Nat
  BY DEF DeliveryInv, BatchInv, PelInv, OwnedInv, TypeOK
<1>2. j \in 1 .. delivered[p]
  BY <1>1
<1>3. CASE j \notin pending[p]
  BY <1>2, <1>3 DEF Spoiled, Acked, Done
<1>4. CASE j \in pending[p]
  <2>1. j \in msgs[w]
    BY <1>1, <1>4 DEF InOrderInv
  <2>2. j \in fresh[w] \/ j \in marked[p]
    BY <2>1 DEF Spoiled
  <2>3. ASSUME j \in fresh[w] PROVE j \notin recs[w] /\ <<j, s>> \notin ops[w]
    <3>1. i \in Nat
      BY DEF TypeOK, HeldSets
    <3>2. j \notin recs[w]
      BY <3>1 DEF OrderInv
    <3>3. <<j, s>> \notin ops[w]
      BY <3>1
    <3> QED
      BY <3>2, <3>3
  <2> QED
    BY <2>2, <2>3 DEF Done
<1> QED
  BY <1>3, <1>4

(* The progress of a cell after a step, unfolded. *)
LEMMA ProgressNext ==
  ASSUME NEW c, NEW p, p = PartitionOf(c[1], c[3]), NEW k,
         board'[c] = Replay(log'[p], c)[k],
         \A j \in 1 .. Len(log'[p]) : Hits(log'[p][j], c) => (Done(p, j, c[2])' <=> j <= k)
  PROVE  Progress(c, k)'
<1>1. PartitionOf(c[1], c[3])' = p
  BY DEF PartitionOf
<1> QED
  BY <1>1 DEF Progress

(* The step that executes an entry on the cell moves it to that entry. *)
LEMMA ProgressExec ==
  ASSUME OrderedInv, FaultFree, NEW c \in Boards \X Slices \X Members, ~ Tombstoned(c[1], c[3]),
         NEW p \in Partitions, p = PartitionOf(c[1], c[3]), [CoreNext]_coreVars, ~ Spoiled(p),
         NEW w \in Nodes, NEW i \in msgs[w], Exec(w, i, c[2]), Cell(log[part[w]][i], c[2]) = c,
         NEW k \in 0 .. Len(log[p]), Progress(c, k)
  PROVE  i \in 0 .. Len(log'[p]) /\ Progress(c, i)'
<1>1. /\ part[w] = p /\ i \in 1 .. Len(log[p]) /\ Hits(log[p][i], c)
      /\ pc[w] = "apply" /\ i \in fresh[w] \ recs[w]
      /\ ~ Done(p, i, c[2]) /\ Done(p, i, c[2])'
      /\ board'[c] = Combine(c[1], board[c], log[p][i].score)
      /\ log' = log
  BY ExecStep
<1>2. /\ board[c] = Replay(log[p], c)[k]
      /\ \A j \in 1 .. Len(log[p]) : Hits(log[p][j], c) => (Done(p, j, c[2]) <=> j <= k)
  BY DEF Progress
<1>3. log[p] \in Seq(Record) /\ Len(log[p]) \in Nat
  BY StreamGrows
<1>4. k < i
  BY <1>1, <1>2, <1>3
<1>5. \A o \in ops[w] : i <= o[1]
  BY DEF Exec
<1>6. ASSUME NEW j \in k + 1 .. i - 1 PROVE ~ Hits(log[p][j], c)
  <2>1. j \in Nat /\ 1 <= j /\ j < i /\ j \in 1 .. Len(log[p]) /\ ~ (j <= k)
    BY <1>1, <1>3
  <2>2. Done(p, j, c[2])
    BY <1>1, <1>5, <2>1, EarlierDone
  <2> QED
    BY <1>2, <2>1, <2>2
<1>7. \A j \in 1 .. Len(log[p]) : ~ IsRemoval(log[p][j], c)
  BY NoRemovals
<1>8. Replay(log[p], c)[i - 1] = Replay(log[p], c)[k]
  <2>1. i - 1 \in k .. Len(log[p])
    BY <1>1, <1>3, <1>4
  <2> QED
    BY <1>3, <1>6, <1>7, <2>1, ReplayStutters
<1>9. Replay(log[p], c)[i] = ReplayEntry(c, log[p][i], Replay(log[p], c)[i - 1])
  BY <1>1, <1>3, ReplayDef
<1>10. log[p][i] \in Record
  BY <1>1, <1>3
<1>11. board'[c] = Replay(log[p], c)[i]
  BY <1>1, <1>2, <1>7, <1>8, <1>9, <1>10, ReplayOne
<1>12. ASSUME NEW j \in 1 .. Len(log[p]), Hits(log[p][j], c)
       PROVE  Done(p, j, c[2])' <=> j <= i
  <2>0. j # i => (Done(p, j, c[2])' <=> Done(p, j, c[2]))
    BY ExecOthers DEF OrderedInv
  <2>1. CASE j = i
    BY <1>1, <1>3, <2>1
  <2>2. CASE j < i
    <3>1. Done(p, j, c[2])
      <4>1. j \in Nat /\ 1 <= j
        BY <1>3
      <4> QED
        BY <1>1, <1>5, <2>2, <4>1, EarlierDone
    <3> QED
      BY <1>1, <1>3, <2>0, <2>2, <3>1
  <2>3. CASE i < j
    BY <1>1, <1>2, <1>3, <1>4, <1>12, <2>0, <2>3
  <2> QED
    BY <1>1, <1>3, <2>1, <2>2, <2>3
<1> QED
  BY <1>1, <1>3, <1>11, <1>12, ProgressNext

(* Every step keeps every cell at the replay of what has been executed on it. *)
LEMMA NextProgress ==
  ASSUME OrderedInv, RemovalInv, ProgressInv, [CoreNext]_coreVars
  PROVE  ProgressInv'
<1> SUFFICES ASSUME FaultFree', NEW c \in Boards \X Slices \X Members,
                    NEW p \in Partitions, p = PartitionOf(c[1], c[3]), ~ Tombstoned(c[1], c[3])',
                    ~ Spoiled(p)'
             PROVE  \E k \in 0 .. Len(log'[p]) : Progress(c, k)'
  BY PartitionOfType DEF ProgressInv, PartitionOf
<1>1. /\ FaultFree /\ ~ Expires /\ \A w \in Nodes : ~ RedisError(w) /\ ~ Crash(w)
  BY FaultFreeSteps DEF OrderedInv
<1>2. ~ Tombstoned(c[1], c[3])
  BY TombstonedStable DEF OrderedInv
<1>3. ~ Spoiled(p)
  BY SpoiledStable
<1>4. PICK k \in 0 .. Len(log[p]) : Progress(c, k)
  BY <1>1, <1>2, <1>3 DEF ProgressInv
<1>5. ~ Stops(p)
  <2>1. ASSUME NEW w \in Nodes, p \in OwnedPartitions(w), part[w] = p, msgs[w] # {}, FlushFails(w)
        PROVE  Spoiled(p)'
    <3>1. pc'[w] = "stopped" /\ pending' = pending
      BY <2>1 DEF FlushFails, redisVars, OrderedInv, TypeOK, Places
    <3>2. pending[p] # {}
      BY <2>1 DEF OrderedInv, DeliveryInv, BatchInv
    <3> QED
      BY <2>1, <3>1, <3>2 DEF Spoiled, OwnedPartitions
  <2> QED
    BY <1>1, <2>1 DEF Stops, Expires
<1>6. CASE \E w \in Nodes : \E i \in msgs[w] :
             Exec(w, i, c[2]) /\ Cell(log[part[w]][i], c[2]) = c
  BY <1>1, <1>2, <1>3, <1>4, <1>6, ProgressExec
<1>7. ASSUME ~ \E w \in Nodes : \E i \in msgs[w] :
                 Exec(w, i, c[2]) /\ Cell(log[part[w]][i], c[2]) = c
      PROVE  k \in 0 .. Len(log'[p]) /\ Progress(c, k)'
  <2>1. /\ log[p] \in Seq(Record) /\ log'[p] \in Seq(Record)
        /\ Len(log[p]) \in Nat /\ Len(log'[p]) \in Nat /\ Len(log[p]) <= Len(log'[p])
        /\ \A j \in 1 .. Len(log[p]) : log'[p][j] = log[p][j]
    BY StreamGrows
  <2>2. board'[c] = board[c]
    BY <1>2, <1>7, BoardKept DEF OrderedInv
  <2>3. /\ board[c] = Replay(log[p], c)[k]
        /\ \A j \in 1 .. Len(log[p]) : Hits(log[p][j], c) => (Done(p, j, c[2]) <=> j <= k)
    BY <1>4 DEF Progress
  <2>4. Replay(log'[p], c)[k] = Replay(log[p], c)[k]
    BY <2>1, ReplayPrefix
  <2>5. ASSUME NEW j \in 1 .. Len(log'[p]), Hits(log'[p][j], c)
        PROVE  Done(p, j, c[2])' <=> j <= k
    <3>1. CASE j \in 1 .. Len(log[p])
      <4>1. Hits(log[p][j], c)
        BY <2>1, <2>5, <3>1
      <4>2. ASSUME NEW w \in Nodes, j \in msgs[w], part[w] = p, Exec(w, j, c[2]) PROVE FALSE
        BY <1>7, <4>1, <4>2 DEF Hits, IsSubmit
      <4>3. Done(p, j, c[2])' <=> Done(p, j, c[2])
        BY <1>5, <3>1, <4>1, <4>2, DoneGained, DoneLost
      <4> QED
        BY <2>3, <3>1, <4>1, <4>3
    <3>2. CASE j \notin 1 .. Len(log[p])
      <4>1. ~ Done(p, j, c[2])'
        BY <3>2, NewNotDone
      <4> QED
        BY <2>1, <3>2, <4>1
    <3> QED
      BY <3>1, <3>2
  <2>6. k \in 0 .. Len(log'[p])
    BY <1>4, <2>1
  <2>7. board'[c] = Replay(log'[p], c)[k]
    BY <2>2, <2>3, <2>4
  <2>8. Progress(c, k)'
    BY <2>5, <2>7, ProgressNext
  <2> QED
    BY <2>6, <2>8
<1> QED
  BY <1>6, <1>7

(* Without crashes, failed calls and expired markers, batching, slicing and the *)
(* Step and Reclaim passes preserve each member's log order: under every policy  *)
(* a settled cell that moderation has left alone is the replay of the log.       *)
THEOREM ConvergesWithoutFaults == Spec => []FaultFreeConverges
<1>1. Init => ProgressInv
  <2> SUFFICES ASSUME Init, NEW c \in Boards \X Slices \X Members,
                      NEW p \in Partitions, p = PartitionOf(c[1], c[3])
               PROVE  \E k \in 0 .. Len(log[p]) : Progress(c, k)
    BY PartitionOfType DEF ProgressInv
  <2>1. log[p] = << >> /\ board[c] = None /\ Len(log[p]) = 0
    BY DEF Init
  <2>2. Replay(log[p], c)[0] = None
    BY <2>1, ReplayDef
  <2>3. Progress(c, 0)
    BY <2>1, <2>2 DEF Progress
  <2> QED
    BY <2>1, <2>3
<1>2. IInv /\ OrderedInv /\ ProgressInv /\ [Next]_vars => ProgressInv'
  BY StepIsCore, NextProgress DEF IInv, RankInv
<1>3. OrderedInv /\ ProgressInv => FaultFreeConverges
  <2> SUFFICES ASSUME OrderedInv, ProgressInv, FaultFree, NEW policy, NEW c \in SettledCells(policy)
               PROVE  MatchesReplay(c)
    BY DEF FaultFreeConverges
  <2>1. /\ c \in Boards \X Slices \X Members
        /\ ~ Tombstoned(c[1], c[3]) /\ Settled(PartitionOf(c[1], c[3]))
    BY DEF SettledCells
  <2>2. PICK p \in Partitions : p = PartitionOf(c[1], c[3])
    BY <2>1, PartitionOfType
  <2>3. /\ log[p] \in Seq(Record) /\ Len(log[p]) \in Nat /\ pending[p] = {}
        /\ Acked(p) \subseteq marked[p] /\ 1 .. Len(log[p]) \subseteq marked[p]
    BY <2>1, <2>2 DEF OrderedInv, TypeOK, Streams, Settled, Acked
  <2>4. ~ Spoiled(p)
    BY <2>3 DEF Spoiled, OrderedInv, DeliveryInv, BatchInv
  <2>5. PICK k \in 0 .. Len(log[p]) : Progress(c, k)
    BY <2>1, <2>2, <2>4 DEF ProgressInv
  <2>6. ASSUME NEW j \in k + 1 .. Len(log[p]) PROVE ~ Hits(log[p][j], c)
    <3>1. j \in 1 .. Len(log[p]) /\ ~ (j <= k)
      BY <2>3
    <3>2. Done(p, j, c[2])
      BY <2>3, <3>1 DEF Done
    <3> QED
      BY <2>2, <2>5, <3>1, <3>2 DEF Progress
  <2>7. Replay(log[p], c)[Len(log[p])] = Replay(log[p], c)[k]
    <3>1. \A i \in 1 .. Len(log[p]) : ~ IsRemoval(log[p][i], c)
      BY <2>1, <2>2, NoRemovals
    <3>2. Len(log[p]) \in k .. Len(log[p])
      BY <2>3
    <3> QED
      BY <2>1, <2>3, <2>6, <3>1, <3>2, ReplayStutters
  <2>8. c = <<c[1], c[2], c[3]>>
    BY <2>1
  <2> QED
    BY <2>2, <2>5, <2>7, <2>8 DEF MatchesReplay, ReplayCell, Progress
<1> QED
  BY <1>1, <1>2, <1>3, RankCorrect, OrderCorrect, PTL DEF Spec

----------------------------------------------------------------------------
(* How often an increment is applied. *)

(* Products of naturals. *)
LEMMA TimesFacts ==
  ASSUME NEW x \in Nat, NEW a \in Nat, NEW b \in Nat, NEW k \in Nat
  PROVE  /\ x * a \in Nat /\ x * (a + 1) \in Nat
         /\ x * (a + 1) = x * a + x
         /\ (x + a) * k = x * k + a * k
         /\ a <= b => x * a <= x * b
<1>1. x * a \in Nat /\ x * (a + 1) \in Nat
  OBVIOUS
<1>2. x * (a + 1) = x * a + x
  OBVIOUS
<1>3. (x + a) * k = x * k + a * k
  OBVIOUS
<1>4. ASSUME a <= b PROVE x * a <= x * b
  <2>1. PICK d \in Nat : b = a + d
    BY <1>4
  <2>2. x * b = x * a + x * d
    BY <2>1
  <2>3. x * d \in Nat
    OBVIOUS
  <2> QED
    BY <1>1, <2>2, <2>3
<1> QED
  BY <1>1, <1>2, <1>3, <1>4

(* The life of the worker of p that is now running, or has stopped and not been *)
(* restarted, may have executed entry j.                                        *)
Current(p, j, s) ==
  \E w \in Nodes : /\ p \in OwnedPartitions(w)
                   /\ pc[w] = "stopped" \/ (pc[w] # "down" /\ Done(p, j, s))

(* What entry j, an increment of x, has added to a cell: x once it has been     *)
(* executed, and at most x for each life of its worker.                         *)
Share(p, j, s, x, d) ==
  /\ 0 <= d
  /\ Done(p, j, s) => x <= d
  /\ d <= x * (faults["crash"] + 1)
  /\ ~ Current(p, j, s) => d <= x * faults["crash"]

(* t splits the score of a cell among the entries of its stream: t[n] is what *)
(* the first n of them have added to it.                                      *)
Tally(c, t) ==
  LET p == PartitionOf(c[1], c[3])
  IN /\ t \in [Nat -> Int] /\ t[0] = 0
     /\ IF board[c] = None THEN t[Len(log[p])] = 0
        ELSE /\ board[c] = t[Len(log[p])]
             /\ \E j \in 1 .. Len(log[p]) : Hits(log[p][j], c)
     /\ \A j \in 1 .. Len(log[p]) :
          Hits(log[p][j], c) => /\ Done(p, j, c[2]) => board[c] # None
                                /\ Share(p, j, c[2], log[p][j].score, t[j] - t[j - 1])
     /\ \A j \in Nat \ {0} :
          t[j] = t[j - 1] \/ (j <= Len(log[p]) /\ Hits(log[p][j], c))

TallyInv ==
  \A c \in Boards \X Slices \X Members :
    (PolicyOf[c[1]] = "increment" /\ ~ Tombstoned(c[1], c[3])) => \E t : Tally(c, t)

(* Only a crash ends the life of a stopped worker, and of a running one. *)
LEMMA PcSteps ==
  ASSUME TypeOK, [CoreNext]_coreVars, NEW w \in Nodes, ~ Crash(w)
  PROVE  /\ pc[w] = "stopped" => pc'[w] = "stopped"
         /\ pc[w] # "down" => pc'[w] # "down"
<1> DEFINE Goal == /\ pc[w] = "stopped" => pc'[w] = "stopped"
                   /\ pc[w] # "down" => pc'[w] # "down"
<1>1. ASSUME NEW v \in Nodes, NEW q \in Partitions, StepRead(v, q) \/ ReclaimClaim(v, q)
      PROVE  Goal
  BY <1>1 DEF StepRead, ReclaimClaim, InPass, TypeOK, Places
<1>2. ASSUME NEW v \in Nodes, Check(v) \/ FlushFails(v) \/ Applied(v) \/ Ack(v)
      PROVE  Goal
  BY <1>2 DEF Check, FlushFails, Applied, Ack, TypeOK, Places
<1>3. ASSUME NEW v \in Nodes, RedisError(v) \/ Restart(v)
      PROVE  Goal
  BY <1>3 DEF RedisError, Restart, TypeOK, Places
<1>4. ASSUME NEW v \in Nodes, v # w, Crash(v) PROVE Goal
  BY <1>4 DEF Crash, TypeOK, Places
<1>5. ASSUME Marks \/ Expires PROVE pc' = pc
  BY <1>5 DEF Marks, Mark, Expires, ExpireMarker, workerVars
<1> QED
  BY <1>1, <1>2, <1>3, <1>4, <1>5, MoveFrame DEF Moves, Reads

(* Crashes are counted. *)
LEMMA CrashCount ==
  ASSUME TypeOK, [CoreNext]_coreVars
  PROVE  /\ faults["crash"] \in Nat /\ faults'["crash"] \in Nat
         /\ faults["crash"] <= faults'["crash"]
         /\ \A w \in Nodes : Crash(w) => faults'["crash"] = faults["crash"] + 1
<1>0. {"crash", "error", "expire", "cancel", "sync"} = FaultKinds /\ faults["crash"] \in Nat
  BY DEF FaultKinds, TypeOK
<1>1. ASSUME NEW k \in FaultKinds, Fault(k)
      PROVE  faults'["crash"] = IF k = "crash" THEN faults["crash"] + 1 ELSE faults["crash"]
  BY <1>0, <1>1 DEF Fault, TypeOK
<1>2. ASSUME NEW n \in Nodes, Api(n) PROVE faults' = faults
  BY <1>2 DEF Api, HandleCreateBoard, ResolveBoard, HandleSubmit, HandleRemoveScore,
              HandleDeleteUser, AppendTombstone, SyncScan, SyncRemove
<1>3. ASSUME NEW w \in Nodes, Consume(w) PROVE faults' = faults
  BY <1>3 DEF Consume, RunStep, RunReclaim, ReclaimDone, StepEmpty, StepRead,
              ReclaimEmpty, ReclaimClaim, Check, Flush, FlushFails, ScanTombstone,
              Exec, Applied, Mark, Ack
<1>4. ASSUME NEW n \in Nodes, Failure(n) \/ Restart(n)
      PROVE  faults' = faults \/ \E k \in FaultKinds : Fault(k)
  BY <1>0, <1>4 DEF Failure, RedisError, CancelRequest, SyncFails, Crash, Restart
<1>5. ASSUME NEW p \in Partitions, Age(p) \/ \E i \in marked[p] : ExpireMarker(p, i)
      PROVE  faults' = faults \/ \E k \in FaultKinds : Fault(k)
  BY <1>0, <1>5 DEF Age, ExpireMarker
<1>6. faults' = faults \/ \E k \in FaultKinds : Fault(k)
  BY <1>2, <1>3, <1>4, <1>5 DEF CoreNext, coreVars
<1>7. ASSUME NEW w \in Nodes, Crash(w) PROVE faults'["crash"] = faults["crash"] + 1
  BY <1>0, <1>1, <1>7 DEF Crash
<1> QED
  BY <1>0, <1>1, <1>6, <1>7

(* Only a crash ends the life in which an entry may have been executed. *)
LEMMA CurrentEnds ==
  ASSUME OrderedInv, [CoreNext]_coreVars, NEW p \in Partitions, NEW j, NEW s,
         Current(p, j, s), ~ Current(p, j, s)'
  PROVE  \E w \in Nodes : Crash(w)
<1> USE DEF OrderedInv
<1> SUFFICES ASSUME \A w \in Nodes : ~ Crash(w) PROVE FALSE
  OBVIOUS
<1>1. PICK w \in Nodes : /\ p \in OwnedPartitions(w)
                         /\ pc[w] = "stopped" \/ (pc[w] # "down" /\ Done(p, j, s))
  BY DEF Current
<1>2. /\ pc[w] = "stopped" => pc'[w] = "stopped"
      /\ pc[w] # "down" => pc'[w] # "down"
  BY PcSteps
<1>3. pc'[w] # "stopped" /\ ~ (pc'[w] # "down" /\ Done(p, j, s)')
  BY <1>1 DEF Current, OwnedPartitions
<1>4. pc[w] # "stopped" /\ Done(p, j, s) /\ pc[w] # "down" /\ ~ Done(p, j, s)'
  BY <1>1, <1>2, <1>3
<1>5. Stops(p)
  BY <1>4, DoneLost
<1>6. ASSUME NEW i \in marked[p], ExpireMarker(p, i) PROVE FALSE
  BY <1>1, <1>4, <1>6 DEF ExpireMarker, Alive
<1>7. ASSUME NEW v \in Nodes, p \in OwnedPartitions(v), FlushFails(v) \/ RedisError(v)
      PROVE  FALSE
  <2>1. v = w
    BY <1>1, <1>7, OwnershipPartitions
  <2>2. pc'[w] = "stopped"
    BY <1>7, <2>1 DEF FlushFails, RedisError, TypeOK, Places
  <2> QED
    BY <1>3, <2>2
<1> QED
  BY <1>5, <1>6, <1>7 DEF Stops

(* What an entry has added stays within its bounds, if this step does not *)
(* execute it.                                                            *)
LEMMA ShareKept ==
  ASSUME OrderedInv, [CoreNext]_coreVars, NEW p \in Partitions, NEW j, NEW s,
         NEW x \in Nat, NEW d \in Int, Share(p, j, s, x, d), Done(p, j, s)' => Done(p, j, s)
  PROVE  Share(p, j, s, x, d)'
<1>1. /\ faults["crash"] \in Nat /\ faults'["crash"] \in Nat
      /\ faults["crash"] <= faults'["crash"]
      /\ \A w \in Nodes : Crash(w) => faults'["crash"] = faults["crash"] + 1
  BY CrashCount DEF OrderedInv
<1> DEFINE a == faults["crash"]
           b == faults'["crash"]
<1>2. /\ 0 <= d
      /\ Done(p, j, s) => x <= d
      /\ d <= x * (a + 1)
      /\ ~ Current(p, j, s) => d <= x * a
  BY DEF Share
<1>3. x * a <= x * b /\ x * (a + 1) <= x * (b + 1)
  <2>1. a \in Nat /\ b \in Nat /\ a + 1 \in Nat /\ b + 1 \in Nat /\ a <= b /\ a + 1 <= b + 1
    BY <1>1
  <2> HIDE DEF a, b
  <2> QED
    BY <2>1, TimesFacts
<1>4. ASSUME ~ Current(p, j, s)' PROVE d <= x * b
  <2>1. CASE ~ Current(p, j, s)
    <3>1. x * a \in Int /\ x * b \in Int
      BY <1>1
    <3> HIDE DEF a, b
    <3> QED
      BY <1>2, <1>3, <2>1, <3>1
  <2>2. CASE Current(p, j, s)
    <3>1. b = a + 1
      BY <1>1, <1>4, <2>2, CurrentEnds
    <3> HIDE DEF a, b
    <3> QED
      BY <1>2, <3>1
  <2> QED
    BY <2>1, <2>2
<1>5. d <= x * (b + 1)
  <2>1. x * (a + 1) \in Int /\ x * (b + 1) \in Int
    BY <1>1
  <2> HIDE DEF a, b
  <2> QED
    BY <1>2, <1>3, <2>1
<1> QED
  BY <1>2, <1>4, <1>5 DEF Share

(* A tally after a step, unfolded. *)
LEMMA TallyNext ==
  ASSUME NEW c, NEW p, p = PartitionOf(c[1], c[3]), NEW t \in [Nat -> Int], t[0] = 0,
         IF board'[c] = None THEN t[Len(log'[p])] = 0
         ELSE /\ board'[c] = t[Len(log'[p])]
              /\ \E j \in 1 .. Len(log'[p]) : Hits(log'[p][j], c),
         \A j \in 1 .. Len(log'[p]) :
           Hits(log'[p][j], c) => /\ Done(p, j, c[2])' => board'[c] # None
                                  /\ \A x, d : (x = log'[p][j].score /\ d = t[j] - t[j - 1])
                                                => Share(p, j, c[2], x, d)',
         \A j \in Nat \ {0} : t[j] = t[j - 1] \/ (j <= Len(log'[p]) /\ Hits(log'[p][j], c))
  PROVE  Tally(c, t)'
<1>1. PartitionOf(c[1], c[3])' = p
  BY DEF PartitionOf
<1>2. ASSUME NEW j \in 1 .. Len(log'[p]), Hits(log'[p][j], c)
      PROVE  Share(p, j, c[2], log[p][j].score, t[j] - t[j - 1])'
  BY <1>2 DEF Share
<1> QED
  BY <1>1, <1>2 DEF Tally

(* Executing an increment adds it to what its entry has added. *)
LEMMA TallyExec ==
  ASSUME Scores \subseteq Nat, OrderedInv, NEW c \in Boards \X Slices \X Members,
         PolicyOf[c[1]] = "increment", ~ Tombstoned(c[1], c[3]),
         NEW p \in Partitions, p = PartitionOf(c[1], c[3]), [CoreNext]_coreVars,
         NEW w \in Nodes, NEW i \in msgs[w], Exec(w, i, c[2]), Cell(log[part[w]][i], c[2]) = c,
         NEW t, Tally(c, t)
  PROVE  \E u : Tally(c, u)'
<1>1. /\ part[w] = p /\ i \in 1 .. Len(log[p]) /\ Hits(log[p][i], c)
      /\ pc[w] = "apply" /\ i \in fresh[w] \ recs[w]
      /\ ~ Done(p, i, c[2]) /\ Done(p, i, c[2])'
      /\ board'[c] = Combine(c[1], board[c], log[p][i].score)
  BY ExecStep
<1>b. ASSUME NEW j, j # i PROVE Done(p, j, c[2])' <=> Done(p, j, c[2])
  BY <1>b, ExecOthers DEF OrderedInv
<1>a. log' = log /\ faults' = faults /\ pc' = pc
  BY DEF Exec
<1>2. log[p] \in Seq(Record) /\ Len(log[p]) \in Nat /\ i \in Nat
  BY <1>1, StreamGrows
<1>3. PICK x \in Nat : x = log[p][i].score
  <2>1. log[p][i] \in Record
    BY <1>1, <1>2
  <2> QED
    BY <1>1, <2>1 DEF Hits, IsSubmit, Record, Submit, Tombstone
<1> DEFINE n == Len(log[p])
           u == [j \in Nat |-> IF i <= j THEN t[j] + x ELSE t[j]]
<1>4. /\ t \in [Nat -> Int] /\ t[0] = 0
      /\ IF board[c] = None THEN t[n] = 0
         ELSE board[c] = t[n] /\ \E j \in 1 .. n : Hits(log[p][j], c)
      /\ \A j \in 1 .. n :
           Hits(log[p][j], c) => /\ Done(p, j, c[2]) => board[c] # None
                                 /\ Share(p, j, c[2], log[p][j].score, t[j] - t[j - 1])
      /\ \A j \in Nat \ {0} : t[j] = t[j - 1] \/ (j <= n /\ Hits(log[p][j], c))
  BY DEF Tally
<1>5. /\ u \in [Nat -> Int] /\ u[0] = 0 /\ u[n] = t[n] + x
      /\ u[i] = t[i] + x /\ u[i - 1] = t[i - 1]
  <2>1. i # 0 /\ i - 1 \in Nat /\ ~ (i <= i - 1) /\ ~ (i <= 0) /\ i <= n
    BY <1>1, <1>2
  <2> QED
    <3>1. \A j \in Nat : t[j] \in Int /\ t[j] + x \in Int
      BY <1>4
    <3>2. u \in [Nat -> Int]
      BY <3>1
    <3>3. \A j \in Nat : u[j] = IF i <= j THEN t[j] + x ELSE t[j]
      OBVIOUS
    <3> HIDE DEF u
    <3> QED
      <4>1. u[0] = t[0] /\ u[i] = t[i] + x /\ u[i - 1] = t[i - 1] /\ u[n] = t[n] + x
        BY <1>2, <2>1, <3>3
      <4> QED
        BY <1>4, <3>2, <4>1
<1>6. ASSUME NEW j \in Nat \ {0}, j # i PROVE u[j] - u[j - 1] = t[j] - t[j - 1]
  <2>1. j - 1 \in Nat /\ (i <= j <=> i <= j - 1)
    BY <1>2, <1>6
  <2> QED
    BY <1>3, <1>4, <2>1
<1>7. board[c] \in Int \cup {None} /\ board[c] # None => board[c] \in Int
  BY DEF OrderedInv, TypeOK, Rankings
<1>8. board'[c] = u[n] /\ board'[c] # None
  <2>1. board'[c] = IF board[c] = None THEN x ELSE board[c] + x
    BY <1>1, <1>3 DEF Combine
  <2>2. board'[c] = u[n]
    BY <1>3, <1>4, <1>5, <2>1
  <2> QED
    BY <1>2, <1>5, <2>2, NoneAssumption
<1> HIDE DEF u
<1>9. ASSUME NEW d, d = u[i] - u[i - 1] PROVE Share(p, i, c[2], x, d)'
  <2> DEFINE a == faults["crash"]
  <2>0. i - 1 \in Nat /\ t[i] \in Int /\ t[i - 1] \in Int
    BY <1>1, <1>2, <1>4
  <2>1. PICK e \in Int : e = t[i] - t[i - 1] /\ d = e + x
    <3>1. d = (t[i] + x) - t[i - 1]
      BY <1>5, <1>9
    <3>2. \A k, m \in Int : k - m \in Int /\ (k + x) - m = (k - m) + x
      OBVIOUS
    <3> QED
      BY <2>0, <3>1, <3>2
  <2>2. Share(p, i, c[2], x, e)
    BY <1>1, <1>3, <1>4, <2>1
  <2>3. \A v \in Nodes : p \in OwnedPartitions(v) => v = w
    BY <1>1, OwnershipPartitions DEF OrderedInv, DeliveryInv, OwnedInv
  <2>4. ~ Current(p, i, c[2])
    BY <1>1, <2>3 DEF Current
  <2>5. 0 <= e /\ e <= x * a
    BY <2>2, <2>4 DEF Share
  <2>6. a \in Nat
    BY CrashCount DEF OrderedInv
  <2>7. Current(p, i, c[2])'
    <3>1. p \in OwnedPartitions(w)
      BY <1>1 DEF OrderedInv, DeliveryInv, OwnedInv
    <3>2. pc'[w] # "down"
      BY <1>1, <1>a
    <3> QED
      BY <1>1, <3>1, <3>2 DEF Current, OwnedPartitions
  <2>8. x * a \in Nat /\ x * (a + 1) = x * a + x
    <3> HIDE DEF a
    <3> QED
      BY <2>6, TimesFacts
  <2>9. 0 <= d /\ x <= d /\ d <= x * (a + 1)
    <3> HIDE DEF a
    <3> QED
      BY <2>1, <2>5, <2>8
  <2>10. 0 <= d /\ x <= d /\ d <= x * (faults'["crash"] + 1)
    BY <1>a, <2>9
  <2> QED
    BY <2>7, <2>10 DEF Share
<1>10. ASSUME NEW j \in 1 .. n, Hits(log[p][j], c), j # i, NEW y, y = log[p][j].score,
              NEW d, d = u[j] - u[j - 1]
       PROVE  Share(p, j, c[2], y, d)'
  <2>1. d = t[j] - t[j - 1]
    BY <1>2, <1>6, <1>10
  <2>2. Share(p, j, c[2], y, d)
    BY <1>4, <1>10, <2>1
  <2>3. y \in Nat
    <3>1. log[p][j] \in Record
      BY <1>2
    <3> QED
      BY <1>10, <3>1 DEF Hits, IsSubmit, Record, Submit, Tombstone
  <2>4. d \in Int
    BY <1>2, <1>4, <2>1
  <2> QED
    BY <1>b, <1>10, <2>2, <2>3, <2>4, ShareKept
<1>11. \A j \in Nat \ {0} : u[j] = u[j - 1] \/ (j <= n /\ Hits(log[p][j], c))
  <2> SUFFICES ASSUME NEW j \in Nat \ {0}, ~ (j <= n /\ Hits(log[p][j], c)) PROVE u[j] = u[j - 1]
    OBVIOUS
  <2>1. j # i
    BY <1>1, <1>2
  <2>2. t[j] = t[j - 1] /\ j - 1 \in Nat
    BY <1>4
  <2>3. u[j] - u[j - 1] = t[j] - t[j - 1]
    BY <1>6, <2>1
  <2> QED
    BY <1>4, <1>5, <2>2, <2>3
<1>12. Tally(c, u)'
  <2>1. \A j \in 1 .. Len(log'[p]) :
          Hits(log'[p][j], c) => /\ Done(p, j, c[2])' => board'[c] # None
                                 /\ \A y, d : (y = log'[p][j].score /\ d = u[j] - u[j - 1])
                                                => Share(p, j, c[2], y, d)'
    BY <1>3, <1>8, <1>9, <1>10, <1>a
  <2>2. IF board'[c] = None THEN u[Len(log'[p])] = 0
        ELSE /\ board'[c] = u[Len(log'[p])]
             /\ \E j \in 1 .. Len(log'[p]) : Hits(log'[p][j], c)
    BY <1>1, <1>8, <1>a
  <2>3. \A j \in Nat \ {0} : u[j] = u[j - 1] \/ (j <= Len(log'[p]) /\ Hits(log'[p][j], c))
    BY <1>11, <1>a
  <2> QED
    BY <1>5, <2>1, <2>2, <2>3, TallyNext
<1> QED
  BY <1>12

(* A step that executes nothing on the cell keeps its tally. *)
LEMMA TallyKept ==
  ASSUME Scores \subseteq Nat, OrderedInv, RemovalInv, NEW c \in Boards \X Slices \X Members,
         ~ Tombstoned(c[1], c[3]),
         NEW p \in Partitions, p = PartitionOf(c[1], c[3]), [CoreNext]_coreVars,
         ~ \E w \in Nodes : \E i \in msgs[w] : Exec(w, i, c[2]) /\ Cell(log[part[w]][i], c[2]) = c,
         NEW t, Tally(c, t)
  PROVE  Tally(c, t)'
<1> DEFINE n == Len(log[p])
<1>1. /\ log[p] \in Seq(Record) /\ log'[p] \in Seq(Record)
      /\ n \in Nat /\ Len(log'[p]) \in Nat /\ n <= Len(log'[p])
      /\ \A j \in 1 .. n : log'[p][j] = log[p][j]
  BY StreamGrows
<1>2. board'[c] = board[c]
  BY BoardKept DEF OrderedInv
<1>3. /\ t \in [Nat -> Int] /\ t[0] = 0
      /\ IF board[c] = None THEN t[n] = 0
         ELSE board[c] = t[n] /\ \E j \in 1 .. n : Hits(log[p][j], c)
      /\ \A j \in 1 .. n :
           Hits(log[p][j], c) => /\ Done(p, j, c[2]) => board[c] # None
                                 /\ Share(p, j, c[2], log[p][j].score, t[j] - t[j - 1])
      /\ \A j \in Nat \ {0} : t[j] = t[j - 1] \/ (j <= n /\ Hits(log[p][j], c))
  BY DEF Tally
<1>4. ASSUME NEW j \in 1 .. n, Hits(log[p][j], c) PROVE Done(p, j, c[2])' => Done(p, j, c[2])
  <2>1. ASSUME NEW w \in Nodes, j \in msgs[w], part[w] = p, Exec(w, j, c[2]) PROVE FALSE
    BY <1>4, <2>1 DEF Hits, IsSubmit
  <2> QED
    BY <1>4, <2>1, DoneGained
<1>5. ASSUME NEW j \in n + 1 .. Len(log'[p]) PROVE t[j] = t[j - 1]
  <2>1. j \in Nat \ {0} /\ ~ (j <= n)
    BY <1>1
  <2> QED
    BY <1>3, <2>1
<1>6. t[Len(log'[p])] = t[n]
  <2> DEFINE T == {j \in n .. Len(log'[p]) : t[j] # t[n]}
  <2> SUFFICES ASSUME T # {} PROVE FALSE
    BY <1>1
  <2>1. T \subseteq Nat
    BY <1>1
  <2>2. PICK j \in T : \A m \in T : j <= m
    <3> HIDE DEF T
    <3> QED
      BY <2>1, LeastNatural
  <2>3. j \in n .. Len(log'[p]) /\ t[j] # t[n]
    OBVIOUS
  <2>4. j \in n + 1 .. Len(log'[p]) /\ j - 1 \in n .. Len(log'[p])
    BY <1>1, <2>3
  <2>5. j - 1 \notin T
    <3> HIDE DEF T
    <3> QED
      BY <1>1, <2>2, <2>3
  <2> QED
    BY <1>5, <2>3, <2>4, <2>5
<1>7. ASSUME NEW j \in 1 .. Len(log'[p]), Hits(log'[p][j], c)
      PROVE  /\ Done(p, j, c[2])' => board'[c] # None
             /\ \A x, d : (x = log'[p][j].score /\ d = t[j] - t[j - 1]) => Share(p, j, c[2], x, d)'
  <2>0. log'[p][j].score \in Nat /\ t[j] - t[j - 1] \in Int /\ j \in Nat \ {0}
    <3>1. log'[p][j] \in Record
      BY <1>1
    <3>2. log'[p][j].score \in Nat
      BY <1>7, <3>1 DEF Hits, IsSubmit, Record, Submit, Tombstone
    <3>3. j \in Nat \ {0} /\ j - 1 \in Nat
      BY <1>1
    <3> QED
      BY <1>3, <3>2, <3>3
  <2>1. CASE j \in 1 .. n
    <3>1. log'[p][j] = log[p][j] /\ Hits(log[p][j], c)
      BY <1>1, <1>7, <2>1
    <3>2. /\ Done(p, j, c[2]) => board[c] # None
          /\ Share(p, j, c[2], log[p][j].score, t[j] - t[j - 1])
      BY <1>3, <2>1, <3>1
    <3>3. Done(p, j, c[2])' => Done(p, j, c[2])
      BY <1>4, <2>1, <3>1
    <3>4. ASSUME NEW x, NEW d, x = log'[p][j].score, d = t[j] - t[j - 1]
          PROVE  Share(p, j, c[2], x, d)'
      <4>1. x \in Nat /\ d \in Int /\ Share(p, j, c[2], x, d)
        BY <2>0, <3>1, <3>2, <3>4
      <4> QED
        BY <3>3, <4>1, ShareKept
    <3> QED
      BY <1>2, <3>2, <3>3, <3>4
  <2>2. CASE j \notin 1 .. n
    <3>1. ~ Done(p, j, c[2])'
      BY <2>2, NewNotDone
    <3>2. t[j] = t[j - 1] /\ t[j] \in Int
      BY <1>1, <1>3, <2>0, <2>2
    <3>3. ASSUME NEW x, NEW d, x = log'[p][j].score, d = t[j] - t[j - 1]
          PROVE  Share(p, j, c[2], x, d)'
      <4>1. d = 0 /\ x \in Nat
        BY <2>0, <3>2, <3>3
      <4>2. PICK a \in Nat : a = faults'["crash"]
        BY CrashCount DEF OrderedInv
      <4>3. 0 <= x * a /\ 0 <= x * (a + 1)
        BY <4>1, TimesFacts
      <4> QED
        BY <3>1, <4>1, <4>2, <4>3 DEF Share
    <3> QED
      BY <3>1, <3>3
  <2> QED
    BY <2>1, <2>2
<1>8. IF board'[c] = None THEN t[Len(log'[p])] = 0
      ELSE /\ board'[c] = t[Len(log'[p])]
           /\ \E j \in 1 .. Len(log'[p]) : Hits(log'[p][j], c)
  <2>1. ASSUME NEW j \in 1 .. n, Hits(log[p][j], c)
        PROVE  j \in 1 .. Len(log'[p]) /\ Hits(log'[p][j], c)
    BY <1>1, <2>1
  <2> QED
    BY <1>2, <1>3, <1>6, <2>1
<1>9. \A j \in Nat \ {0} : t[j] = t[j - 1] \/ (j <= Len(log'[p]) /\ Hits(log'[p][j], c))
  <2> SUFFICES ASSUME NEW j \in Nat \ {0}, t[j] # t[j - 1]
               PROVE  j <= Len(log'[p]) /\ Hits(log'[p][j], c)
    OBVIOUS
  <2>1. j <= n /\ Hits(log[p][j], c)
    BY <1>3
  <2>2. j \in 1 .. n
    BY <1>1, <2>1
  <2> QED
    BY <1>1, <2>1, <2>2
<1> QED
  BY <1>3, <1>7, <1>8, <1>9, TallyNext

(* Every step keeps a tally of every cell of an increment board. *)
LEMMA NextTally ==
  ASSUME Scores \subseteq Nat, OrderedInv, RemovalInv, TallyInv, [CoreNext]_coreVars
  PROVE  TallyInv'
<1> SUFFICES ASSUME NEW c \in Boards \X Slices \X Members, PolicyOf[c[1]] = "increment",
                    ~ Tombstoned(c[1], c[3])'
             PROVE  \E t : Tally(c, t)'
  BY DEF TallyInv
<1>1. ~ Tombstoned(c[1], c[3])
  BY TombstonedStable DEF OrderedInv
<1>2. PICK p \in Partitions : p = PartitionOf(c[1], c[3])
  BY PartitionOfType
<1>3. PICK t : Tally(c, t)
  BY <1>1 DEF TallyInv
<1>4. CASE \E w \in Nodes : \E i \in msgs[w] :
             Exec(w, i, c[2]) /\ Cell(log[part[w]][i], c[2]) = c
  BY <1>1, <1>2, <1>3, <1>4, TallyExec
<1>5. CASE ~ \E w \in Nodes : \E i \in msgs[w] :
               Exec(w, i, c[2]) /\ Cell(log[part[w]][i], c[2]) = c
  BY <1>1, <1>2, <1>3, <1>5, TallyKept
<1> QED
  BY <1>4, <1>5

(* Every entry that hits the cell has added its score at least once and at most *)
(* k times.                                                                     *)
Shared(entries, c, t, k) ==
  \A j \in 1 .. Len(entries) :
    IF Hits(entries[j], c)
    THEN /\ entries[j].score <= t[j] - t[j - 1]
         /\ t[j] - t[j - 1] <= entries[j].score * k
    ELSE t[j] = t[j - 1]

(* Once everything that hits a cell has been executed, its tally is between the *)
(* replay of the log and that replay times the lives of its worker.             *)
LEMMA TallyBounds ==
  ASSUME Scores \subseteq Nat, NEW c \in Boards \X Slices \X Members, PolicyOf[c[1]] = "increment",
         NEW entries \in Seq(Record), \A i \in 1 .. Len(entries) : ~ IsRemoval(entries[i], c),
         NEW t \in [Nat -> Int], t[0] = 0, NEW k \in Nat, Shared(entries, c, t, k)
  PROVE  LET x == Replay(entries, c)[Len(entries)]
             n == Len(entries)
         IN IF x = None THEN \A j \in 1 .. n : ~ Hits(entries[j], c)
            ELSE /\ \E j \in 1 .. n : Hits(entries[j], c)
                 /\ x \in Nat /\ x <= t[n] /\ t[n] <= x * k
<1> DEFINE f == Replay(entries, c)
           P(n) == IF f[n] = None
                   THEN t[n] = 0 /\ \A j \in 1 .. n : ~ Hits(entries[j], c)
                   ELSE /\ \E j \in 1 .. n : Hits(entries[j], c)
                        /\ f[n] \in Nat /\ f[n] <= t[n] /\ t[n] <= f[n] * k
           T == {n \in 0 .. Len(entries) : ~ P(n)}
<1>0. /\ f[0] = None /\ \A i \in 1 .. Len(entries) : f[i] = ReplayEntry(c, entries[i], f[i - 1])
      /\ Len(entries) \in Nat
  BY ReplayDef
<1> HIDE DEF f, P
<1>1. T = {}
  <2> SUFFICES ASSUME T # {} PROVE FALSE
    OBVIOUS
  <2>1. T \subseteq Nat
    BY <1>0
  <2>2. PICK n \in T : \A m \in T : n <= m
    <3> HIDE DEF T
    <3> QED
      BY <2>1, LeastNatural
  <2>3. n \in 0 .. Len(entries) /\ ~ P(n)
    OBVIOUS
  <2>a. \A m \in 0 .. Len(entries) : m \notin T => P(m)
    OBVIOUS
  <2> HIDE DEF T
  <2>4. n # 0
    BY <1>0, <2>3 DEF P
  <2>5. n \in 1 .. Len(entries) /\ n - 1 \in 0 .. Len(entries) /\ n - 1 \in Nat
    BY <1>0, <2>3, <2>4
  <2>6. n - 1 \notin T
    BY <1>0, <2>2, <2>3
  <2>7. P(n - 1)
    BY <2>5, <2>6, <2>a
  <2>8. entries[n] \in Record
    BY <2>5
  <2>9. f[n] = IF Hits(entries[n], c) THEN Combine(c[1], f[n - 1], entries[n].score) ELSE f[n - 1]
    BY <1>0, <2>5, <2>8, ReplayOne
  <2>10. 1 .. n = (1 .. n - 1) \cup {n}
    BY <2>5
  <2>11. CASE ~ Hits(entries[n], c)
    <3>1. t[n] = t[n - 1] /\ f[n] = f[n - 1]
      BY <2>5, <2>9, <2>11 DEF Shared
    <3> QED
      BY <2>3, <2>7, <2>10, <2>11, <3>1 DEF P
  <2>12. CASE Hits(entries[n], c)
    <3>1. PICK x \in Nat : x = entries[n].score
      BY <2>8, <2>12 DEF Hits, IsSubmit, Record, Submit, Tombstone
    <3>2. x <= t[n] - t[n - 1] /\ t[n] - t[n - 1] <= x * k
      BY <2>5, <2>12, <3>1 DEF Shared
    <3>3. t[n] \in Int /\ t[n - 1] \in Int /\ x * k \in Nat
      BY <2>5, TimesFacts
    <3>4. f[n] = IF f[n - 1] = None THEN x ELSE f[n - 1] + x
      BY <2>9, <2>12, <3>1 DEF Combine
    <3>5. \E j \in 1 .. n : Hits(entries[j], c)
      BY <2>10, <2>12
    <3>6. CASE f[n - 1] = None
      <4>1. f[n] = x /\ t[n - 1] = 0
        BY <2>7, <3>4, <3>6 DEF P
      <4>2. f[n] \in Nat /\ f[n] <= t[n] /\ t[n] <= f[n] * k
        BY <3>2, <3>3, <4>1
      <4>3. f[n] # None
        BY <4>2, NoneAssumption
      <4> QED
        BY <2>3, <3>5, <4>2, <4>3 DEF P
    <3>7. CASE f[n - 1] # None
      <4>1. PICK y \in Nat : /\ y = f[n - 1] /\ f[n] = y + x
                             /\ y <= t[n - 1] /\ t[n - 1] <= y * k
        BY <2>7, <3>4, <3>7 DEF P
      <4>2. (y + x) * k = y * k + x * k /\ y * k \in Nat
        BY TimesFacts
      <4>3. y + x <= t[n] /\ t[n] <= y * k + x * k
        <5>1. PICK u \in Nat, v \in Nat : u = x * k /\ v = y * k
          BY <3>3, <4>2
        <5>2. /\ x <= t[n] - t[n - 1] /\ t[n] - t[n - 1] <= u
              /\ y <= t[n - 1] /\ t[n - 1] <= v
          BY <3>2, <4>1, <5>1
        <5>3. \A i, j \in Int : (x <= i - j /\ i - j <= u /\ y <= j /\ j <= v)
                                 => (y + x <= i /\ i <= v + u)
          OBVIOUS
        <5>4. y + x <= t[n] /\ t[n] <= v + u
          BY <3>3, <5>2, <5>3, Zenon
        <5> QED
          BY <5>1, <5>4
      <4>4. f[n] \in Nat /\ f[n] <= t[n] /\ t[n] <= f[n] * k
        <5>1. f[n] \in Nat /\ f[n] * k = y * k + x * k
          <6>1. y + x \in Nat
            OBVIOUS
          <6> QED
            BY <4>1, <4>2, <6>1, Zenon
        <5> QED
          BY <4>1, <4>3, <5>1
      <4>5. f[n] # None
        BY <4>4, NoneAssumption
      <4> QED
        BY <2>3, <3>5, <4>4, <4>5 DEF P
    <3> QED
      BY <3>6, <3>7
  <2> QED
    BY <2>11, <2>12
<1>2. P(Len(entries))
  <2>1. Len(entries) \in 0 .. Len(entries) /\ Len(entries) \notin T
    BY <1>0, <1>1
  <2> QED
    BY <2>1
<1> QED
  BY <1>2 DEF f, P

(* Increments that are not negative are never lost, and each is applied at most *)
(* once more for every crash: once a partition is settled, a member's total is  *)
(* between the replay of the log and that replay times the lives of its worker. *)
(* (A negative increment applied again lowers the total, so the bounds as they  *)
(* are stated need the hypothesis.)                                             *)
THEOREM IncrementsAreBounded ==
  ASSUME Scores \subseteq Nat
  PROVE  Spec => []IncrementBounded
<1>1. Init => TallyInv
  <2> SUFFICES ASSUME Init, NEW c \in Boards \X Slices \X Members
               PROVE  \E t : Tally(c, t)
    BY DEF TallyInv
  <2>1. PICK p \in Partitions : p = PartitionOf(c[1], c[3])
    BY PartitionOfType
  <2>2. log[p] = << >> /\ board[c] = None /\ Len(log[p]) = 0
    BY DEF Init
  <2> DEFINE t == [j \in Nat |-> 0]
  <2>3. t \in [Nat -> Int] /\ t[0] = 0 /\ \A j \in Nat \ {0} : t[j] = t[j - 1]
    OBVIOUS
  <2> HIDE DEF t
  <2>4. Tally(c, t)
    BY <2>1, <2>2, <2>3 DEF Tally
  <2> QED
    BY <2>4
<1>2. IInv /\ OrderedInv /\ TallyInv /\ [Next]_vars => TallyInv'
  BY StepIsCore, NextTally DEF IInv, RankInv
<1>3. OrderedInv /\ TallyInv => IncrementBounded
  <2> SUFFICES ASSUME OrderedInv, TallyInv, NEW c \in SettledCells("increment"),
                      NEW exact, exact = ReplayCell(c[1], c[2], c[3])
               PROVE  IF exact = None THEN board[c] = None
                      ELSE /\ board[c] # None
                           /\ exact <= board[c]
                           /\ board[c] <= exact * (1 + faults["crash"] + faults["error"])
    BY DEF IncrementBounded
  <2>1. /\ c \in Boards \X Slices \X Members /\ PolicyOf[c[1]] = "increment"
        /\ ~ Tombstoned(c[1], c[3]) /\ Settled(PartitionOf(c[1], c[3]))
    BY DEF SettledCells
  <2>2. PICK p \in Partitions : p = PartitionOf(c[1], c[3])
    BY <2>1, PartitionOfType
  <2> DEFINE n == Len(log[p])
  <2>3. log[p] \in Seq(Record) /\ n \in Nat /\ 1 .. n \subseteq marked[p]
    BY <2>1, <2>2 DEF OrderedInv, TypeOK, Streams, Settled, Acked
  <2>4. PICK t : Tally(c, t)
    BY <2>1 DEF TallyInv
  <2>5. /\ t \in [Nat -> Int] /\ t[0] = 0
        /\ IF board[c] = None THEN t[n] = 0
           ELSE board[c] = t[n] /\ \E j \in 1 .. n : Hits(log[p][j], c)
        /\ \A j \in 1 .. n :
             Hits(log[p][j], c) => /\ Done(p, j, c[2]) => board[c] # None
                                   /\ Share(p, j, c[2], log[p][j].score, t[j] - t[j - 1])
        /\ \A j \in Nat \ {0} : t[j] = t[j - 1] \/ (j <= n /\ Hits(log[p][j], c))
    BY <2>2, <2>4 DEF Tally
  <2>6. PICK a \in Nat, e \in Nat : a = faults["crash"] /\ e = faults["error"]
    BY DEF OrderedInv, TypeOK, FaultKinds
  <2>7. \A j \in 1 .. n : Done(p, j, c[2])
    BY <2>3 DEF Done
  <2>8. Shared(log[p], c, t, a + 1)
    <3> SUFFICES ASSUME NEW j \in 1 .. n
                 PROVE  IF Hits(log[p][j], c)
                        THEN /\ log[p][j].score <= t[j] - t[j - 1]
                             /\ t[j] - t[j - 1] <= log[p][j].score * (a + 1)
                        ELSE t[j] = t[j - 1]
      BY DEF Shared
    <3>1. CASE Hits(log[p][j], c)
      BY <2>5, <2>6, <2>7, <3>1 DEF Share
    <3>2. CASE ~ Hits(log[p][j], c)
      <4>1. j \in Nat \ {0}
        BY <2>3
      <4> QED
        BY <2>5, <3>2, <4>1
    <3> QED
      BY <3>1, <3>2
  <2>9. \A i \in 1 .. n : ~ IsRemoval(log[p][i], c)
    BY <2>1, <2>2, NoRemovals
  <2>10. exact = Replay(log[p], c)[n]
    <3>1. c = <<c[1], c[2], c[3]>>
      BY <2>1
    <3> QED
      BY <2>2, <3>1 DEF ReplayCell
  <2>11. IF exact = None THEN \A j \in 1 .. n : ~ Hits(log[p][j], c)
         ELSE /\ \E j \in 1 .. n : Hits(log[p][j], c)
              /\ exact \in Nat /\ exact <= t[n] /\ t[n] <= exact * (a + 1)
    <3>1. a + 1 \in Nat
      OBVIOUS
    <3> QED
      BY <2>1, <2>3, <2>5, <2>8, <2>9, <2>10, <3>1, TallyBounds
  <2>12. CASE exact = None
    BY <2>5, <2>11, <2>12
  <2>13. CASE exact # None
    <3>1. board[c] # None /\ board[c] = t[n]
      BY <2>5, <2>7, <2>11, <2>13
    <3>2. exact \in Nat /\ exact <= t[n] /\ t[n] <= exact * (a + 1) /\ t[n] \in Int
      BY <2>3, <2>5, <2>11, <2>13
    <3>3. exact * (a + 1) <= exact * (1 + a + e) /\ exact * (1 + a + e) \in Nat /\ exact * (a + 1) \in Nat
      <4>1. a + 1 \in Nat /\ 1 + a + e \in Nat /\ a + 1 <= 1 + a + e
        OBVIOUS
      <4> QED
        BY <3>2, <4>1, TimesFacts
    <3> QED
      BY <2>6, <2>13, <3>1, <3>2, <3>3
  <2> QED
    BY <2>12, <2>13
<1> QED
  BY <1>1, <1>2, <1>3, RankCorrect, OrderCorrect, PTL DEF Spec

=============================================================================
