----------------------------- MODULE EngineReads -----------------------------
(***************************************************************************)
(* The read side of the ranking engine: RedisEngine and ShardedEngine on   *)
(* the board whose writes Engine models.  Reads are operators on the state *)
(* and are compared with what one sorted set over all members would give.  *)
(***************************************************************************)
EXTENDS Engine, Sequences, Functions

Present == {m \in Members : z[m] # None}
InShard(i) == {m \in Present : ShardOf[m] = i}

----------------------------------------------------------------------------
(* Sorting.  An order is a set of pairs <<earlier, later>>.                 *)

\* How many of a set's elements come before m, and the set in order.
Place(S, order, m) == Cardinality({n \in S : <<n, m>> \in order})
Listing(S, order)  == [i \in 1 .. Cardinality(S) |-> CHOOSE m \in S : Place(S, order, m) = i - 1]

\* Where an element is in a list, from 0.
Position(s, m) == (CHOOSE i \in 1 .. Len(s) : s[i] = m) - 1

\* Entries start .. stop of a list, from 0; fewer when it ends before.
Slice(s, start, stop) ==
  [i \in 1 .. (IF stop < Len(s) THEN stop + 1 ELSE Len(s)) - start |-> s[start + i]]

\* Entries k before to k after place i.
Around(s, i, k) == Slice(s, IF i - k < 0 THEN 0 ELSE i - k, i + k)

\* The sum of f[0] .. f[n - 1].
Total(f, n) == LET upTo[i \in 0 .. n] == IF i = 0 THEN 0 ELSE upTo[i - 1] + f[i - 1]
               IN upTo[n]

----------------------------------------------------------------------------
(* RedisEngine, on one sorted set *)

\* The order of a sorted set: by score, then by member id; and its reverse.
ByScore    == {p \in Present \X Present : \/ z[p[1]] < z[p[2]]
                                          \/ z[p[1]] = z[p[2]] /\ p[1] < p[2]}
ByScoreRev == {p \in Present \X Present : <<p[2], p[1]>> \in ByScore}

\* ZRANGE on ascending boards, ZREVRANGE on descending ones.
ZOrder    == IF Asc THEN ByScore ELSE ByScoreRev
ZRange(S) == Listing(S, ZOrder)

rangeByRank(start, stop) == IF stop < start THEN << >> ELSE Slice(ZRange(Present), start, stop)

GetRank(m) == Place(Present, ZOrder, m) + 1

RedisNeighbors(m, k) ==
  LET rank == Place(Present, ZOrder, m)
  IN rangeByRank(IF rank - k < 0 THEN 0 ELSE rank - k, rank + k)

----------------------------------------------------------------------------
(* ShardedEngine *)

\* Candidates sorted by the code's own comparator.
InOrder   == {p \in Present \X Present : lessInOrder(p[1], p[2])}
Sorted(S) == Listing(S, InOrder)

shardRange(i, stop) == Slice(ZRange(InShard(i)), 0, stop)

\* Faulty variant: each shard contributes one entry too few.
rangeMergedShort(start, stop) ==
  Slice(Sorted(UNION {Range(shardRange(i, stop - 1)) : i \in Shards}), start, stop)

rangeMerged(start, stop) ==
  IF stop < start \/ stop < 0 THEN << >>
  ELSE Slice(Sorted(UNION {Range(shardRange(i, stop)) : i \in Shards}), start, stop)

Count == Total([i \in Shards |-> Cardinality(InShard(i))], NShards)

\* k+1 entries of one shard on each side of a member's score.
Geq(i, m, k) == Range(Slice(Listing({n \in InShard(i) : z[n] >= z[m]}, ByScore), 0, k))
Leq(i, m, k) == Range(Slice(Listing({n \in InShard(i) : z[n] <= z[m]}, ByScoreRev), 0, k))

\* Faulty variant: k entries on each side.
NeighborsShort(m, k) ==
  LET cands == Sorted(UNION {Geq(i, m, k - 1) \cup Leq(i, m, k - 1) : i \in Shards})
  IN IF m \notin Range(cands) THEN << >> ELSE Around(cands, Position(cands, m), k)

\* The candidates in order, cut k before and after the member; nothing when the
\* member is not among them (ErrMemberNotFound).
Neighbors(m, k) ==
  LET cands == Sorted(UNION {Geq(i, m, k) \cup Leq(i, m, k) : i \in Shards})
  IN IF m \notin Range(cands) THEN << >> ELSE Around(cands, Position(cands, m), k)

\* Faulty variant: the member's own bucket counts as ahead.
AheadOrSame(b) == IF Asc THEN 0 .. b ELSE b .. ApproxBuckets - 1

\* Buckets ranked ahead of bucket b.
Ahead(b) == IF Asc THEN 0 .. b - 1 ELSE b + 1 .. ApproxBuckets - 1

\* One more than the counts of the buckets ahead.
approxRankFromCounts(counts, idx) ==
  1 + Total([b \in Buckets |-> IF b \in Ahead(idx) THEN counts[b] ELSE 0], ApproxBuckets)

\* The buckets are summed over the shards first.
approxRank(m) ==
  approxRankFromCounts([b \in Buckets |-> Total([i \in Shards |-> h[i][b]], NShards)],
                       bucketIndex(decode(z[m])))

\* FriendRank of a list of distinct members: those on the board, sorted.
FriendRank(S) == Sorted(S \cap Present)

----------------------------------------------------------------------------
(* A read is a function of the board, so every board that submits can have    *)
(* produced on a best-wins or last-wins board is an initial state.            *)
Accepted == {e \in Events : Encodable(e[1], e[2])}

SomeBoard ==
  /\ config \in Configs
  /\ z \in [Members -> {encode(e[1], e[2]) : e \in Accepted} \cup {None}]
  /\ h = [i \in Shards |-> [b \in Buckets |->
            Cardinality({m \in InShard(i) : bucketIndex(decode(z[m])) = b})]]
  /\ sent = [m \in Members |-> {e \in Accepted : encode(e[1], e[2]) = z[m]}]
  /\ sub  = [m \in Members |-> NoSubmit] /\ rem = [m \in Members |-> [a \in Removers |-> NoRemoval]]
  /\ owed = [m \in Members |-> {}]
  /\ ops = 0 /\ crashes = 0 /\ serial = TRUE

ReadSpec == SomeBoard /\ [][Next]_vars

(* Properties *)

Size == Cardinality(Members)

\* TopN and Page of a sharded board are the slices of the global ranking, ranks
\* included, at every instant ("exact because the global top-(stop+1) is a subset
\* of the union of the per-shard top-(stop+1)", sharded_engine.go:178-180), and
\* Count is its length.
ShardedPagesExact ==
  /\ \A start \in 0 .. Size, stop \in 0 .. Size : rangeMerged(start, stop) = rangeByRank(start, stop)
  /\ Count = Len(ZRange(Present))

\* The approximate rank brackets the exact one: it is never behind it, and by less
\* than the population of the member's bucket ("accurate to one bucket width",
\* redis_engine.go:212), whenever the histogram is exact.
ApproxRankBrackets ==
  HistogramExact =>
    \A m \in Present :
      LET same == {n \in Present : bucketIndex(decode(z[n])) = bucketIndex(decode(z[m]))}
      IN approxRank(m) <= GetRank(m) /\ GetRank(m) < approxRank(m) + Cardinality(same)

\* The neighbours of a member on a sharded board are those of the global ranking
\* when no other member has its stored score.
UntiedNeighborsExact ==
  \A m \in Present, k \in 0 .. Size :
    (\A n \in Present : z[n] = z[m] => n = m) => Neighbors(m, k) = RedisNeighbors(m, k)

\* A friend leaderboard lists its members in the order of the whole board, as
\* sharded or plain top lists do ("FriendRank agrees with TopN/GetRank",
\* redis_engine.go:361).
FriendsAgree ==
  \A S \in SUBSET Members : \A m, n \in S \cap Present :
    Position(FriendRank(S), m) < Position(FriendRank(S), n) <=> GetRank(m) < GetRank(n)
=============================================================================
