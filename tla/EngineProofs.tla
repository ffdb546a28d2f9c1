---------------------------- MODULE EngineProofs ----------------------------
(***************************************************************************)
(* Proofs about Engine and EngineReads, for any number of members and      *)
(* shards, any width of the composite score, any histogram and any number  *)
(* of operations and crashes.                                              *)
(***************************************************************************)
EXTENDS EngineReads, FiniteSetTheorems, TLAPS

(* What is being submitted, waits for redelivery or was written is encodable. *)
EncodableInv ==
  \A m \in Members :
    /\ sub[m].at # "idle" => sub[m].event \in Events /\ Encodable(sub[m].event[1], sub[m].event[2])
    /\ \A e \in owed[m] \cup sent[m] : Encodable(e[1], e[2])

(* A best-wins board stores the best of the encoded events. *)
StoredIsBest(m) ==
  IF z[m] = None THEN sent[m] = {}
  ELSE \E e \in sent[m] : /\ z[m] = encode(e[1], e[2])
                          /\ \A f \in sent[m] : ~ Better(encode(f[1], f[2]), z[m])

BestInv ==
  (TieBreak = "firstToReach" /\ UpdatePolicy = "best") => \A m \in Members : StoredIsBest(m)

(* Operations on a member that never overlap see the values they wrote or read; *)
(* of overlapping removals one at most has removed the member.                  *)
SerialInv ==
  serial => \A m \in Members :
    /\ sub[m].at = "idle" \/ Unremoved(m)
    /\ sub[m].at = "write" => sub[m].pre = z[m]
    /\ sub[m].at = "post" => z[m] # None
    /\ sub[m].at \in {"uncount", "count"} => sub[m].post = z[m] /\ z[m] # None
    /\ \A a \in Removers :
         /\ rem[m][a].at = "zrem" => rem[m][a].score = z[m] \/ z[m] = None
         /\ rem[m][a].at = "uncount" => z[m] = None /\ rem[m][a].score # None
    /\ \A a, b \in Removers : rem[m][a].at = "uncount" /\ rem[m][b].at = "uncount" => a = b

(* The score that the removal which took a member out has still to uncount. *)
Leftover(r) ==
  IF \E a \in Removers : r[a].at = "uncount"
  THEN r[CHOOSE a \in Removers : r[a].at = "uncount"].score ELSE None

(* The value a member is counted by in the histogram, while an operation is on *)
(* its way: the old one until it is uncounted, and none until the new one is.  *)
CountedValue(m) ==
  IF sub[m].at \in {"post", "uncount"} THEN sub[m].pre
  ELSE IF sub[m].at = "count" THEN None
  ELSE IF Leftover(rem[m]) # None THEN Leftover(rem[m])
  ELSE z[m]

InBucket(v, b) == v # None /\ bucketIndex(decode(v)) = b

Counted(i, b) == {m \in Members : ShardOf[m] = i /\ InBucket(CountedValue(m), b)}

DriftInv ==
  serial => \A i \in Shards, b \in Buckets :
    /\ h[i][b] <= Cardinality(Counted(i, b)) + crashes
    /\ Cardinality(Counted(i, b)) <= h[i][b] + crashes

IInv == TypeOK /\ EncodableInv /\ BestInv /\ SerialInv /\ DriftInv

LEMMA LeftoverNone ==
  ASSUME NEW r, \A a \in Removers : r[a].at # "uncount"
  PROVE  Leftover(r) = None
BY DEF Leftover

LEMMA LeftoverOf ==
  ASSUME NEW r, NEW a \in Removers, r[a].at = "uncount",
         \A b \in Removers : r[b].at = "uncount" => b = a
  PROVE  Leftover(r) = r[a].score
<1>1. (CHOOSE b \in Removers : r[b].at = "uncount") = a
  OBVIOUS
<1> QED
  BY <1>1 DEF Leftover

(* During a submit that nothing overlaps there is no such score. *)
LEMMA SubmitAlone ==
  ASSUME serial, SerialInv, NEW m \in Members, sub[m].at # "idle"
  PROVE  Leftover(rem[m]) = None
BY LeftoverNone DEF SerialInv, Unremoved

(* A removal's steps before its ZREM leave that score alone. *)
LEMMA LeftoverKept ==
  ASSUME SerialInv, serial, NEW m \in Members, NEW r, NEW a \in Removers,
         rem[m][a].at # "uncount", r[a].at # "uncount",
         \A b \in Removers : b # a => r[b] = rem[m][b]
  PROVE  Leftover(r) = Leftover(rem[m])
<1>1. CASE \A b \in Removers : rem[m][b].at # "uncount"
  <2>1. \A b \in Removers : r[b].at # "uncount"
    BY <1>1
  <2> QED
    BY <1>1, <2>1, LeftoverNone
<1>2. ASSUME NEW b \in Removers, rem[m][b].at = "uncount" PROVE Leftover(r) = Leftover(rem[m])
  <2>1. \A d \in Removers : rem[m][d].at = "uncount" => d = b
    BY <1>2 DEF SerialInv
  <2>2. /\ r[b] = rem[m][b] /\ r[b].at = "uncount"
        /\ \A d \in Removers : r[d].at = "uncount" => d = b
    BY <1>2, <2>1
  <2> QED
    BY <1>2, <2>1, <2>2, LeftoverOf
<1> QED
  BY <1>1, <1>2

(* The part of the state that the codec depends on. *)
LEMMA ConfigType ==
  ASSUME TypeOK
  PROVE  /\ config \in ValidConfigs /\ Asc \in BOOLEAN
         /\ UpdatePolicy \in {"best", "last", "increment"}
         /\ TieBreak \in {"lexical", "firstToReach"}
BY ConfigAssumption DEF TypeOK, ValidConfigs, Asc, UpdatePolicy, TieBreak

(* Multiplying by the number of instants keeps scores apart by that number. *)
LEMMA ScaleApart ==
  ASSUME NEW K \in Nat \ {0}, NEW s \in Int, NEW u \in Int, s < u
  PROVE  s * K + K <= u * K /\ s * K \in Int /\ u * K \in Int
<1>1. PICK d \in Nat : u = s + 1 + d
  <2>1. u - s - 1 \in Nat
    OBVIOUS
  <2> QED
    BY <2>1
<1>2. d * K \in Nat
  OBVIOUS
<1>3. u * K = s * K + K + d * K
  BY <1>1
<1> QED
  BY <1>2, <1>3

(* encode orders encodable events by score, then by time. *)
LEMMA EncodeOrder ==
  ASSUME TypeOK, TieBreak = "firstToReach",
         NEW s \in Int, NEW t \in Int, NEW u \in Int, NEW r \in Int,
         Encodable(s, t), Encodable(u, r)
  PROVE  /\ encode(s, t) \in Int
         /\ Better(encode(s, t), encode(u, r)) <=> Better(s, u) \/ (s = u /\ t < r)
         /\ encode(s, t) = encode(u, r) <=> s = u /\ t = r
<1> DEFINE K == 2^timeBits
<1>1. K \in Nat \ {0} /\ t \in 0 .. K - 1 /\ r \in 0 .. K - 1
  BY PowerAssumption DEF Encodable, maxTime
<1>2. /\ encode(s, t) = s * K + (IF Asc THEN t ELSE K - 1 - t)
      /\ encode(u, r) = u * K + (IF Asc THEN r ELSE K - 1 - r)
  BY DEF encode, maxTime
<1> HIDE DEF K
<1>3. s < u => s * K + K <= u * K
  BY <1>1, ScaleApart
<1>4. u < s => u * K + K <= s * K
  BY <1>1, ScaleApart
<1>5. s * K \in Int /\ u * K \in Int
  BY <1>1
<1>6. CASE Asc
  BY <1>1, <1>2, <1>3, <1>4, <1>5, <1>6 DEF Better
<1>7. CASE ~ Asc
  BY <1>1, <1>2, <1>3, <1>4, <1>5, <1>7 DEF Better
<1> QED
  BY <1>6, <1>7

(* Stored values are integers and decode to integers. *)
LEMMA CodecType ==
  ASSUME NEW s \in Int, NEW t \in Int
  PROVE  encode(s, t) \in Int /\ decode(s) \in Int
<1> DEFINE K == 2^timeBits
<1>1. K \in Nat \ {0}
  BY PowerAssumption
<1>2. encode(s, t) = (IF TieBreak # "firstToReach" THEN s
                      ELSE s * K + (IF Asc THEN t ELSE K - 1 - t))
  BY DEF encode, maxTime
<1>3. decode(s) = (IF TieBreak # "firstToReach" THEN s ELSE s \div K)
  BY DEF decode
<1> HIDE DEF K
<1>4. s * K \in Int /\ s \div K \in Int
  BY <1>1
<1> QED
  BY <1>1, <1>2, <1>3, <1>4

(* The bins cover all scores. *)
LEMMA BucketType ==
  ASSUME NEW score \in Int
  PROVE  bucketIndex(score) \in Buckets
<1>0. /\ ApproxMin \in Int /\ ApproxMax \in Int /\ ApproxMax > ApproxMin
      /\ ApproxBuckets \in Nat \ {0}
  BY ConfigAssumption
<1>1. CASE score <= ApproxMin \/ score >= ApproxMax
  BY <1>0, <1>1 DEF bucketIndex, Buckets
<1>2. CASE ApproxMin < score /\ score < ApproxMax
  <2>1. PICK x \in Nat, R \in Nat : x = score - ApproxMin /\ R = ApproxMax - ApproxMin
    <3>1. score - ApproxMin \in Nat /\ ApproxMax - ApproxMin \in Nat
      BY <1>0, <1>2
    <3> QED
      BY <3>1
  <2>2. x < R /\ R # 0
    BY <1>0, <1>2, <2>1
  <2>3. PICK q \in Int, B \in Nat \ {0} : B = ApproxBuckets /\ q = (x * B) \div R
    BY <1>0, <2>2
  <2>4. x * B \in Nat /\ q * R <= x * B /\ x * B < q * R + R
    BY <2>2, <2>3
  <2>5. q >= 0
    BY <2>2, <2>4
  <2>6. q < B
    <3> SUFFICES ASSUME B <= q PROVE FALSE
      BY <2>3
    <3>1. B * R <= q * R
      BY <2>3, <2>2
    <3>2. x * B + B <= R * B
      BY <2>2, <2>3, ScaleApart
    <3> QED
      BY <2>2, <2>3, <2>4, <3>1, <3>2
  <2>7. bucketIndex(score) = q
    BY <1>0, <1>2, <2>1, <2>3 DEF bucketIndex
  <2> QED
    BY <2>3, <2>5, <2>6, <2>7 DEF Buckets
<1> QED
  BY <1>0, <1>1, <1>2

(* ZADD and ZINCRBY store an integer. *)
LEMMA CombineType ==
  ASSUME NEW old \in Stored, NEW new \in Int
  PROVE  Combine(old, new) \in Int
BY DEF Combine, Stored

LEMMA EventType ==
  ASSUME NEW e \in Events
  PROVE  e[1] \in Int /\ e[2] \in Int
<1>1. e \in Int \X Int
  BY EventsAssumption
<1> QED
  BY <1>1

(* HINCRBY moves one counter of the member's shard. *)
LEMMA DeltaMoves ==
  ASSUME TypeOK, NEW m \in Members, NEW score, NEW d \in Int, QueueDelta(m, score, d)
  PROVE  /\ h' \in [Shards -> [Buckets -> Int]]
         /\ \A i \in Shards, b \in Buckets :
              h'[i][b] = IF i = ShardOf[m] /\ b = bucketIndex(score) THEN h[i][b] + d ELSE h[i][b]
<1> DEFINE k == bucketIndex(score)
           j == ShardOf[m]
<1>1. h' = [h EXCEPT ![j] = [h[j] EXCEPT ![k] = h[j][k] + d]]
  BY DEF QueueDelta
<1>2. h \in [Shards -> [Buckets -> Int]] /\ j \in Shards
  BY ShardAssumption DEF TypeOK, Shards
<1> HIDE DEF k, j
<1>3. [h[j] EXCEPT ![k] = h[j][k] + d] \in [Buckets -> Int]
  <2>1. h[j] \in [Buckets -> Int]
    BY <1>2
  <2>2. k \in Buckets => h[j][k] + d \in Int
    BY <2>1
  <2> QED
    BY <2>1, <2>2
<1>4. h' \in [Shards -> [Buckets -> Int]]
  BY <1>1, <1>2, <1>3
<1>5. ASSUME NEW i \in Shards, NEW b \in Buckets
      PROVE  h'[i][b] = IF i = j /\ b = k THEN h[i][b] + d ELSE h[i][b]
  <2>1. CASE i = j
    <3>1. h'[i] = [h[j] EXCEPT ![k] = h[j][k] + d] /\ h[j] \in [Buckets -> Int]
      BY <1>1, <1>2, <2>1
    <3> QED
      BY <2>1, <3>1
  <2>2. CASE i # j
    BY <1>1, <1>2, <2>2
  <2> QED
    BY <2>1, <2>2
<1> QED
  BY <1>4, <1>5 DEF k, j

LEMMA RemovalAt ==
  ASSUME NEW r \in Removal, NEW at \in {"idle", "read", "zrem", "uncount"}
  PROVE  [r EXCEPT !.at = at] \in Removal
BY DEF Removal

(* One removal changes. *)
LEMMA RemovalsType ==
  ASSUME NEW f \in [Members -> [Removers -> Removal]], NEW m \in Members, NEW a \in Removers,
         NEW r \in Removal
  PROVE  [f EXCEPT ![m] = [f[m] EXCEPT ![a] = r]] \in [Members -> [Removers -> Removal]]
OBVIOUS

(* Every step preserves the types. *)
LEMMA NextType ==
  ASSUME TypeOK, EncodableInv, [Next]_vars
  PROVE  TypeOK'
<1>1. ASSUME NEW m \in Members, NEW e \in Events, Submit(m, e) PROVE TypeOK'
  BY <1>1, BoundsAssumption DEF Submit, Start, NoSubmit, NoRemoval, TypeOK, Stored
<1>2. ASSUME NEW m \in Members, NEW e \in Events, Resubmit(m, e) PROVE TypeOK'
  BY <1>2, BoundsAssumption DEF Resubmit, Start, NoSubmit, NoRemoval, TypeOK, Stored
<1>3. ASSUME NEW m \in Members, ReadPre(m) PROVE TypeOK'
  BY <1>3, BoundsAssumption DEF ReadPre, Start, NoSubmit, NoRemoval, TypeOK, Stored
<1>4. ASSUME NEW m \in Members, Write(m) PROVE TypeOK'
  <2>1. encode(sub[m].event[1], sub[m].event[2]) \in Int
    BY <1>4, EventType, CodecType DEF Write, EncodableInv
  <2>2. Combine(z[m], encode(sub[m].event[1], sub[m].event[2])) \in Int
    BY <2>1, CombineType DEF TypeOK
  <2>3. sub[m].event \in Events
    BY <1>4 DEF Write, EncodableInv
  <2>4. sub' \in [Members -> [at : {"idle", "pre", "write", "post", "uncount", "count"},
                              event : Events \cup {None}, pre : Stored, post : Stored]]
    <3>1. CASE UpdatePolicy = "increment"
      BY <1>4, <2>2, <3>1 DEF Write, TypeOK, Stored
    <3>2. CASE UpdatePolicy # "increment"
      BY <1>4, <3>2 DEF Write, TypeOK
    <3> QED
      BY <3>1, <3>2
  <2>5. z' \in [Members -> Stored] /\ sent' \in [Members -> SUBSET Events]
    BY <1>4, <2>2, <2>3 DEF Write, TypeOK, Stored
  <2> QED
    BY <1>4, <2>4, <2>5 DEF Write, TypeOK
<1>5. ASSUME NEW m \in Members, ReadPost(m) PROVE TypeOK'
  BY <1>5, BoundsAssumption DEF ReadPost, Start, NoSubmit, NoRemoval, TypeOK, Stored
<1>6. ASSUME NEW m \in Members, ReadPostNil(m) PROVE TypeOK'
  <2>1. owed' \in [Members -> SUBSET Events]
    BY <1>6 DEF ReadPostNil, EncodableInv, TypeOK
  <2> QED
    BY <1>6, <2>1, BoundsAssumption DEF ReadPostNil, NoSubmit, TypeOK, Stored
<1>7. ASSUME NEW m \in Members, Unmoved(m) PROVE TypeOK'
  BY <1>7, BoundsAssumption DEF Unmoved, Start, NoSubmit, NoRemoval, TypeOK, Stored
<1>8. ASSUME NEW m \in Members, UncountOld(m) PROVE TypeOK'
  <2>1. h' \in [Shards -> [Buckets -> Int]]
    BY <1>8, DeltaMoves DEF UncountOld, TypeOK
  <2> QED
    BY <1>8, <2>1, BoundsAssumption DEF UncountOld, NoSubmit, NoRemoval, TypeOK, Stored
<1>9. ASSUME NEW m \in Members, CountNew(m) PROVE TypeOK'
  <2>1. h' \in [Shards -> [Buckets -> Int]]
    BY <1>9, DeltaMoves DEF CountNew, TypeOK
  <2> QED
    BY <1>9, <2>1, BoundsAssumption DEF CountNew, NoSubmit, NoRemoval, TypeOK, Stored
<1>10. ASSUME NEW m \in Members, NEW a \in Removers, Remove(m, a) PROVE TypeOK'
  <2>0. rem[m][a] \in Removal
    BY DEF TypeOK
  <2>1. [rem[m][a] EXCEPT !.at = "read"] \in Removal
    BY <2>0, RemovalAt
  <2>2. rem' = [rem EXCEPT ![m] = [rem[m] EXCEPT ![a] = [rem[m][a] EXCEPT !.at = "read"]]]
    BY <1>10 DEF Remove, TypeOK
  <2>3. rem' \in [Members -> [Removers -> Removal]]
    BY <2>1, <2>2, RemovalsType DEF TypeOK
  <2> QED
    BY <1>10, <2>3 DEF Remove, Start, TypeOK
<1>11. ASSUME NEW m \in Members, NEW a \in Removers, RemoveRead(m, a) PROVE TypeOK'
  BY <1>11, BoundsAssumption DEF RemoveRead, Start, NoRemoval, TypeOK, Removal, Stored
<1>12. ASSUME NEW m \in Members, NEW a \in Removers, ZRem(m, a) PROVE TypeOK'
  <2>0. rem[m][a] \in Removal /\ NoRemoval \in Removal
    BY DEF TypeOK, NoRemoval, Removal, Stored
  <2>1. [rem[m][a] EXCEPT !.at = "uncount"] \in Removal
    BY <2>0, RemovalAt
  <2>2. \/ rem' = [rem EXCEPT ![m] = [rem[m] EXCEPT ![a] = [rem[m][a] EXCEPT !.at = "uncount"]]]
        \/ rem' = [rem EXCEPT ![m] = [rem[m] EXCEPT ![a] = NoRemoval]]
    BY <1>12 DEF ZRem, TypeOK
  <2>3. rem' \in [Members -> [Removers -> Removal]]
    <3>1. rem \in [Members -> [Removers -> Removal]]
      BY DEF TypeOK
    <3>2. CASE rem' = [rem EXCEPT ![m] = [rem[m] EXCEPT ![a] = [rem[m][a] EXCEPT !.at = "uncount"]]]
      BY <2>1, <3>1, <3>2, RemovalsType
    <3>3. CASE rem' = [rem EXCEPT ![m] = [rem[m] EXCEPT ![a] = NoRemoval]]
      BY <2>0, <3>1, <3>3, RemovalsType
    <3> QED
      BY <2>2, <3>2, <3>3
  <2>4. z' \in [Members -> Stored] /\ sent' \in [Members -> SUBSET Events]
    BY <1>12 DEF ZRem, TypeOK, Stored
  <2> QED
    BY <1>12, <2>3, <2>4 DEF ZRem, TypeOK
<1>13. ASSUME NEW m \in Members, NEW a \in Removers, RemoveUncount(m, a) PROVE TypeOK'
  <2>1. h' \in [Shards -> [Buckets -> Int]]
    BY <1>13, DeltaMoves DEF RemoveUncount, TypeOK
  <2> QED
    BY <1>13, <2>1, BoundsAssumption DEF RemoveUncount, NoRemoval, TypeOK, Removal, Stored
<1>14. ASSUME NEW m \in Members, Crash(m) PROVE TypeOK'
  <2>1. owed' \in [Members -> SUBSET Events]
    <3>1. owed \in [Members -> SUBSET Events]
      BY DEF TypeOK
    <3>2. CASE UNCHANGED owed
      BY <3>1, <3>2
    <3>3. CASE sub[m].at # "idle" /\ owed' = [owed EXCEPT ![m] = @ \cup {sub[m].event}]
      <4>1. sub[m].event \in Events
        BY <3>3 DEF EncodableInv
      <4> QED
        BY <3>1, <3>3, <4>1
    <3> QED
      BY <1>14, <3>2, <3>3 DEF Crash
  <2>2. sub' \in [Members -> [at : {"idle", "pre", "write", "post", "uncount", "count"},
                              event : Events \cup {None}, pre : Stored, post : Stored]]
    <3>1. NoSubmit \in [at : {"idle", "pre", "write", "post", "uncount", "count"},
                        event : Events \cup {None}, pre : Stored, post : Stored]
      BY DEF NoSubmit, Stored
    <3>2. sub' = sub \/ sub' = [sub EXCEPT ![m] = NoSubmit]
      BY <1>14 DEF Crash
    <3> QED
      BY <3>1, <3>2 DEF TypeOK
  <2>3. rem' \in [Members -> [Removers -> Removal]]
    <3>1. NoRemoval \in Removal
      BY DEF NoRemoval, Removal, Stored
    <3>2. CASE UNCHANGED rem
      BY <3>2 DEF TypeOK
    <3>3. ASSUME NEW a \in Removers, rem' = [rem EXCEPT ![m][a] = NoRemoval]
          PROVE  rem' \in [Members -> [Removers -> Removal]]
      <4>1. rem' = [rem EXCEPT ![m] = [rem[m] EXCEPT ![a] = NoRemoval]]
        BY <3>3 DEF TypeOK
      <4> QED
        BY <3>1, <4>1, RemovalsType DEF TypeOK
    <3> QED
      BY <1>14, <3>2, <3>3 DEF Crash
  <2> QED
    BY <1>14, <2>1, <2>2, <2>3, BoundsAssumption DEF Crash, TypeOK
<1>15. CASE UNCHANGED vars
  BY <1>15 DEF vars, TypeOK
<1> QED
  BY <1>1, <1>2, <1>3, <1>4, <1>5, <1>6, <1>7, <1>8, <1>9, <1>10, <1>11, <1>12, <1>13, <1>14, <1>15 DEF Next

(* Only encodable events get past the encoding, redelivered ones included. *)
LEMMA NextEncodable ==
  ASSUME TypeOK, EncodableInv, [Next]_vars
  PROVE  EncodableInv'
<1>1. ASSUME NEW m \in Members, NEW e \in Events, Submit(m, e) PROVE EncodableInv'
  BY <1>1 DEF Submit, Start, NoSubmit, NoRemoval, EncodableInv, Encodable, TieBreak, TypeOK
<1>2. ASSUME NEW m \in Members, NEW e \in Events, Resubmit(m, e) PROVE EncodableInv'
  BY <1>2 DEF Resubmit, Start, NoSubmit, NoRemoval, EncodableInv, Encodable, TieBreak, TypeOK
<1>3. ASSUME NEW m \in Members, ReadPre(m) PROVE EncodableInv'
  BY <1>3 DEF ReadPre, Start, NoSubmit, NoRemoval, EncodableInv, Encodable, TieBreak, TypeOK
<1>4. ASSUME NEW m \in Members, Write(m) PROVE EncodableInv'
  BY <1>4 DEF Write, Start, NoSubmit, NoRemoval, EncodableInv, Encodable, TieBreak, TypeOK
<1>5. ASSUME NEW m \in Members, ReadPost(m) PROVE EncodableInv'
  BY <1>5 DEF ReadPost, Start, NoSubmit, NoRemoval, EncodableInv, Encodable, TieBreak, TypeOK
<1>6. ASSUME NEW m \in Members, ReadPostNil(m) PROVE EncodableInv'
  BY <1>6 DEF ReadPostNil, Start, NoSubmit, NoRemoval, EncodableInv, Encodable, TieBreak, TypeOK
<1>7. ASSUME NEW m \in Members, Unmoved(m) PROVE EncodableInv'
  BY <1>7 DEF Unmoved, Start, NoSubmit, NoRemoval, EncodableInv, Encodable, TieBreak, TypeOK
<1>8. ASSUME NEW m \in Members, UncountOld(m) PROVE EncodableInv'
  BY <1>8 DEF UncountOld, Start, NoSubmit, NoRemoval, EncodableInv, Encodable, TieBreak, TypeOK
<1>9. ASSUME NEW m \in Members, CountNew(m) PROVE EncodableInv'
  BY <1>9 DEF CountNew, Start, NoSubmit, NoRemoval, EncodableInv, Encodable, TieBreak, TypeOK
<1>10. ASSUME NEW m \in Members, NEW a \in Removers, Remove(m, a) PROVE EncodableInv'
  BY <1>10 DEF Remove, Start, NoSubmit, NoRemoval, EncodableInv, Encodable, TieBreak, TypeOK
<1>11. ASSUME NEW m \in Members, NEW a \in Removers, RemoveRead(m, a) PROVE EncodableInv'
  BY <1>11 DEF RemoveRead, Start, NoSubmit, NoRemoval, EncodableInv, Encodable, TieBreak, TypeOK
<1>12. ASSUME NEW m \in Members, NEW a \in Removers, ZRem(m, a) PROVE EncodableInv'
  BY <1>12 DEF ZRem, Start, NoSubmit, NoRemoval, EncodableInv, Encodable, TieBreak, TypeOK
<1>13. ASSUME NEW m \in Members, NEW a \in Removers, RemoveUncount(m, a) PROVE EncodableInv'
  BY <1>13 DEF RemoveUncount, Start, NoSubmit, NoRemoval, EncodableInv, Encodable, TieBreak, TypeOK
<1>14. ASSUME NEW m \in Members, Crash(m) PROVE EncodableInv'
  <2>1. /\ sent' = sent /\ config' = config
        /\ \/ sub' = sub /\ owed' = owed
           \/ /\ sub[m].at # "idle" /\ sub' = [sub EXCEPT ![m] = NoSubmit]
              /\ owed' = [owed EXCEPT ![m] = @ \cup {sub[m].event}]
    BY <1>14 DEF Crash
  <2> QED
    BY <2>1 DEF NoSubmit, EncodableInv, Encodable, TieBreak, TypeOK
<1>15. CASE UNCHANGED vars
  BY <1>15 DEF vars, EncodableInv, Encodable, TieBreak
<1> QED
  BY <1>1, <1>2, <1>3, <1>4, <1>5, <1>6, <1>7, <1>8, <1>9, <1>10, <1>11, <1>12, <1>13, <1>14, <1>15 DEF Next

(* Only ZADD and ZREM touch a ranking, and nothing changes a board's configuration. *)
LEMMA RankingFrame ==
  ASSUME [Next]_vars
  PROVE  /\ config' = config
         /\ \/ z' = z /\ sent' = sent
            \/ \E m \in Members : Write(m) \/ \E a \in Removers : ZRem(m, a)
BY DEF Next, vars, Submit, Resubmit, ReadPre, Write, ReadPost, ReadPostNil, Unmoved, UncountOld,
       CountNew, Remove, RemoveRead, ZRem, RemoveUncount, Crash

(* The best encoded event stays on a best-wins board. *)
LEMMA NextBest ==
  ASSUME TypeOK, EncodableInv, BestInv, [Next]_vars
  PROVE  BestInv'
<1>0. config' = config
  BY RankingFrame
<1> SUFFICES ASSUME TieBreak = "firstToReach", UpdatePolicy = "best", NEW n \in Members
             PROVE  StoredIsBest(n)'
  BY <1>0 DEF BestInv, TieBreak, UpdatePolicy
<1>1. StoredIsBest(n)
  BY DEF BestInv
<1>2. ASSUME z'[n] = z[n], sent'[n] = sent[n] PROVE StoredIsBest(n)'
  BY <1>0, <1>1, <1>2 DEF StoredIsBest, encode, Better, Asc, TieBreak
<1>3. ASSUME NEW m \in Members, Write(m) PROVE StoredIsBest(n)'
  <2>1. CASE m # n
    BY <1>2, <1>3, <2>1 DEF Write, TypeOK
  <2>2. CASE m = n
    <3>1. PICK e \in Events : e = sub[n].event
      BY <1>3, <2>2 DEF Write, EncodableInv
    <3>2. PICK x \in Int : x = encode(e[1], e[2])
      BY EventType, CodecType
    <3>3. z'[n] = Combine(z[n], x) /\ sent'[n] = sent[n] \cup {e}
      BY <1>3, <2>2, <3>1, <3>2 DEF Write, TypeOK
    <3>4. \A f \in sent[n] : encode(f[1], f[2]) \in Int
      BY EventType, CodecType DEF TypeOK
    <3>5. z[n] \in Int \cup {None} /\ x # None
      BY BoundsAssumption DEF TypeOK, Stored
    <3>6. CASE z[n] = None
      BY <1>0, <1>1, <3>2, <3>3, <3>5, <3>6 DEF StoredIsBest, Combine, encode, Better, Asc, TieBreak
    <3>7. CASE z[n] # None /\ Better(x, z[n])
      <4>1. z'[n] = x
        BY <3>3, <3>7 DEF Combine
      <4>2. \A f \in sent[n] : ~ Better(encode(f[1], f[2]), x)
        BY <1>1, <3>4, <3>5, <3>7 DEF StoredIsBest, Better
      <4>3. ~ Better(x, x)
        BY DEF Better
      <4> QED
        BY <1>0, <3>2, <3>3, <3>5, <4>1, <4>2, <4>3 DEF StoredIsBest, encode, Better, Asc, TieBreak
    <3>8. CASE z[n] # None /\ ~ Better(x, z[n])
      <4>1. z'[n] = z[n]
        BY <3>3, <3>8 DEF Combine
      <4> QED
        BY <1>0, <1>1, <3>2, <3>3, <3>8, <4>1 DEF StoredIsBest, encode, Better, Asc, TieBreak
    <3> QED
      BY <3>6, <3>7, <3>8
  <2> QED
    BY <2>1, <2>2
<1>4. ASSUME NEW m \in Members, NEW a \in Removers, ZRem(m, a) PROVE StoredIsBest(n)'
  <2>1. CASE m # n
    BY <1>2, <1>4, <2>1 DEF ZRem, TypeOK
  <2>2. CASE m = n
    BY <1>4, <2>2 DEF ZRem, TypeOK, StoredIsBest
  <2> QED
    BY <2>1, <2>2
<1> QED
  BY <1>2, <1>3, <1>4, RankingFrame

(* Operations that do not overlap see their own values. *)
LEMMA NextSerial ==
  ASSUME TypeOK, EncodableInv, SerialInv, [Next]_vars
  PROVE  SerialInv'
<1>1. ASSUME NEW m \in Members, NEW e \in Events, Submit(m, e) PROVE SerialInv'
  <2>1. /\ z' = z /\ rem' = rem /\ (serial' => serial /\ Unremoved(m))
        /\ sub'[m].at = "pre" /\ \A n \in Members : n # m => sub'[n] = sub[n]
    BY <1>1 DEF Submit, TypeOK
  <2>2. \A n \in Members : Unremoved(n)' <=> Unremoved(n)
    BY <2>1 DEF Unremoved
  <2> QED
    BY <2>1, <2>2 DEF SerialInv
<1>2. ASSUME NEW m \in Members, NEW e \in Events, Resubmit(m, e) PROVE SerialInv'
  <2>1. /\ z' = z /\ rem' = rem /\ (serial' => serial /\ Unremoved(m))
        /\ sub'[m].at = "pre" /\ \A n \in Members : n # m => sub'[n] = sub[n]
    BY <1>2 DEF Resubmit, TypeOK
  <2>2. \A n \in Members : Unremoved(n)' <=> Unremoved(n)
    BY <2>1 DEF Unremoved
  <2> QED
    BY <2>1, <2>2 DEF SerialInv
<1>3. ASSUME NEW m \in Members, ReadPre(m) PROVE SerialInv'
  BY <1>3 DEF ReadPre, Start, NoSubmit, SerialInv, TypeOK, Unremoved
<1>4. ASSUME NEW m \in Members, Write(m) PROVE SerialInv'
  <2>1. encode(sub[m].event[1], sub[m].event[2]) \in Int
    BY <1>4, EventType, CodecType DEF Write, EncodableInv
  <2>2. PICK new \in Int : new = Combine(z[m], encode(sub[m].event[1], sub[m].event[2]))
    BY <2>1, CombineType DEF TypeOK
  <2>3. new # None
    BY BoundsAssumption
  <2>4. z' = [z EXCEPT ![m] = new] /\ rem' = rem /\ serial' = serial /\ sub[m].at = "write"
    BY <1>4, <2>2 DEF Write
  <2>5. \/ sub' = [sub EXCEPT ![m].post = new, ![m].at = "uncount"]
        \/ sub' = [sub EXCEPT ![m].at = "post"]
    BY <1>4, <2>2 DEF Write
  <2> QED
    <3>1. \A n \in Members : Unremoved(n)' <=> Unremoved(n)
      BY <2>4 DEF Unremoved
    <3> QED
      <4>1. /\ z'[m] = new /\ \A n \in Members : n # m => z'[n] = z[n] /\ sub'[n] = sub[n]
            /\ \/ sub'[m].at = "uncount" /\ sub'[m].post = new
               \/ sub'[m].at = "post"
        BY <2>4, <2>5 DEF TypeOK
      <4>2. serial => Unremoved(m)
        BY <2>4 DEF SerialInv
      <4>3. SUFFICES
              ASSUME serial, NEW n \in Members
              PROVE  /\ sub'[n].at = "idle" \/ Unremoved(n)'
                     /\ sub'[n].at = "write" => sub'[n].pre = z'[n]
                     /\ sub'[n].at = "post" => z'[n] # None
                     /\ sub'[n].at \in {"uncount", "count"} => sub'[n].post = z'[n] /\ z'[n] # None
                     /\ \A a \in Removers :
                          /\ rem'[n][a].at = "zrem" => rem'[n][a].score = z'[n] \/ z'[n] = None
                          /\ rem'[n][a].at = "uncount" => z'[n] = None /\ rem'[n][a].score # None
                     /\ \A a, b \in Removers :
                          rem'[n][a].at = "uncount" /\ rem'[n][b].at = "uncount" => a = b
        BY <2>4 DEF SerialInv
      <4>4. CASE n = m
        <5>1. \A a \in Removers : rem'[n][a].at = "idle"
          BY <2>4, <4>2, <4>3, <4>4 DEF Unremoved
        <5>2. \A a \in Removers : rem'[n][a].at # "zrem" /\ rem'[n][a].at # "uncount"
          BY <5>1
        <5>3. Unremoved(n)'
          BY <3>1, <4>2, <4>3, <4>4
        <5> QED
          BY <2>3, <4>1, <4>4, <5>2, <5>3
      <4>5. CASE n # m
        <5>1. z'[n] = z[n] /\ sub'[n] = sub[n] /\ rem'[n] = rem[n]
          BY <2>4, <4>1, <4>5
        <5>2. Unremoved(n)' <=> Unremoved(n)
          BY <3>1
        <5> QED
          BY <4>3, <5>1, <5>2 DEF SerialInv
      <4> QED
        BY <4>4, <4>5
<1>5. ASSUME NEW m \in Members, ReadPost(m) PROVE SerialInv'
  BY <1>5 DEF ReadPost, Start, NoSubmit, SerialInv, TypeOK, Unremoved
<1>6. ASSUME NEW m \in Members, ReadPostNil(m) PROVE SerialInv'
  BY <1>6 DEF ReadPostNil, Start, NoSubmit, SerialInv, TypeOK, Unremoved
<1>7. ASSUME NEW m \in Members, Unmoved(m) PROVE SerialInv'
  BY <1>7 DEF Unmoved, Start, NoSubmit, SerialInv, TypeOK, Unremoved
<1>8. ASSUME NEW m \in Members, UncountOld(m) PROVE SerialInv'
  BY <1>8 DEF UncountOld, Start, NoSubmit, SerialInv, TypeOK, Unremoved
<1>9. ASSUME NEW m \in Members, CountNew(m) PROVE SerialInv'
  BY <1>9 DEF CountNew, Start, NoSubmit, SerialInv, TypeOK, Unremoved
<1>10. ASSUME NEW m \in Members, NEW a \in Removers, Remove(m, a) PROVE SerialInv'
  <2>1. /\ z' = z /\ sub' = sub /\ rem' = [rem EXCEPT ![m][a].at = "read"]
        /\ serial' => serial /\ sub[m].at = "idle"
    BY <1>10 DEF Remove
  <2>2. /\ rem'[m][a].at = "read" /\ \A n \in Members : n # m => rem'[n] = rem[n]
        /\ \A b \in Removers : b # a => rem'[m][b] = rem[m][b]
    BY <2>1 DEF TypeOK
  <2> QED
    BY <2>1, <2>2 DEF SerialInv, Unremoved
<1>11. ASSUME NEW m \in Members, NEW a \in Removers, RemoveRead(m, a) PROVE SerialInv'
  <2>1. /\ z' = z /\ sub' = sub /\ serial' = serial /\ rem[m][a].at = "read"
        /\ rem' = [rem EXCEPT ![m][a] = [at |-> "zrem", score |-> z[m]]]
    BY <1>11 DEF RemoveRead
  <2>2. /\ rem'[m][a].at = "zrem" /\ rem'[m][a].score = z[m]
        /\ \A n \in Members : n # m => rem'[n] = rem[n]
        /\ \A b \in Removers : b # a => rem'[m][b] = rem[m][b]
    BY <2>1 DEF TypeOK
  <2> QED
    BY <2>1, <2>2 DEF SerialInv, Unremoved
<1>12. ASSUME NEW m \in Members, NEW a \in Removers, ZRem(m, a) PROVE SerialInv'
  <2>1. /\ z'[m] = None /\ sub' = sub /\ serial' = serial /\ rem[m][a].at = "zrem"
        /\ \A n \in Members : n # m => z'[n] = z[n] /\ rem'[n] = rem[n]
        /\ \A b \in Removers : b # a => rem'[m][b] = rem[m][b]
    BY <1>12 DEF ZRem, TypeOK
  <2>2. \/ rem'[m][a].at = "idle"
        \/ rem'[m][a].at = "uncount" /\ rem'[m][a].score # None /\ z[m] # None
    BY <1>12 DEF ZRem, Absent, NoRemoval, TypeOK
  <2> QED
    BY <2>1, <2>2 DEF SerialInv, Unremoved
<1>13. ASSUME NEW m \in Members, NEW a \in Removers, RemoveUncount(m, a) PROVE SerialInv'
  <2>1. /\ z' = z /\ sub' = sub /\ serial' = serial
        /\ rem' = [rem EXCEPT ![m][a] = NoRemoval]
    BY <1>13 DEF RemoveUncount
  <2>2. /\ rem'[m][a].at = "idle" /\ \A n \in Members : n # m => rem'[n] = rem[n]
        /\ \A b \in Removers : b # a => rem'[m][b] = rem[m][b]
    BY <2>1 DEF TypeOK, NoRemoval
  <2> QED
    BY <2>1, <2>2 DEF SerialInv, Unremoved
<1>14. ASSUME NEW m \in Members, Crash(m) PROVE SerialInv'
  <2>1. /\ z' = z /\ serial' = serial
        /\ \A n \in Members : sub'[n] = sub[n] \/ sub'[n].at = "idle"
        /\ \A n \in Members : \A b \in Removers : rem'[n][b] = rem[n][b] \/ rem'[n][b].at = "idle"
    <3>1. z' = z /\ serial' = serial
      BY <1>14 DEF Crash
    <3>2. \A n \in Members : sub'[n] = sub[n] \/ sub'[n].at = "idle"
      <4>1. sub' = sub \/ sub' = [sub EXCEPT ![m] = NoSubmit]
        BY <1>14 DEF Crash
      <4> QED
        BY <4>1 DEF NoSubmit, TypeOK
    <3>3. \A n \in Members : \A b \in Removers : rem'[n][b] = rem[n][b] \/ rem'[n][b].at = "idle"
      <4>1. CASE rem' = rem
        BY <4>1
      <4>2. ASSUME NEW a \in Removers, rem' = [rem EXCEPT ![m][a] = NoRemoval]
            PROVE  \A n \in Members : \A b \in Removers :
                     rem'[n][b] = rem[n][b] \/ rem'[n][b].at = "idle"
        <5>1. /\ rem'[m][a].at = "idle" /\ \A n \in Members : n # m => rem'[n] = rem[n]
              /\ \A b \in Removers : b # a => rem'[m][b] = rem[m][b]
          BY <4>2 DEF TypeOK, NoRemoval
        <5> QED
          BY <5>1
      <4> QED
        BY <1>14, <4>1, <4>2 DEF Crash
    <3> QED
      BY <3>1, <3>2, <3>3
  <2> QED
    BY <2>1 DEF SerialInv, Unremoved
<1>15. CASE UNCHANGED vars
  BY <1>15 DEF vars, SerialInv, Unremoved
<1> QED
  BY <1>1, <1>2, <1>3, <1>4, <1>5, <1>6, <1>7, <1>8, <1>9, <1>10, <1>11, <1>12, <1>13, <1>14, <1>15 DEF Next

----------------------------------------------------------------------------
(* Counting *)

(* Two sets that differ in one member at most. *)
LEMMA OneDiffers ==
  ASSUME NEW S \in SUBSET Members, NEW T \in SUBSET Members, NEW m, S \ {m} = T \ {m}
  PROVE  /\ Cardinality(S) \in Nat /\ Cardinality(T) \in Nat
         /\ Cardinality(T) = Cardinality(S) + (IF m \in T THEN 1 ELSE 0) - (IF m \in S THEN 1 ELSE 0)
<1>1. IsFiniteSet(S) /\ IsFiniteSet(T)
  BY MembersAssumption, FS_Subset
<1>2. Cardinality(S) \in Nat /\ Cardinality(T) \in Nat
  BY <1>1, FS_CardinalityType
<1>3. m \in S => Cardinality(S \ {m}) = Cardinality(S) - 1
  BY <1>1, FS_RemoveElement
<1>4. m \in T => Cardinality(T \ {m}) = Cardinality(T) - 1
  BY <1>1, FS_RemoveElement
<1>5. /\ m \notin S => S \ {m} = S
      /\ m \notin T => T \ {m} = T
  OBVIOUS
<1>6. CASE m \in S /\ m \in T
  BY <1>2, <1>3, <1>4, <1>6
<1>7. CASE m \in S /\ m \notin T
  <2>1. S \ {m} = T
    BY <1>5, <1>7
  <2>2. Cardinality(T) = Cardinality(S) - 1
    BY <1>3, <1>7, <2>1, Zenon
  <2> QED
    BY <1>2, <1>7, <2>2
<1>8. CASE m \notin S /\ m \in T
  BY <1>2, <1>4, <1>5, <1>8
<1>9. CASE m \notin S /\ m \notin T
  BY <1>2, <1>5, <1>9
<1> QED
  BY <1>6, <1>7, <1>8, <1>9

(* One member is counted by another value. *)
LEMMA CountedChange ==
  ASSUME config' = config, NEW m \in Members, NEW v, NEW w,
         v = CountedValue(m), w = CountedValue(m)',
         \A n \in Members : n # m => CountedValue(n)' = CountedValue(n),
         NEW i \in Shards, NEW b \in Buckets
  PROVE  /\ Cardinality(Counted(i, b)) \in Nat /\ Cardinality(Counted(i, b))' \in Nat
         /\ Cardinality(Counted(i, b))' =
              Cardinality(Counted(i, b)) + (IF ShardOf[m] = i /\ InBucket(w, b) THEN 1 ELSE 0)
                                         - (IF ShardOf[m] = i /\ InBucket(v, b) THEN 1 ELSE 0)
<1>1. \A n \in Members : InBucket(CountedValue(n), b)' <=> InBucket(CountedValue(n)', b)
  BY DEF InBucket, decode, TieBreak
<1>2. Counted(i, b) \in SUBSET Members /\ Counted(i, b)' \in SUBSET Members
  BY DEF Counted
<1>3. Counted(i, b) \ {m} = Counted(i, b)' \ {m}
  BY <1>1 DEF Counted
<1>4. /\ m \in Counted(i, b) <=> ShardOf[m] = i /\ InBucket(v, b)
      /\ m \in Counted(i, b)' <=> ShardOf[m] = i /\ InBucket(w, b)
  BY <1>1 DEF Counted
<1> QED
  BY <1>2, <1>3, <1>4, OneDiffers

(* A step after which every member is counted in the bucket it was. *)
LEMMA DriftSame ==
  ASSUME DriftInv, config' = config, h' = h, crashes' = crashes, serial' => serial,
         serial' => \A n \in Members : CountedValue(n)' = CountedValue(n)
  PROVE  DriftInv'
<1> SUFFICES ASSUME serial', NEW i \in Shards, NEW b \in Buckets
             PROVE  /\ h'[i][b] <= Cardinality(Counted(i, b)') + crashes'
                    /\ Cardinality(Counted(i, b)') <= h'[i][b] + crashes'
  BY DEF DriftInv
<1>1. \A n \in Members : InBucket(CountedValue(n), b)' <=> InBucket(CountedValue(n), b)
  BY DEF InBucket, decode, TieBreak
<1>2. Counted(i, b)' = Counted(i, b)
  BY <1>1 DEF Counted
<1> QED
  BY <1>2 DEF DriftInv

(* A step moves a counter with the member it counts, and only a cut-off operation *)
(* leaves one behind.                                                             *)
LEMMA NextDrift ==
  ASSUME TypeOK, SerialInv, DriftInv, [Next]_vars
  PROVE  DriftInv'
<1>1. ASSUME NEW m \in Members, NEW e \in Events, Submit(m, e) PROVE DriftInv'
  <2>1. /\ config' = config /\ h' = h /\ crashes' = crashes /\ (serial' => serial)
    BY <1>1 DEF Submit, Start
  <2>2. ASSUME serial' PROVE \A n \in Members : CountedValue(n)' = CountedValue(n)
    BY <1>1, <2>1, <2>2 DEF Submit, Start, CountedValue, SerialInv, TypeOK
  <2> QED
    BY <2>1, <2>2, DriftSame
<1>2. ASSUME NEW m \in Members, NEW e \in Events, Resubmit(m, e) PROVE DriftInv'
  <2>1. /\ config' = config /\ h' = h /\ crashes' = crashes /\ (serial' => serial)
    BY <1>2 DEF Resubmit, Start
  <2>2. ASSUME serial' PROVE \A n \in Members : CountedValue(n)' = CountedValue(n)
    BY <1>2, <2>1, <2>2 DEF Resubmit, Start, CountedValue, SerialInv, TypeOK
  <2> QED
    BY <2>1, <2>2, DriftSame
<1>3. ASSUME NEW m \in Members, ReadPre(m) PROVE DriftInv'
  <2>1. /\ config' = config /\ h' = h /\ crashes' = crashes /\ (serial' => serial)
    BY <1>3 DEF ReadPre, Start
  <2>2. ASSUME serial' PROVE \A n \in Members : CountedValue(n)' = CountedValue(n)
    BY <1>3, <2>1, <2>2 DEF ReadPre, Start, CountedValue, SerialInv, TypeOK
  <2> QED
    BY <2>1, <2>2, DriftSame
<1>4. ASSUME NEW m \in Members, Write(m) PROVE DriftInv'
  <2>1. /\ config' = config /\ h' = h /\ crashes' = crashes /\ (serial' => serial)
    BY <1>4 DEF Write
  <2>2. ASSUME serial' PROVE \A n \in Members : CountedValue(n)' = CountedValue(n)
    <3>0. Leftover(rem[m]) = None
      BY <1>4, <2>1, <2>2, SubmitAlone DEF Write
    <3>1. CountedValue(m) = z[m] /\ sub[m].pre = z[m]
      BY <1>4, <2>1, <2>2, <3>0 DEF Write, CountedValue, SerialInv
    <3>2. sub'[m].at \in {"post", "uncount"} /\ sub'[m].pre = sub[m].pre
      BY <1>4 DEF Write, TypeOK
    <3>3. \A n \in Members : n # m => sub'[n] = sub[n] /\ rem'[n] = rem[n] /\ z'[n] = z[n]
      BY <1>4 DEF Write, TypeOK
    <3> QED
      BY <3>1, <3>2, <3>3 DEF CountedValue
  <2> QED
    BY <2>1, <2>2, DriftSame
<1>5. ASSUME NEW m \in Members, ReadPost(m) PROVE DriftInv'
  <2>1. /\ config' = config /\ h' = h /\ crashes' = crashes /\ (serial' => serial)
    BY <1>5 DEF ReadPost, Start
  <2>2. ASSUME serial' PROVE \A n \in Members : CountedValue(n)' = CountedValue(n)
    BY <1>5, <2>1, <2>2 DEF ReadPost, Start, CountedValue, SerialInv, TypeOK
  <2> QED
    BY <2>1, <2>2, DriftSame
<1>6. ASSUME NEW m \in Members, ReadPostNil(m) PROVE DriftInv'
  <2>1. ~ serial'
    BY <1>6 DEF ReadPostNil, SerialInv
  <2> QED
    BY <2>1 DEF DriftInv
<1>7. ASSUME NEW m \in Members, Unmoved(m) PROVE DriftInv'
  <2> SUFFICES ASSUME serial', NEW i \in Shards, NEW b \in Buckets
               PROVE  /\ h'[i][b] <= Cardinality(Counted(i, b))' + crashes'
                      /\ Cardinality(Counted(i, b))' <= h'[i][b] + crashes'
    BY DEF DriftInv
  <2>0. /\ serial /\ config' = config /\ crashes' = crashes
        /\ h[i][b] \in Int /\ crashes \in Nat
        /\ h[i][b] <= Cardinality(Counted(i, b)) + crashes
        /\ Cardinality(Counted(i, b)) <= h[i][b] + crashes
    BY <1>7 DEF Unmoved, DriftInv, TypeOK
  <2>1. /\ CountedValue(m) = sub[m].pre /\ CountedValue(m)' = sub[m].post
        /\ \A n \in Members : n # m => CountedValue(n)' = CountedValue(n)
    <3>1. Leftover(rem[m]) = None
      BY <1>7, <2>0, SubmitAlone DEF Unmoved
    <3> QED
      BY <1>7, <2>0, <3>1 DEF Unmoved, NoSubmit, CountedValue, SerialInv, TypeOK
  <2>2. InBucket(sub[m].pre, b) <=> InBucket(sub[m].post, b)
    BY <1>7, <2>0 DEF Unmoved, InBucket, SerialInv
  <2>3. /\ Cardinality(Counted(i, b)) \in Nat
        /\ Cardinality(Counted(i, b))' = Cardinality(Counted(i, b))
    BY <2>0, <2>1, <2>2, CountedChange
  <2> QED
    BY <1>7, <2>0, <2>3 DEF Unmoved
<1>8. ASSUME NEW m \in Members, UncountOld(m) PROVE DriftInv'
  <2> SUFFICES ASSUME serial', NEW i \in Shards, NEW b \in Buckets
               PROVE  /\ h'[i][b] <= Cardinality(Counted(i, b))' + crashes'
                      /\ Cardinality(Counted(i, b))' <= h'[i][b] + crashes'
    BY DEF DriftInv
  <2>0. /\ serial /\ config' = config /\ crashes' = crashes
        /\ h[i][b] \in Int /\ crashes \in Nat
        /\ h[i][b] <= Cardinality(Counted(i, b)) + crashes
        /\ Cardinality(Counted(i, b)) <= h[i][b] + crashes
    BY <1>8 DEF UncountOld, DriftInv, TypeOK
  <2>1. PICK v \in Stored : v = sub[m].pre
    BY DEF TypeOK
  <2>2. /\ CountedValue(m) = v /\ CountedValue(m)' = None
        /\ \A n \in Members : n # m => CountedValue(n)' = CountedValue(n)
    BY <1>8, <2>0, <2>1 DEF UncountOld, CountedValue, SerialInv, TypeOK
  <2>3. /\ Cardinality(Counted(i, b)) \in Nat
        /\ Cardinality(Counted(i, b))' =
             Cardinality(Counted(i, b)) - (IF ShardOf[m] = i /\ InBucket(v, b) THEN 1 ELSE 0)
    BY <2>0, <2>2, CountedChange DEF InBucket
  <2>4. h'[i][b] = h[i][b] - (IF ShardOf[m] = i /\ InBucket(v, b) THEN 1 ELSE 0)
    <3>1. CASE v = None
      BY <1>8, <2>0, <2>1, <3>1 DEF UncountOld, InBucket
    <3>2. CASE v # None
      <4>1. QueueDelta(m, decode(v), -1)
        BY <1>8, <2>1, <3>2 DEF UncountOld
      <4> QED
        BY <2>0, <3>2, <4>1, DeltaMoves DEF InBucket
    <3> QED
      BY <3>1, <3>2
  <2> QED
    BY <2>0, <2>3, <2>4
<1>9. ASSUME NEW m \in Members, CountNew(m) PROVE DriftInv'
  <2> SUFFICES ASSUME serial', NEW i \in Shards, NEW b \in Buckets
               PROVE  /\ h'[i][b] <= Cardinality(Counted(i, b))' + crashes'
                      /\ Cardinality(Counted(i, b))' <= h'[i][b] + crashes'
    BY DEF DriftInv
  <2>0. /\ serial /\ config' = config /\ crashes' = crashes
        /\ h[i][b] \in Int /\ crashes \in Nat
        /\ h[i][b] <= Cardinality(Counted(i, b)) + crashes
        /\ Cardinality(Counted(i, b)) <= h[i][b] + crashes
    BY <1>9 DEF CountNew, DriftInv, TypeOK
  <2>1. PICK v \in Stored : v = z[m]
    BY DEF TypeOK
  <2>2. /\ CountedValue(m) = None /\ CountedValue(m)' = v /\ v # None /\ v = sub[m].post
        /\ \A n \in Members : n # m => CountedValue(n)' = CountedValue(n)
    <3>1. Leftover(rem[m]) = None
      BY <1>9, <2>0, SubmitAlone DEF CountNew
    <3> QED
      BY <1>9, <2>0, <2>1, <3>1 DEF CountNew, NoSubmit, CountedValue, SerialInv, TypeOK
  <2>3. /\ Cardinality(Counted(i, b)) \in Nat
        /\ Cardinality(Counted(i, b))' =
             Cardinality(Counted(i, b)) + (IF ShardOf[m] = i /\ InBucket(v, b) THEN 1 ELSE 0)
    BY <2>0, <2>2, CountedChange DEF InBucket
  <2>4. QueueDelta(m, decode(v), 1)
    BY <1>9, <2>2 DEF CountNew
  <2>5. h'[i][b] = h[i][b] + (IF ShardOf[m] = i /\ InBucket(v, b) THEN 1 ELSE 0)
    BY <2>0, <2>2, <2>4, DeltaMoves DEF InBucket
  <2> QED
    BY <2>0, <2>3, <2>5
<1>10. ASSUME NEW m \in Members, NEW a \in Removers, Remove(m, a) PROVE DriftInv'
  <2>1. /\ config' = config /\ h' = h /\ crashes' = crashes /\ (serial' => serial)
    BY <1>10 DEF Remove, Start
  <2>2. ASSUME serial' PROVE \A n \in Members : CountedValue(n)' = CountedValue(n)
    <3>1. /\ rem[m][a].at = "idle" /\ rem'[m][a].at = "read"
          /\ \A b \in Removers : b # a => rem'[m][b] = rem[m][b]
      BY <1>10 DEF Remove, TypeOK
    <3>2. Leftover(rem'[m]) = Leftover(rem[m])
      BY <2>1, <2>2, <3>1, LeftoverKept
    <3>3. sub' = sub /\ z' = z /\ \A n \in Members : n # m => rem'[n] = rem[n]
      BY <1>10 DEF Remove, TypeOK
    <3> QED
      BY <3>2, <3>3 DEF CountedValue
  <2> QED
    BY <2>1, <2>2, DriftSame
<1>11. ASSUME NEW m \in Members, NEW a \in Removers, RemoveRead(m, a) PROVE DriftInv'
  <2>1. /\ config' = config /\ h' = h /\ crashes' = crashes /\ (serial' => serial)
    BY <1>11 DEF RemoveRead, Start
  <2>2. ASSUME serial' PROVE \A n \in Members : CountedValue(n)' = CountedValue(n)
    <3>1. /\ rem[m][a].at = "read" /\ rem'[m][a].at = "zrem"
          /\ \A b \in Removers : b # a => rem'[m][b] = rem[m][b]
      BY <1>11 DEF RemoveRead, TypeOK
    <3>2. Leftover(rem'[m]) = Leftover(rem[m])
      BY <2>1, <2>2, <3>1, LeftoverKept
    <3>3. sub' = sub /\ z' = z /\ \A n \in Members : n # m => rem'[n] = rem[n]
      BY <1>11 DEF RemoveRead, TypeOK
    <3> QED
      BY <3>2, <3>3 DEF CountedValue
  <2> QED
    BY <2>1, <2>2, DriftSame
<1>12. ASSUME NEW m \in Members, NEW a \in Removers, ZRem(m, a) PROVE DriftInv'
  <2>1. /\ config' = config /\ h' = h /\ crashes' = crashes /\ (serial' => serial)
    BY <1>12 DEF ZRem, Start
  <2>2. ASSUME serial' PROVE \A n \in Members : CountedValue(n)' = CountedValue(n)
    <3>1. /\ rem[m][a].at = "zrem" /\ sub[m].at = "idle" /\ sub' = sub /\ z'[m] = None
          /\ rem[m][a].score = z[m] \/ z[m] = None
          /\ \A b \in Removers : b # a => rem'[m][b] = rem[m][b]
      BY <1>12, <2>1, <2>2 DEF ZRem, SerialInv, Unremoved, TypeOK
    <3>2. CountedValue(m)' = CountedValue(m)
      <4>1. CASE z[m] = None
        <5>1. rem'[m][a].at = "idle"
          BY <1>12, <4>1 DEF ZRem, Absent, NoRemoval, TypeOK
        <5>2. Leftover(rem'[m]) = Leftover(rem[m])
          BY <2>1, <2>2, <3>1, <5>1, LeftoverKept
        <5> QED
          BY <3>1, <4>1, <5>2 DEF CountedValue
      <4>2. CASE z[m] # None
        <5>1. rem'[m][a].at = "uncount" /\ rem'[m][a].score = z[m]
          BY <1>12, <3>1, <4>2 DEF ZRem, Absent, TypeOK
        <5>2. \A b \in Removers : rem[m][b].at # "uncount"
          BY <2>1, <2>2, <4>2 DEF SerialInv
        <5>3. \A b \in Removers : rem'[m][b].at = "uncount" => b = a
          BY <3>1, <5>2
        <5>4. Leftover(rem[m]) = None /\ Leftover(rem'[m]) = z[m]
          BY <5>1, <5>2, <5>3, LeftoverNone, LeftoverOf
        <5> QED
          BY <3>1, <4>2, <5>4 DEF CountedValue
      <4> QED
        BY <4>1, <4>2
    <3>3. \A n \in Members : n # m => sub'[n] = sub[n] /\ rem'[n] = rem[n] /\ z'[n] = z[n]
      BY <1>12 DEF ZRem, TypeOK
    <3> QED
      BY <3>2, <3>3 DEF CountedValue
  <2> QED
    BY <2>1, <2>2, DriftSame
<1>13. ASSUME NEW m \in Members, NEW a \in Removers, RemoveUncount(m, a) PROVE DriftInv'
  <2> SUFFICES ASSUME serial', NEW i \in Shards, NEW b \in Buckets
               PROVE  /\ h'[i][b] <= Cardinality(Counted(i, b))' + crashes'
                      /\ Cardinality(Counted(i, b))' <= h'[i][b] + crashes'
    BY DEF DriftInv
  <2>0. /\ serial /\ config' = config /\ crashes' = crashes
        /\ h[i][b] \in Int /\ crashes \in Nat
        /\ h[i][b] <= Cardinality(Counted(i, b)) + crashes
        /\ Cardinality(Counted(i, b)) <= h[i][b] + crashes
    BY <1>13 DEF RemoveUncount, DriftInv, TypeOK
  <2>1. PICK v \in Stored : v = rem[m][a].score
    BY DEF TypeOK, Removal
  <2>2. /\ CountedValue(m) = v /\ CountedValue(m)' = None /\ v # None
        /\ \A n \in Members : n # m => CountedValue(n)' = CountedValue(n)
    <3>1. /\ rem[m][a].at = "uncount" /\ v # None /\ z[m] = None /\ sub[m].at = "idle"
          /\ \A c \in Removers : rem[m][c].at = "uncount" => c = a
      BY <1>13, <2>0, <2>1 DEF RemoveUncount, SerialInv, Unremoved
    <3>2. /\ rem'[m][a].at = "idle" /\ sub' = sub /\ z' = z
          /\ \A c \in Removers : c # a => rem'[m][c] = rem[m][c]
          /\ \A n \in Members : n # m => rem'[n] = rem[n]
      BY <1>13 DEF RemoveUncount, NoRemoval, TypeOK
    <3>3. \A c \in Removers : rem'[m][c].at # "uncount"
      BY <3>1, <3>2
    <3>4. Leftover(rem[m]) = v /\ Leftover(rem'[m]) = None
      BY <2>1, <3>1, <3>3, LeftoverNone, LeftoverOf
    <3> QED
      BY <3>1, <3>2, <3>4 DEF CountedValue
  <2>3. /\ Cardinality(Counted(i, b)) \in Nat
        /\ Cardinality(Counted(i, b))' =
             Cardinality(Counted(i, b)) - (IF ShardOf[m] = i /\ InBucket(v, b) THEN 1 ELSE 0)
    BY <2>0, <2>2, CountedChange DEF InBucket
  <2>4. QueueDelta(m, decode(v), -1)
    BY <1>13, <2>1 DEF RemoveUncount
  <2>5. h'[i][b] = h[i][b] - (IF ShardOf[m] = i /\ InBucket(v, b) THEN 1 ELSE 0)
    BY <2>0, <2>2, <2>4, DeltaMoves DEF InBucket
  <2> QED
    BY <2>0, <2>3, <2>5
<1>14. ASSUME NEW m \in Members, Crash(m) PROVE DriftInv'
  <2> SUFFICES ASSUME serial', NEW i \in Shards, NEW b \in Buckets
               PROVE  /\ h'[i][b] <= Cardinality(Counted(i, b))' + crashes'
                      /\ Cardinality(Counted(i, b))' <= h'[i][b] + crashes'
    BY DEF DriftInv
  <2>0. /\ serial /\ config' = config /\ crashes' = crashes + 1 /\ h' = h
        /\ h[i][b] \in Int /\ crashes \in Nat
        /\ h[i][b] <= Cardinality(Counted(i, b)) + crashes
        /\ Cardinality(Counted(i, b)) <= h[i][b] + crashes
    BY <1>14 DEF Crash, DriftInv, TypeOK
  <2>1. \A n \in Members : n # m => CountedValue(n)' = CountedValue(n)
    BY <1>14 DEF Crash, CountedValue, TypeOK
  <2>2. /\ Cardinality(Counted(i, b)) \in Nat /\ Cardinality(Counted(i, b))' \in Nat
        /\ Cardinality(Counted(i, b))' <= Cardinality(Counted(i, b)) + 1
        /\ Cardinality(Counted(i, b)) <= Cardinality(Counted(i, b))' + 1
    BY <2>0, <2>1, CountedChange
  <2> QED
    BY <2>0, <2>2
<1>15. CASE UNCHANGED vars
  BY <1>15, DriftSame DEF vars, CountedValue
<1> QED
  BY <1>1, <1>2, <1>3, <1>4, <1>5, <1>6, <1>7, <1>8, <1>9, <1>10, <1>11, <1>12, <1>13, <1>14, <1>15 DEF Next

LEMMA Inductive == Spec => []IInv
<1>1. Init => IInv
  <2> SUFFICES ASSUME Init PROVE IInv
    OBVIOUS
  <2>1. TypeOK
    BY DEF Init, TypeOK, NoSubmit, NoRemoval, Removal, Stored
  <2>2. EncodableInv
    BY DEF Init, EncodableInv, NoSubmit
  <2>3. BestInv /\ SerialInv
    BY DEF Init, BestInv, StoredIsBest, SerialInv, NoSubmit, NoRemoval, Unremoved
  <2>4. DriftInv
    <3> SUFFICES ASSUME NEW i \in Shards, NEW b \in Buckets
                 PROVE  h[i][b] = 0 /\ crashes = 0 /\ Cardinality(Counted(i, b)) = 0
      BY DEF DriftInv
    <3>1. Counted(i, b) = {}
      <4>1. \A m \in Members : Leftover(rem[m]) = None
        BY LeftoverNone DEF Init, NoRemoval
      <4> QED
        BY <4>1 DEF Init, Counted, CountedValue, InBucket, NoSubmit
    <3> QED
      BY <3>1, FS_EmptySet DEF Init
  <2> QED
    BY <2>1, <2>2, <2>3, <2>4 DEF IInv
<1>2. IInv /\ [Next]_vars => IInv'
  BY NextType, NextEncodable, NextBest, NextSerial, NextDrift DEF IInv
<1> QED
  BY <1>1, <1>2, PTL DEF Spec

(* Every variable keeps its type. *)
THEOREM TypeCorrect == Spec => []TypeOK
<1>1. IInv => TypeOK
  BY DEF IInv
<1> QED
  BY <1>1, Inductive, PTL

(* When removals and submits of a member do not overlap, a bucket of the        *)
(* histogram is off by at most the number of operations that were cut off, once *)
(* nothing is on its way: every other interleaving leaves it exact.             *)
THEOREM HistogramDriftIsBounded == Spec => []HistogramDriftBounded
<1>1. IInv => HistogramDriftBounded
  <2> SUFFICES ASSUME IInv, Quiet, serial, NEW i \in Shards, NEW b \in Buckets
               PROVE  h[i][b] \in Cardinality(Population(i, b)) - crashes ..
                                  Cardinality(Population(i, b)) + crashes
    BY DEF HistogramDriftBounded
  <2>1. Counted(i, b) = Population(i, b)
    <3>1. \A m \in Members : Leftover(rem[m]) = None
      BY LeftoverNone DEF Quiet, Unremoved
    <3> QED
      BY <3>1 DEF Counted, Population, CountedValue, InBucket, Quiet
  <2>2. Cardinality(Counted(i, b)) \in Nat
    <3>1. IsFiniteSet(Counted(i, b))
      BY MembersAssumption, FS_Subset DEF Counted
    <3> QED
      BY <3>1, FS_CardinalityType
  <2>3. h[i][b] \in Int /\ crashes \in Nat
    BY DEF IInv, TypeOK
  <2>4. /\ h[i][b] <= Cardinality(Counted(i, b)) + crashes
        /\ Cardinality(Counted(i, b)) <= h[i][b] + crashes
    BY DEF IInv, DriftInv
  <2> QED
    BY <2>1, <2>2, <2>3, <2>4
<1> QED
  BY <1>1, Inductive, PTL

----------------------------------------------------------------------------
(* The event whose encoding a best-wins board stores is the member's best score *)
(* at the first time it was reached.                                            *)
LEMMA StoredEvent ==
  ASSUME TypeOK, EncodableInv, TieBreak = "firstToReach", NEW m \in Members,
         StoredIsBest(m), z[m] # None
  PROVE  \E s \in Int, t \in Int :
           /\ z[m] = encode(s, t) /\ Encodable(s, t)
           /\ BestScore(m) = s /\ FirstTime(m) = t
<1>1. PICK e \in sent[m] : /\ z[m] = encode(e[1], e[2])
                           /\ \A f \in sent[m] : ~ Better(encode(f[1], f[2]), z[m])
  BY DEF StoredIsBest
<1>2. \A f \in sent[m] : f[1] \in Int /\ f[2] \in Int /\ Encodable(f[1], f[2])
  BY EventType DEF TypeOK, EncodableInv
<1>3. \A f \in sent[m] : ~ Better(f[1], e[1]) /\ (f[1] = e[1] => e[2] <= f[2])
  <2> SUFFICES ASSUME NEW f \in sent[m]
               PROVE  ~ Better(f[1], e[1]) /\ ~ (f[1] = e[1] /\ f[2] < e[2])
    BY <1>2
  <2>1. ~ Better(encode(f[1], f[2]), encode(e[1], e[2]))
    BY <1>1
  <2> QED
    BY <1>2, <2>1, EncodeOrder
<1>4. \A s \in Int : ~ Better(s, e[1]) /\ ~ Better(e[1], s) => s = e[1]
  BY <1>2 DEF Better
<1>5. BestScore(m) = e[1]
  <2> DEFINE P(s) == s \in {f[1] : f \in sent[m]} /\ \A f \in sent[m] : ~ Better(f[1], s)
  <2>1. P(e[1])
    BY <1>3
  <2>2. \A s : P(s) => s = e[1]
    BY <1>2, <1>3, <1>4
  <2>3. BestScore(m) = CHOOSE s : P(s)
    BY DEF BestScore
  <2> HIDE DEF P
  <2> QED
    BY <2>1, <2>2, <2>3
<1>6. FirstTime(m) = e[2]
  <2> DEFINE Times == {f[2] : f \in {g \in sent[m] : g[1] = e[1]}}
             P(t) == t \in Times /\ \A f \in sent[m] : f[1] = e[1] => t <= f[2]
  <2>1. P(e[2])
    BY <1>3
  <2>2. \A t : P(t) => t = e[2]
    <3> SUFFICES ASSUME NEW t, P(t) PROVE t = e[2]
      OBVIOUS
    <3>1. PICK f \in sent[m] : f[1] = e[1] /\ t = f[2]
      OBVIOUS
    <3>2. t <= e[2] /\ e[2] <= t /\ t \in Int /\ e[2] \in Int
      BY <1>2, <1>3, <3>1
    <3> QED
      BY <3>2
  <2>3. FirstTime(m) = CHOOSE t : P(t)
    BY <1>5 DEF FirstTime
  <2> HIDE DEF P
  <2> QED
    BY <2>1, <2>2, <2>3
<1> QED
  BY <1>1, <1>2, <1>5, <1>6

(* A best-wins firstToReach board ranks members by their best score, and equal *)
(* scores by who reached them first, whatever the order in which the events    *)
(* arrived, were redelivered or were cut off.                                  *)
THEOREM FirstToReachRanksFirst == Spec => []FirstToReachOrder
<1>1. IInv => FirstToReachOrder
  <2> SUFFICES ASSUME IInv, TieBreak = "firstToReach", UpdatePolicy = "best",
                      NEW m \in Members, NEW n \in Members, z[m] # None, z[n] # None,
                      BestScore(m) # BestScore(n) \/ FirstTime(m) # FirstTime(n)
               PROVE  lessInOrder(m, n) <=>
                        \/ Better(BestScore(m), BestScore(n))
                        \/ BestScore(m) = BestScore(n) /\ FirstTime(m) < FirstTime(n)
    BY DEF FirstToReachOrder
  <2>1. PICK s \in Int, t \in Int : /\ z[m] = encode(s, t) /\ Encodable(s, t)
                                    /\ BestScore(m) = s /\ FirstTime(m) = t
    BY StoredEvent DEF IInv, BestInv
  <2>2. PICK u \in Int, r \in Int : /\ z[n] = encode(u, r) /\ Encodable(u, r)
                                    /\ BestScore(n) = u /\ FirstTime(n) = r
    BY StoredEvent DEF IInv, BestInv
  <2>3. /\ Better(z[m], z[n]) <=> Better(s, u) \/ (s = u /\ t < r)
        /\ z[m] = z[n] <=> s = u /\ t = r
    BY <2>1, <2>2, EncodeOrder DEF IInv
  <2> QED
    BY <2>1, <2>2, <2>3 DEF lessInOrder
<1> QED
  BY <1>1, Inductive, PTL

----------------------------------------------------------------------------
(* Reads.  A listing is a finite set in a strict total order; an element's     *)
(* place in it is the number of elements before it.                           *)

(* A finite set in a strict total order, given by pairs. *)
Ordered(S, R) ==
  /\ IsFiniteSet(S)
  /\ \A a \in S : <<a, a>> \notin R
  /\ \A a, b, c \in S : <<a, b>> \in R /\ <<b, c>> \in R => <<a, c>> \in R
  /\ \A a, b \in S : a = b \/ <<a, b>> \in R \/ <<b, a>> \in R

Preds(S, R, m) == {n \in S : <<n, m>> \in R}

(* The places of an ordered set are 0 .. Cardinality(S) - 1. *)
LEMMA PlaceType ==
  ASSUME NEW S, NEW R, Ordered(S, R), NEW m \in S
  PROVE  /\ Place(S, R, m) = Cardinality(Preds(S, R, m))
         /\ IsFiniteSet(Preds(S, R, m))
         /\ Cardinality(S) \in Nat
         /\ Place(S, R, m) \in 0 .. Cardinality(S) - 1
<1>1. IsFiniteSet(S) /\ Preds(S, R, m) \in SUBSET S /\ m \notin Preds(S, R, m)
  BY DEF Ordered, Preds
<1>2. Preds(S, R, m) # S
  BY <1>1
<1>3. /\ IsFiniteSet(Preds(S, R, m))
      /\ Cardinality(Preds(S, R, m)) <= Cardinality(S)
      /\ Cardinality(S) # Cardinality(Preds(S, R, m))
  BY <1>1, <1>2, FS_Subset
<1>4. Cardinality(S) \in Nat /\ Cardinality(Preds(S, R, m)) \in Nat
  BY <1>1, <1>3, FS_CardinalityType
<1>5. Place(S, R, m) = Cardinality(Preds(S, R, m))
  BY DEF Place, Preds
<1> QED
  BY <1>3, <1>4, <1>5

(* Earlier elements have smaller places. *)
LEMMA PlaceGrows ==
  ASSUME NEW S, NEW R, Ordered(S, R), NEW a \in S, NEW b \in S, <<a, b>> \in R
  PROVE  Place(S, R, a) < Place(S, R, b)
<1> DEFINE A == Preds(S, R, a)
           B == Preds(S, R, b)
<1>1. A \in SUBSET B /\ a \in B /\ a \notin A
  BY DEF Ordered, Preds
<1>2. /\ IsFiniteSet(B) /\ Place(S, R, a) = Cardinality(A) /\ Place(S, R, b) = Cardinality(B)
      /\ Place(S, R, a) \in Int /\ Place(S, R, b) \in Int
  BY PlaceType
<1>3. A # B
  BY <1>1
<1> HIDE DEF A, B
<1>4. Cardinality(A) <= Cardinality(B) /\ Cardinality(A) # Cardinality(B)
  BY <1>1, <1>2, <1>3, FS_Subset
<1> QED
  BY <1>2, <1>4

(* The order of two elements is that of their places. *)
LEMMA PlaceOrder ==
  ASSUME NEW S, NEW R, Ordered(S, R), NEW a \in S, NEW b \in S
  PROVE  <<a, b>> \in R <=> Place(S, R, a) < Place(S, R, b)
<1>1. Place(S, R, a) \in Int /\ Place(S, R, b) \in Int
  BY PlaceType
<1>2. <<a, b>> \in R => Place(S, R, a) < Place(S, R, b)
  BY PlaceGrows
<1>3. <<b, a>> \in R => Place(S, R, b) < Place(S, R, a)
  BY PlaceGrows
<1>4. a = b \/ <<a, b>> \in R \/ <<b, a>> \in R
  BY DEF Ordered
<1> QED
  BY <1>1, <1>2, <1>3, <1>4

(* No two elements share a place. *)
LEMMA PlaceUnique ==
  ASSUME NEW S, NEW R, Ordered(S, R), NEW a \in S, NEW b \in S, Place(S, R, a) = Place(S, R, b)
  PROVE  a = b
<1>1. Place(S, R, a) \in Int /\ Place(S, R, b) \in Int
  BY PlaceType
<1>2. <<a, b>> \in R => Place(S, R, a) < Place(S, R, b)
  BY PlaceGrows
<1>3. <<b, a>> \in R => Place(S, R, b) < Place(S, R, a)
  BY PlaceGrows
<1>4. a = b \/ <<a, b>> \in R \/ <<b, a>> \in R
  BY DEF Ordered
<1> QED
  BY <1>1, <1>2, <1>3, <1>4

(* Every place is taken. *)
LEMMA PlaceTaken ==
  ASSUME NEW S, NEW R, Ordered(S, R), NEW i \in 0 .. Cardinality(S) - 1
  PROVE  \E m \in S : Place(S, R, m) = i
<1> DEFINE T == 0 .. Cardinality(S) - 1
           f == [m \in S |-> Place(S, R, m)]
<1>1. IsFiniteSet(S) /\ Cardinality(S) \in Nat
  BY FS_CardinalityType DEF Ordered
<1>2. IsFiniteSet(T) /\ Cardinality(T) = Cardinality(S)
  <2>0. 0 \in Int /\ Cardinality(S) - 1 \in Int
    BY <1>1
  <2>1. /\ IsFiniteSet(T)
        /\ Cardinality(T) = IF 0 > Cardinality(S) - 1 THEN 0 ELSE Cardinality(S) - 1 - 0 + 1
    BY <2>0, FS_Interval, Zenon
  <2> HIDE DEF T
  <2> QED
    BY <1>1, <2>1
<1>3. f \in [S -> T]
  BY PlaceType
<1>4. ASSUME NEW a \in S, NEW b \in S, f[a] = f[b] PROVE a = b
  <2>1. Place(S, R, a) = Place(S, R, b)
    BY <1>4
  <2> QED
    BY <2>1, PlaceUnique
<1>5. f \in Injection(S, T)
  <2> HIDE DEF f, T
  <2> QED
    BY <1>3, <1>4 DEF Injection, IsInjective
<1>6. f \in Surjection(S, T)
  <2> HIDE DEF f, T
  <2> QED
    BY <1>2, <1>5, FS_Injection
<1>7. \A t \in T : \E s \in S : f[s] = t
  <2> HIDE DEF f, T
  <2> QED
    BY <1>6 DEF Surjection
<1> QED
  BY <1>7

(* The listing has every element at its place. *)
LEMMA ListingPlaces ==
  ASSUME NEW S, NEW R, Ordered(S, R)
  PROVE  /\ Listing(S, R) = [i \in 1 .. Cardinality(S) |-> Listing(S, R)[i]]
         /\ Len(Listing(S, R)) = Cardinality(S) /\ Cardinality(S) \in Nat
         /\ DOMAIN Listing(S, R) = 1 .. Cardinality(S)
         /\ \A i \in 1 .. Cardinality(S) : /\ Listing(S, R)[i] \in S
                                           /\ Place(S, R, Listing(S, R)[i]) = i - 1
         /\ \A m \in S : /\ Place(S, R, m) + 1 \in 1 .. Cardinality(S)
                         /\ Listing(S, R)[Place(S, R, m) + 1] = m
<1>1. Cardinality(S) \in Nat
  BY FS_CardinalityType DEF Ordered
<1>2. ASSUME NEW i \in 1 .. Cardinality(S)
      PROVE  Listing(S, R)[i] \in S /\ Place(S, R, Listing(S, R)[i]) = i - 1
  <2>1. i - 1 \in 0 .. Cardinality(S) - 1
    BY <1>1
  <2>2. \E m \in S : Place(S, R, m) = i - 1
    BY <2>1, PlaceTaken
  <2>3. Listing(S, R)[i] = CHOOSE m \in S : Place(S, R, m) = i - 1
    BY DEF Listing
  <2> QED
    BY <2>2, <2>3
<1>3. ASSUME NEW m \in S
      PROVE  /\ Place(S, R, m) + 1 \in 1 .. Cardinality(S)
             /\ Listing(S, R)[Place(S, R, m) + 1] = m
  <2>1. Place(S, R, m) \in 0 .. Cardinality(S) - 1
    BY PlaceType
  <2>2. Place(S, R, m) + 1 \in 1 .. Cardinality(S)
    BY <1>1, <2>1
  <2>3. /\ Listing(S, R)[Place(S, R, m) + 1] \in S
        /\ Place(S, R, Listing(S, R)[Place(S, R, m) + 1]) = Place(S, R, m)
    BY <1>2, <2>1, <2>2
  <2>4. PICK n \in S : n = Listing(S, R)[Place(S, R, m) + 1]
    BY <2>3
  <2>5. Place(S, R, n) = Place(S, R, m)
    BY <2>3, <2>4
  <2> QED
    BY <2>2, <2>4, <2>5, PlaceUnique
<1>4. /\ Len(Listing(S, R)) = Cardinality(S) 
      /\ DOMAIN Listing(S, R) = 1 .. Cardinality(S)
      /\ Listing(S, R) = [i \in 1 .. Cardinality(S) |-> Listing(S, R)[i]]
  BY <1>1 DEF Listing
<1> QED
  BY <1>1, <1>2, <1>3, <1>4

(* Looking for an element in a listing finds its place. *)
LEMMA PositionIsPlace ==
  ASSUME NEW S, NEW R, Ordered(S, R), NEW m \in S
  PROVE  Position(Listing(S, R), m) = Place(S, R, m)
<1> DEFINE L == Listing(S, R)
           C == CHOOSE i \in 1 .. Len(L) : L[i] = m
<1>1. /\ Len(L) = Cardinality(S) /\ Cardinality(S) \in Nat
      /\ \A i \in 1 .. Cardinality(S) : Place(S, R, L[i]) = i - 1
      /\ Place(S, R, m) + 1 \in 1 .. Cardinality(S) /\ L[Place(S, R, m) + 1] = m
  BY ListingPlaces
<1>2. Position(L, m) = C - 1
  BY DEF Position
<1> HIDE DEF L
<1>3. C \in 1 .. Len(L) /\ L[C] = m
  BY <1>1
<1> HIDE DEF C
<1>4. C \in Int /\ Place(S, R, m) = C - 1
  BY <1>1, <1>3
<1> QED
  BY <1>2, <1>4 DEF L

(* Part of an ordered set is ordered. *)
LEMMA OrderedPart ==
  ASSUME NEW P, NEW R, Ordered(P, R), NEW C \in SUBSET P
  PROVE  Ordered(C, R)
<1>1. IsFiniteSet(C)
  BY FS_Subset DEF Ordered
<1> QED
  BY <1>1 DEF Ordered

(* Who has few elements before it is in the listing's first entries, and only *)
(* elements of the set are.                                                   *)
LEMMA FirstEntries ==
  ASSUME NEW S, NEW R, Ordered(S, R), NEW k \in Nat
  PROVE  /\ Range(Slice(Listing(S, R), 0, k)) \subseteq S
         /\ \A x \in S : Place(S, R, x) <= k => x \in Range(Slice(Listing(S, R), 0, k))
<1> DEFINE L == Listing(S, R)
           N == Cardinality(S)
           e == IF k < N THEN k + 1 ELSE N
           F == [i \in 1 .. e |-> L[i]]
<1>1. /\ Len(L) = N /\ N \in Nat
      /\ \A i \in 1 .. N : L[i] \in S /\ Place(S, R, L[i]) = i - 1
      /\ \A m \in S : Place(S, R, m) + 1 \in 1 .. N /\ L[Place(S, R, m) + 1] = m
  BY ListingPlaces
<1>2. Slice(L, 0, k) = F
  <2> HIDE DEF L, N
  <2>1. Slice(L, 0, k) = [i \in 1 .. e - 0 |-> L[0 + i]]
    BY <1>1 DEF Slice
  <2>2. e \in Nat /\ e - 0 = e
    BY <1>1
  <2>3. \A i \in 1 .. e : 0 + i = i
    BY <2>2
  <2> HIDE DEF e
  <2> QED
    BY <2>1, <2>2, <2>3
<1> HIDE DEF L, N
<1>3. Range(F) \subseteq S
  <2>1. \A i \in 1 .. e : i \in 1 .. N
    BY <1>1
  <2> HIDE DEF e
  <2>2. DOMAIN F = 1 .. e /\ \A i \in 1 .. e : F[i] \in S
    BY <1>1, <2>1
  <2> HIDE DEF F
  <2> QED
    BY <2>2 DEF Range
<1>4. ASSUME NEW x \in S, Place(S, R, x) <= k PROVE x \in Range(F)
  <2>1. PICK j \in 1 .. N : j = Place(S, R, x) + 1 /\ L[j] = x
    BY <1>1
  <2>2. Place(S, R, x) \in Int
    BY PlaceType
  <2>3. j \in 1 .. e
    BY <1>1, <1>4, <2>1, <2>2
  <2> QED
    BY <2>1, <2>3 DEF Range
<1> QED
  BY <1>2, <1>3, <1>4 DEF L

(* A sorted set is ordered by score and member, in either direction; the code's *)
(* comparator gives the direction of the board.                                 *)
LEMMA BoardOrder ==
  ASSUME TypeOK
  PROVE  /\ Ordered(Present, ByScore) /\ Ordered(Present, ByScoreRev)
         /\ Ordered(Present, ZOrder) /\ InOrder = ZOrder
<1>1. /\ IsFiniteSet(Present) /\ Present \subseteq Int
      /\ \A m \in Present : z[m] \in Int
  <2>1. IsFiniteSet(Members) /\ Members \subseteq Int
    BY MembersAssumption
  <2>2. Present \in SUBSET Members
    BY DEF Present
  <2> QED
    BY <2>1, <2>2, FS_Subset DEF Present, TypeOK, Stored
<1>2. \A a, b \in Present : <<a, b>> \in ByScore <=> z[a] < z[b] \/ (z[a] = z[b] /\ a < b)
  BY DEF ByScore
<1>3. \A a, b \in Present : <<a, b>> \in ByScoreRev <=> <<b, a>> \in ByScore
  BY DEF ByScoreRev
<1>4. Ordered(Present, ByScore)
  <2>1. \A a \in Present : <<a, a>> \notin ByScore
    BY <1>1, <1>2
  <2>2. ASSUME NEW a \in Present, NEW b \in Present, NEW c \in Present,
               <<a, b>> \in ByScore, <<b, c>> \in ByScore
        PROVE  <<a, c>> \in ByScore
    <3>1. /\ a \in Int /\ b \in Int /\ c \in Int
          /\ z[a] \in Int /\ z[b] \in Int /\ z[c] \in Int
      BY <1>1
    <3> QED
      BY <1>2, <2>2, <3>1
  <2>3. ASSUME NEW a \in Present, NEW b \in Present
        PROVE  a = b \/ <<a, b>> \in ByScore \/ <<b, a>> \in ByScore
    <3>1. a \in Int /\ b \in Int /\ z[a] \in Int /\ z[b] \in Int
      BY <1>1
    <3>2. z[a] < z[b] \/ z[b] < z[a] \/ (z[a] = z[b] /\ (a < b \/ b < a \/ a = b))
      BY <3>1
    <3> QED
      BY <1>2, <3>2
  <2> QED
    BY <1>1, <2>1, <2>2, <2>3 DEF Ordered
<1>5. Ordered(Present, ByScoreRev)
  BY <1>3, <1>4 DEF Ordered
<1>6. InOrder = ZOrder
  <2>1. ASSUME NEW a \in Present, NEW b \in Present
        PROVE  lessInOrder(a, b) <=> <<a, b>> \in ZOrder
    <3>0. a \in Int /\ b \in Int /\ z[a] \in Int /\ z[b] \in Int
      BY <1>1
    <3>1. CASE Asc
      <4>1. lessInOrder(a, b) <=> z[a] < z[b] \/ (z[a] = z[b] /\ a < b)
        BY <3>0, <3>1 DEF lessInOrder, Better
      <4> QED
        BY <1>2, <3>1, <4>1 DEF ZOrder
    <3>2. CASE ~ Asc
      <4>1. lessInOrder(a, b) <=> z[b] < z[a] \/ (z[b] = z[a] /\ b < a)
        BY <3>0, <3>2 DEF lessInOrder, Better
      <4> QED
        BY <1>2, <1>3, <3>2, <4>1 DEF ZOrder
    <3> QED
      BY <3>1, <3>2
  <2>2. ZOrder \subseteq Present \X Present
    BY DEF ZOrder, ByScore, ByScoreRev
  <2>3. \A a, b \in Present : <<a, b>> \in InOrder <=> lessInOrder(a, b)
    BY DEF InOrder
  <2>4. InOrder \subseteq Present \X Present
    BY DEF InOrder
  <2> QED
    BY <2>1, <2>2, <2>3, <2>4
<1> QED
  BY <1>4, <1>5, <1>6 DEF ZOrder

(* Friends are listed in the order of the board. *)
LEMMA FriendsInOrder ==
  ASSUME TypeOK
  PROVE  FriendsAgree
<1> SUFFICES ASSUME NEW S \in SUBSET Members, NEW m \in S \cap Present, NEW n \in S \cap Present
             PROVE  Position(FriendRank(S), m) < Position(FriendRank(S), n)
                      <=> GetRank(m) < GetRank(n)
  BY DEF FriendsAgree
<1> DEFINE F == S \cap Present
<1>1. Ordered(Present, ZOrder) /\ InOrder = ZOrder
  BY BoardOrder
<1>2. F \in SUBSET Present /\ m \in Present /\ n \in Present /\ m \in F /\ n \in F
  OBVIOUS
<1>3. FriendRank(S) = Listing(F, ZOrder)
  BY <1>1 DEF FriendRank, Sorted
<1> HIDE DEF F
<1>4. Ordered(F, ZOrder)
  BY <1>1, <1>2, OrderedPart
<1>5. /\ Position(FriendRank(S), m) = Place(F, ZOrder, m)
      /\ Position(FriendRank(S), n) = Place(F, ZOrder, n)
  BY <1>2, <1>3, <1>4, PositionIsPlace
<1>6. <<m, n>> \in ZOrder <=> Place(F, ZOrder, m) < Place(F, ZOrder, n)
  BY <1>2, <1>4, PlaceOrder
<1>7. <<m, n>> \in ZOrder <=> Place(Present, ZOrder, m) < Place(Present, ZOrder, n)
  BY <1>1, <1>2, PlaceOrder
<1>8. Place(Present, ZOrder, m) \in Int /\ Place(Present, ZOrder, n) \in Int
  BY <1>1, <1>2, PlaceType
<1> QED
  BY <1>5, <1>6, <1>7, <1>8 DEF GetRank

(* How far entries .. b of a listing of S reach, and the elements in n places *)
(* from a of P being those in the places from c of C.                         *)
End(S, b) == IF b < Cardinality(S) THEN b + 1 ELSE Cardinality(S)

SameEntries(P, C, R, a, c, n) ==
  \A x \in P : Place(P, R, x) \in a .. a + n - 1 =>
                 x \in C /\ Place(C, R, x) = Place(P, R, x) - a + c

(* A slice of a listing, by the number of its entries. *)
LEMMA SliceOfListing ==
  ASSUME NEW S, NEW R, Ordered(S, R), NEW a \in Nat, NEW b \in Nat, NEW n \in Int,
         End(S, b) - a = n
  PROVE  /\ Slice(Listing(S, R), a, b) = [i \in 1 .. n |-> Listing(S, R)[a + i]]
         /\ \A i \in 1 .. n : a + i \in 1 .. Cardinality(S)
<1>1. Len(Listing(S, R)) = Cardinality(S) /\ Cardinality(S) \in Nat
  BY ListingPlaces
<1>2. \A i \in 1 .. n : a + i \in 1 .. Cardinality(S)
  BY <1>1 DEF End
<1> QED
  BY <1>1, <1>2 DEF Slice, End

(* Two slices of one order are the same when the places they cover hold the   *)
(* same elements.                                                             *)
LEMMA SameSlice ==
  ASSUME NEW P, NEW C, NEW R, Ordered(P, R), Ordered(C, R),
         NEW a \in Nat, NEW b \in Nat, NEW c \in Nat, NEW d \in Nat, NEW n \in Int,
         End(P, b) - a = n, End(C, d) - c = n, SameEntries(P, C, R, a, c, n)
  PROVE  Slice(Listing(P, R), a, b) = Slice(Listing(C, R), c, d)
<1> DEFINE LP == Listing(P, R)
           LC == Listing(C, R)
<1>1. /\ Slice(LP, a, b) = [i \in 1 .. n |-> LP[a + i]]
      /\ \A i \in 1 .. n : a + i \in 1 .. Cardinality(P)
  BY SliceOfListing
<1>2. /\ Slice(LC, c, d) = [i \in 1 .. n |-> LC[c + i]]
      /\ \A i \in 1 .. n : c + i \in 1 .. Cardinality(C)
  BY SliceOfListing
<1>3. \A i \in 1 .. Cardinality(P) : LP[i] \in P /\ Place(P, R, LP[i]) = i - 1
  BY ListingPlaces
<1>4. \A m \in C : LC[Place(C, R, m) + 1] = m
  BY ListingPlaces
<1> HIDE DEF LP, LC
<1>5. ASSUME NEW i \in 1 .. n PROVE LP[a + i] = LC[c + i]
  <2>0. a + i \in 1 .. Cardinality(P)
    BY <1>1
  <2>1. PICK x \in P : x = LP[a + i] /\ Place(P, R, x) = (a + i) - 1
    BY <1>3, <2>0, Zenon
  <2>2. (a + i) - 1 \in a .. a + n - 1 /\ ((a + i) - 1) - a + c = (c + i) - 1
    OBVIOUS
  <2>3. x \in C /\ Place(C, R, x) = (c + i) - 1
    BY <2>1, <2>2 DEF SameEntries
  <2>4. LC[((c + i) - 1) + 1] = x
    BY <1>4, <2>3
  <2>5. ((c + i) - 1) + 1 = c + i
    OBVIOUS
  <2> QED
    BY <2>1, <2>4, <2>5
<1> QED
  BY <1>1, <1>2, <1>5 DEF LP, LC

(* An element's place in a part that has all of its predecessors. *)
LEMMA SamePlace ==
  ASSUME NEW P, NEW R, NEW C \in SUBSET P, NEW x \in C, \A y \in P : <<y, x>> \in R => y \in C
  PROVE  Place(C, R, x) = Place(P, R, x)
<1>1. {n \in C : <<n, x>> \in R} = {n \in P : <<n, x>> \in R}
  OBVIOUS
<1> QED
  BY <1>1 DEF Place

(* A part that has the first stop + 1 elements gives the same slices up to stop. *)
LEMMA SamePrefix ==
  ASSUME NEW P, NEW R, Ordered(P, R), NEW C \in SUBSET P, NEW start \in Nat, NEW stop \in Nat,
         \A x \in P : Place(P, R, x) <= stop => x \in C
  PROVE  Slice(Listing(P, R), start, stop) = Slice(Listing(C, R), start, stop)
<1>1. Ordered(C, R)
  BY OrderedPart
<1>2. Cardinality(P) \in Nat /\ Cardinality(C) \in Nat /\ Cardinality(C) <= Cardinality(P)
  BY <1>1, FS_CardinalityType, FS_Subset DEF Ordered
<1>3. ASSUME NEW x \in P, Place(P, R, x) <= stop
      PROVE  x \in C /\ Place(C, R, x) = Place(P, R, x)
  <2>1. x \in C
    BY <1>3
  <2>2. ASSUME NEW y \in P, <<y, x>> \in R PROVE y \in C
    <3>1. Place(P, R, y) < Place(P, R, x)
      BY <2>2, PlaceGrows
    <3>2. Place(P, R, y) \in Int /\ Place(P, R, x) \in Int
      BY PlaceType
    <3> QED
      BY <1>3, <3>1, <3>2
  <2> QED
    BY <2>1, <2>2, SamePlace
<1> DEFINE n == End(P, stop) - start
<1>4. End(C, stop) = End(P, stop)
  <2>1. CASE stop < Cardinality(P)
    <3>1. PICK x \in P : Place(P, R, x) = stop
      <4>1. stop \in 0 .. Cardinality(P) - 1
        BY <1>2, <2>1
      <4> QED
        BY <4>1, PlaceTaken
    <3>2. x \in C /\ Place(C, R, x) = stop
      BY <1>3, <3>1
    <3>3. stop \in 0 .. Cardinality(C) - 1
      BY <1>1, <3>2, PlaceType
    <3> QED
      BY <1>2, <2>1, <3>3 DEF End
  <2>2. CASE stop >= Cardinality(P)
    <3>1. ASSUME NEW x \in P PROVE x \in C
      <4>1. Place(P, R, x) \in 0 .. Cardinality(P) - 1
        BY PlaceType
      <4> QED
        BY <1>2, <2>2, <4>1
    <3>2. C = P
      BY <3>1
    <3> QED
      BY <3>2
  <2> QED
    BY <1>2, <2>1, <2>2
<1>5. n \in Int
  BY <1>2 DEF End
<1>6. ASSUME NEW x \in P, Place(P, R, x) \in start .. start + n - 1
      PROVE  x \in C /\ Place(C, R, x) = Place(P, R, x) - start + start
  <2>1. Place(P, R, x) \in Int /\ Place(P, R, x) <= stop
    BY <1>2, <1>6 DEF End
  <2>2. Place(P, R, x) - start + start = Place(P, R, x)
    BY <2>1
  <2> QED
    BY <1>3, <2>1, <2>2
<1> HIDE DEF n
<1>7. End(P, stop) - start = n /\ End(C, stop) - start = n
  BY <1>4 DEF n
<1>8. SameEntries(P, C, R, start, start, n)
  BY <1>6 DEF SameEntries
<1> QED
  BY <1>1, <1>5, <1>7, <1>8, SameSlice

(* A set of naturals that is not empty has a least element: induction over    *)
(* the naturals, as the absence of a least counterexample.                    *)
LEMMA LeastNatural ==
  ASSUME NEW T, T \subseteq Nat, T # {}
  PROVE  \E n \in T : \A m \in T : n <= m
<1>1. PICK n \in T : \A m \in T : <<m, n>> \notin OpToRel(<, Nat)
  BY WFMin, NatLessThanWellFounded
<1>2. \A m \in T : ~ (m < n)
  BY <1>1 DEF OpToRel
<1>3. n \in T
  BY <1>1
<1>4. \A m \in T : n <= m
  BY <1>2, <1>3, SMT
<1> QED
  BY <1>3, <1>4

(* The recursion of Total. *)
IsTotal(f, n, u) == u = [i \in 0 .. n |-> IF i = 0 THEN 0 ELSE u[i - 1] + f[i - 1]]

(* The elements of S that g puts below i, and those it puts at i. *)
Below(S, g, i) == {x \in S : g[x] \in 0 .. i - 1}
At(S, g, i)    == {x \in S : g[x] = i}

LEMMA BelowGrows ==
  ASSUME NEW S, IsFiniteSet(S), NEW g \in [S -> Int], NEW i \in Nat \ {0}
  PROVE  /\ Cardinality(Below(S, g, i)) =
              Cardinality(Below(S, g, i - 1)) + Cardinality(At(S, g, i - 1))
         /\ Below(S, g, 0) = {}
         /\ Cardinality(Below(S, g, i)) \in Nat /\ Cardinality(At(S, g, i - 1)) \in Nat
<1> DEFINE B == Below(S, g, i - 1)
           A == At(S, g, i - 1)
<1>1. /\ B \in SUBSET S /\ A \in SUBSET S /\ Below(S, g, i) \in SUBSET S
      /\ Below(S, g, i) = B \cup A /\ B \cap A = {} /\ Below(S, g, 0) = {}
  BY DEF Below, At
<1> HIDE DEF A, B
<1>2. IsFiniteSet(A) /\ IsFiniteSet(B) /\ IsFiniteSet(Below(S, g, i))
  BY <1>1, FS_Subset
<1>3. Cardinality(B \cup A) = Cardinality(B) + Cardinality(A) - Cardinality(B \cap A)
  BY <1>2, FS_Union
<1>4. /\ Cardinality(A) \in Nat /\ Cardinality(B) \in Nat /\ Cardinality(Below(S, g, i)) \in Nat
      /\ Cardinality(B \cap A) = 0
  BY <1>1, <1>2, FS_CardinalityType, FS_EmptySet
<1> QED
  BY <1>1, <1>3, <1>4 DEF A, B

(* Summing the sizes of the classes of a finite set counts its elements. *)
LEMMA TotalCounts ==
  ASSUME NEW S, IsFiniteSet(S), NEW g \in [S -> Int], NEW n \in Nat, NEW f,
         \A i \in 0 .. n - 1 : f[i] = Cardinality(At(S, g, i))
  PROVE  Total(f, n) = Cardinality(Below(S, g, n))
<1> DEFINE w == [i \in 0 .. n |-> Cardinality(Below(S, g, i))]
<1>1. ASSUME NEW i \in 1 .. n
      PROVE  /\ Cardinality(Below(S, g, i)) = Cardinality(Below(S, g, i - 1)) + f[i - 1]
             /\ i - 1 \in 0 .. n
  <2>1. i \in Nat \ {0} /\ i - 1 \in 0 .. n - 1 /\ i - 1 \in 0 .. n
    OBVIOUS
  <2>2. f[i - 1] = Cardinality(At(S, g, i - 1))
    BY <2>1
  <2> QED
    BY <2>1, <2>2, BelowGrows
<1>2. Cardinality(Below(S, g, 0)) = 0
  <2>1. Below(S, g, 0) = {}
    BY DEF Below
  <2> QED
    BY <2>1, FS_EmptySet
<1>3. ASSUME NEW i \in 0 .. n
      PROVE  w[i] = IF i = 0 THEN 0 ELSE w[i - 1] + f[i - 1]
  <2>1. CASE i = 0
    BY <1>2, <2>1
  <2>2. CASE i # 0
    <3>1. i \in 1 .. n
      BY <2>2
    <3>2. w[i] = Cardinality(Below(S, g, i)) /\ w[i - 1] = Cardinality(Below(S, g, i - 1))
      BY <1>1, <3>1
    <3> QED
      BY <1>1, <2>2, <3>1, <3>2
  <2> QED
    BY <2>1, <2>2
<1>4. IsTotal(f, n, w)
  BY <1>3 DEF IsTotal
<1> HIDE DEF w
<1>5. \E u : IsTotal(f, n, u)
  BY <1>4
<1> DEFINE v == CHOOSE u : IsTotal(f, n, u)
<1>6. IsTotal(f, n, v) /\ Total(f, n) = v[n]
  <2>1. IsTotal(f, n, v)
    BY <1>5
  <2>2. Total(f, n) = v[n]
    BY Zenon DEF Total, IsTotal
  <2> QED
    BY <2>1, <2>2
<1> HIDE DEF v
<1>7. \A i \in 0 .. n : v[i] = IF i = 0 THEN 0 ELSE v[i - 1] + f[i - 1]
  BY <1>6 DEF IsTotal
<1> DEFINE T == {i \in 0 .. n : v[i] # Cardinality(Below(S, g, i))}
<1>8. T = {}
  <2> SUFFICES ASSUME T # {} PROVE FALSE
    OBVIOUS
  <2>1. T \subseteq Nat
    OBVIOUS
  <2>2. PICK i \in T : \A j \in T : i <= j
    <3> HIDE DEF T
    <3> QED
      BY <2>1, LeastNatural
  <2>3. i \in 0 .. n /\ v[i] # Cardinality(Below(S, g, i))
    OBVIOUS
  <2>4. i # 0
    BY <1>2, <1>7, <2>3
  <2>5. i \in 1 .. n /\ i - 1 \in 0 .. n /\ ~ (i <= i - 1)
    BY <2>3, <2>4
  <2>6. i - 1 \notin T
    <3> HIDE DEF T
    <3> QED
      BY <2>2, <2>5
  <2>7. v[i - 1] = Cardinality(Below(S, g, i - 1))
    BY <2>5, <2>6
  <2> HIDE DEF T
  <2>8. v[i] = v[i - 1] + f[i - 1]
    BY <1>7, <2>3, <2>4
  <2> QED
    BY <1>1, <2>3, <2>5, <2>7, <2>8
<1>9. n \in 0 .. n
  OBVIOUS
<1> QED
  BY <1>6, <1>8, <1>9

(* The pages of the merged shards are those of one sorted set. *)
LEMMA MergedPages ==
  ASSUME TypeOK, NEW start \in Nat, NEW stop \in Nat
  PROVE  rangeMerged(start, stop) = rangeByRank(start, stop)
<1> DEFINE C == UNION {Range(shardRange(i, stop)) : i \in Shards}
<1>1. Ordered(Present, ZOrder) /\ InOrder = ZOrder
  BY BoardOrder
<1>2. ASSUME NEW i \in Shards
      PROVE  /\ Ordered(InShard(i), ZOrder) /\ InShard(i) \in SUBSET Present
             /\ shardRange(i, stop) = Slice(Listing(InShard(i), ZOrder), 0, stop)
  <2>1. InShard(i) \in SUBSET Present
    BY DEF InShard
  <2> QED
    BY <1>1, <2>1, OrderedPart DEF shardRange, ZRange
<1>3. C \in SUBSET Present
  <2>1. ASSUME NEW i \in Shards PROVE Range(shardRange(i, stop)) \subseteq Present
    BY <1>2, FirstEntries
  <2> QED
    BY <2>1
<1>4. ASSUME NEW x \in Present, Place(Present, ZOrder, x) <= stop
      PROVE  x \in C
  <2>1. ShardOf[x] \in Shards
    BY ShardAssumption DEF Present, Shards
  <2>2. PICK i \in Shards : x \in InShard(i)
    BY <2>1 DEF InShard
  <2>3. /\ IsFiniteSet(Preds(Present, ZOrder, x))
        /\ Place(Present, ZOrder, x) = Cardinality(Preds(Present, ZOrder, x))
        /\ Place(InShard(i), ZOrder, x) = Cardinality(Preds(InShard(i), ZOrder, x))
        /\ Place(Present, ZOrder, x) \in Int /\ Place(InShard(i), ZOrder, x) \in Int
    BY <1>1, <1>2, <2>2, PlaceType
  <2>4. Preds(InShard(i), ZOrder, x) \in SUBSET Preds(Present, ZOrder, x)
    BY <1>2 DEF Preds
  <2>5. Place(InShard(i), ZOrder, x) <= Place(Present, ZOrder, x)
    BY <2>3, <2>4, FS_Subset
  <2>6. Place(InShard(i), ZOrder, x) <= stop
    BY <1>4, <2>3, <2>5
  <2>7. x \in Range(shardRange(i, stop))
    BY <1>2, <2>2, <2>6, FirstEntries
  <2> QED
    BY <2>7
<1>5. rangeMerged(start, stop) = IF stop < start THEN << >> ELSE Slice(Listing(C, ZOrder), start, stop)
  BY <1>1 DEF rangeMerged, Sorted
<1> HIDE DEF C
<1>6. Slice(Listing(Present, ZOrder), start, stop) = Slice(Listing(C, ZOrder), start, stop)
  BY <1>1, <1>3, <1>4, SamePrefix
<1> QED
  BY <1>5, <1>6 DEF rangeByRank, ZRange

(* The shards' sizes add up to the size of the board. *)
LEMMA ShardsCount ==
  ASSUME TypeOK
  PROVE  Count = Len(ZRange(Present))
<1> DEFINE g == [m \in Present |-> ShardOf[m]]
           f == [i \in Shards |-> Cardinality(InShard(i))]
<1>1. Ordered(Present, ZOrder) /\ NShards \in Nat \ {0}
  BY BoardOrder, ShardAssumption
<1>2. /\ g \in [Present -> Int]
      /\ Below(Present, g, NShards) = Present
  BY ShardAssumption DEF Present, Below
<1>3. ASSUME NEW i \in 0 .. NShards - 1 PROVE f[i] = Cardinality(At(Present, g, i))
  <2>1. InShard(i) = At(Present, g, i)
    BY DEF InShard, At
  <2> QED
    BY <2>1 DEF Shards
<1>4. Count = Total(f, NShards)
  BY DEF Count
<1> HIDE DEF f, g
<1>5. IsFiniteSet(Present)
  BY <1>1 DEF Ordered
<1>6. Total(f, NShards) = Cardinality(Present)
  BY <1>1, <1>2, <1>3, <1>5, TotalCounts
<1>7. Len(Listing(Present, ZOrder)) = Cardinality(Present)
  BY <1>1, ListingPlaces
<1> QED
  BY <1>4, <1>6, <1>7 DEF ZRange

(* Pages of a sharded board in every state. *)
LEMMA PagesExact ==
  ASSUME TypeOK
  PROVE  ShardedPagesExact
<1>1. Size \in Nat
  BY MembersAssumption, FS_CardinalityType DEF Size
<1>2. ASSUME NEW start \in 0 .. Size, NEW stop \in 0 .. Size
      PROVE  rangeMerged(start, stop) = rangeByRank(start, stop)
  <2>1. start \in Nat /\ stop \in Nat
    BY <1>1
  <2> QED
    BY <2>1, MergedPages
<1> QED
  BY <1>2, ShardsCount DEF ShardedPagesExact

(* Division by a positive number keeps the order. *)
LEMMA DivMonotone ==
  ASSUME NEW a \in Int, NEW b \in Int, NEW d \in Nat \ {0}, a <= b
  PROVE  a \div d <= b \div d
<1>1. PICK p \in Int, q \in Int : p = a \div d /\ q = b \div d
  OBVIOUS
<1>2. p * d <= a /\ a < p * d + d /\ q * d <= b /\ b < q * d + d
  BY <1>1
<1>3. ASSUME q < p PROVE FALSE
  <2>1. q * d + d <= p * d /\ q * d \in Int /\ p * d \in Int
    BY <1>3, ScaleApart
  <2> QED
    BY <1>2, <2>1
<1> QED
  BY <1>1, <1>3

(* A larger stored score never decodes to a smaller bucket. *)
LEMMA BucketMonotone ==
  ASSUME TypeOK, NEW x \in Int, NEW y \in Int, x <= y
  PROVE  bucketIndex(decode(x)) <= bucketIndex(decode(y))
<1> DEFINE u == decode(x)
           v == decode(y)
<1>1. u \in Int /\ v \in Int /\ u <= v
  <2>1. u \in Int /\ v \in Int
    BY CodecType
  <2>2. u <= v
    <3> DEFINE K == 2^timeBits
    <3>1. K \in Nat \ {0}
      BY PowerAssumption
    <3>2. /\ u = IF TieBreak # "firstToReach" THEN x ELSE x \div K
          /\ v = IF TieBreak # "firstToReach" THEN y ELSE y \div K
      BY DEF decode
    <3> HIDE DEF K, u, v
    <3>3. x \div K <= y \div K
      BY <3>1, DivMonotone
    <3> QED
      BY <3>2, <3>3
  <2> QED
    BY <2>1, <2>2
<1> HIDE DEF u, v
<1>2. /\ ApproxMin \in Int /\ ApproxMax \in Int /\ ApproxMax > ApproxMin
      /\ ApproxBuckets \in Nat \ {0}
  BY ConfigAssumption
<1>3. /\ bucketIndex(u) \in 0 .. ApproxBuckets - 1
      /\ bucketIndex(v) \in 0 .. ApproxBuckets - 1
  BY <1>1, BucketType DEF Buckets
<1>4. bucketIndex(u) <= bucketIndex(v)
  <2>1. CASE u <= ApproxMin
    <3>1. bucketIndex(u) = 0
      BY <2>1 DEF bucketIndex
    <3> QED
      BY <1>2, <1>3, <3>1
  <2>2. CASE v >= ApproxMax /\ v > ApproxMin
    <3>1. bucketIndex(v) = ApproxBuckets - 1
      BY <1>1, <1>2, <2>2 DEF bucketIndex
    <3> QED
      BY <1>2, <1>3, <3>1
  <2>3. CASE u > ApproxMin /\ v < ApproxMax
    <3>1. PICK a \in Nat, b \in Nat, R \in Nat \ {0}, B \in Nat \ {0} :
            a = u - ApproxMin /\ b = v - ApproxMin /\ R = ApproxMax - ApproxMin /\ B = ApproxBuckets
      <4>1. u - ApproxMin \in Nat /\ v - ApproxMin \in Nat /\ ApproxMax - ApproxMin \in Nat \ {0}
        BY <1>1, <1>2, <2>3
      <4> QED
        BY <1>2, <4>1
    <3>2. a <= b
      BY <1>1, <1>2, <3>1
    <3>3. bucketIndex(u) = (a * B) \div R /\ bucketIndex(v) = (b * B) \div R
      BY <1>1, <1>2, <2>3, <3>1 DEF bucketIndex
    <3>4. a * B \in Int /\ b * B \in Int /\ a * B <= b * B
      <4>1. CASE a = b
        BY <4>1
      <4>2. CASE a < b
        BY <4>2, ScaleApart
      <4> QED
        BY <3>2, <4>1, <4>2
    <3>5. (a * B) \div R <= (b * B) \div R
      BY <3>4, DivMonotone
    <3> QED
      BY <3>3, <3>5
  <2> QED
    BY <1>1, <1>2, <2>1, <2>2, <2>3
<1> QED
  BY <1>4 DEF u, v

BucketOf(m) == bucketIndex(decode(z[m]))

(* With exact histograms the approximate rank is one more than the number of *)
(* members in the buckets ahead.                                             *)
LEMMA ApproxCounts ==
  ASSUME TypeOK, HistogramExact, NEW m \in Present
  PROVE  approxRank(m) = 1 + Cardinality({n \in Present : BucketOf(n) \in Ahead(BucketOf(m))})
<1> DEFINE counts == [b \in Buckets |-> Total([i \in Shards |-> h[i][b]], NShards)]
           Q == Ahead(BucketOf(m))
           A == {n \in Present : BucketOf(n) \in Q}
           g == [n \in A |-> BucketOf(n)]
           f == [b \in Buckets |-> IF b \in Q THEN counts[b] ELSE 0]
<1>0. /\ IsFiniteSet(Present) /\ \A n \in Present : z[n] \in Int /\ ShardOf[n] \in 0 .. NShards - 1
      /\ Present \subseteq Members
  BY BoardOrder, ShardAssumption DEF Ordered, Present, TypeOK, Stored
<1>1. \A n \in Present : BucketOf(n) \in 0 .. ApproxBuckets - 1
  BY <1>0, CodecType, BucketType DEF BucketOf, Buckets
<1>2. ApproxBuckets \in Nat /\ NShards \in Nat \ {0}
  BY ConfigAssumption, ShardAssumption
<1>3. ASSUME NEW b \in Buckets
      PROVE  counts[b] = Cardinality({n \in Present : BucketOf(n) = b})
  <2> DEFINE S == {n \in Present : BucketOf(n) = b}
             s == [n \in S |-> ShardOf[n]]
             k == [i \in Shards |-> h[i][b]]
  <2>1. IsFiniteSet(S)
    <3>1. S \in SUBSET Present
      OBVIOUS
    <3> HIDE DEF S
    <3> QED
      BY <1>0, <3>1, FS_Subset
  <2>2. s \in [S -> Int] /\ Below(S, s, NShards) = S
    BY <1>0, <1>2 DEF Below
  <2>3. ASSUME NEW i \in 0 .. NShards - 1 PROVE k[i] = Cardinality(At(S, s, i))
    <3>1. k[i] = Cardinality(Population(i, b))
      BY DEF HistogramExact, Shards
    <3>2. Population(i, b) = At(S, s, i)
      BY DEF Population, At, Present, BucketOf
    <3> QED
      BY <3>1, <3>2
  <2>4. counts[b] = Total(k, NShards)
    OBVIOUS
  <2> HIDE DEF S, s, k, counts
  <2>5. Total(k, NShards) = Cardinality(S)
    BY <1>2, <2>1, <2>2, <2>3, TotalCounts
  <2> QED
    BY <2>4, <2>5 DEF S
<1>4. approxRank(m) = 1 + Total(f, ApproxBuckets)
  BY DEF approxRank, approxRankFromCounts, BucketOf
<1> HIDE DEF counts
<1>5. IsFiniteSet(A)
  <2>1. A \in SUBSET Present
    OBVIOUS
  <2> HIDE DEF A
  <2> QED
    BY <1>0, <2>1, FS_Subset
<1>6. g \in [A -> Int] /\ Below(A, g, ApproxBuckets) = A
  <2> HIDE DEF Q
  <2> QED
    BY <1>1, <1>2 DEF Below
<1>7. ASSUME NEW b \in 0 .. ApproxBuckets - 1 PROVE f[b] = Cardinality(At(A, g, b))
  <2> HIDE DEF Q
  <2>1. CASE b \in Q
    <3>1. At(A, g, b) = {n \in Present : BucketOf(n) = b}
      BY <2>1 DEF At
    <3> QED
      BY <1>3, <2>1, <3>1 DEF Buckets
  <2>2. CASE b \notin Q
    <3>1. At(A, g, b) = {}
      BY <2>2 DEF At
    <3> QED
      BY <2>2, <3>1, FS_EmptySet DEF Buckets
  <2> QED
    BY <2>1, <2>2
<1> HIDE DEF A, g, f
<1>8. Total(f, ApproxBuckets) = Cardinality(A)
  BY <1>2, <1>5, <1>6, <1>7, TotalCounts
<1> QED
  BY <1>4, <1>8 DEF A

(* The approximate rank in every state with exact histograms. *)
LEMMA ApproxBrackets ==
  ASSUME TypeOK
  PROVE  ApproxRankBrackets
<1> SUFFICES ASSUME HistogramExact, NEW m \in Present
             PROVE  LET same == {n \in Present : bucketIndex(decode(z[n])) = bucketIndex(decode(z[m]))}
                    IN approxRank(m) <= GetRank(m) /\ GetRank(m) < approxRank(m) + Cardinality(same)
  BY DEF ApproxRankBrackets
<1> DEFINE same == {n \in Present : BucketOf(n) = BucketOf(m)}
           A == {n \in Present : BucketOf(n) \in Ahead(BucketOf(m))}
           B == Preds(Present, ZOrder, m)
<1>1. Ordered(Present, ZOrder) /\ IsFiniteSet(Present) /\ \A n \in Present : z[n] \in Int
  BY BoardOrder DEF Ordered, Present, TypeOK, Stored
<1>2. /\ IsFiniteSet(B) /\ Place(Present, ZOrder, m) = Cardinality(B)
      /\ GetRank(m) = Cardinality(B) + 1
  BY <1>1, PlaceType DEF GetRank
<1>3. approxRank(m) = 1 + Cardinality(A)
  BY ApproxCounts
<1>4. \A n \in Present : BucketOf(n) \in 0 .. ApproxBuckets - 1
  BY <1>1, CodecType, BucketType DEF BucketOf, Buckets
<1>5. ASSUME NEW n \in Present, <<n, m>> \in ZOrder
      PROVE  BucketOf(n) \in Ahead(BucketOf(m)) \/ BucketOf(n) = BucketOf(m)
  <2>1. CASE Asc
    <3>1. z[n] <= z[m]
      BY <1>1, <1>5, <2>1 DEF ZOrder, ByScore
    <3>2. BucketOf(n) <= BucketOf(m)
      BY <1>1, <3>1, BucketMonotone DEF BucketOf
    <3> QED
      BY <1>4, <2>1, <3>2 DEF Ahead
  <2>2. CASE ~ Asc
    <3>1. z[m] <= z[n]
      BY <1>1, <1>5, <2>2 DEF ZOrder, ByScore, ByScoreRev
    <3>2. BucketOf(m) <= BucketOf(n)
      BY <1>1, <3>1, BucketMonotone DEF BucketOf
    <3> QED
      BY <1>4, <2>2, <3>2 DEF Ahead
  <2> QED
    BY <2>1, <2>2
<1>6. ASSUME NEW n \in Present, BucketOf(n) \in Ahead(BucketOf(m))
      PROVE  <<n, m>> \in ZOrder
  <2>1. CASE Asc
    <3>1. BucketOf(n) < BucketOf(m)
      BY <1>4, <1>6, <2>1 DEF Ahead
    <3>2. ~ (z[m] <= z[n])
      <4> SUFFICES ASSUME z[m] <= z[n] PROVE FALSE
        OBVIOUS
      <4>1. BucketOf(m) <= BucketOf(n)
        BY <1>1, BucketMonotone DEF BucketOf
      <4> QED
        BY <1>4, <3>1, <4>1
    <3>3. z[n] < z[m]
      BY <1>1, <3>2
    <3> QED
      BY <2>1, <3>3 DEF ZOrder, ByScore
  <2>2. CASE ~ Asc
    <3>1. BucketOf(m) < BucketOf(n)
      BY <1>4, <1>6, <2>2 DEF Ahead
    <3>2. ~ (z[n] <= z[m])
      <4> SUFFICES ASSUME z[n] <= z[m] PROVE FALSE
        OBVIOUS
      <4>1. BucketOf(n) <= BucketOf(m)
        BY <1>1, BucketMonotone DEF BucketOf
      <4> QED
        BY <1>4, <3>1, <4>1
    <3>3. z[m] < z[n]
      BY <1>1, <3>2
    <3> QED
      BY <2>2, <3>3 DEF ZOrder, ByScore, ByScoreRev
  <2> QED
    BY <2>1, <2>2
<1>7. /\ A \in SUBSET B /\ B \in SUBSET (A \cup (same \ {m}))
      /\ A \in SUBSET Present /\ same \in SUBSET Present /\ m \in same
  BY <1>1, <1>5, <1>6 DEF Preds, Ordered
<1>8. same = {n \in Present : bucketIndex(decode(z[n])) = bucketIndex(decode(z[m]))}
  BY DEF BucketOf
<1> HIDE DEF A, B, same
<1>9. IsFiniteSet(A) /\ IsFiniteSet(same)
  BY <1>1, <1>7, FS_Subset
<1>10. /\ Cardinality(A) \in Nat /\ Cardinality(B) \in Nat /\ Cardinality(same) \in Nat
       /\ IsFiniteSet(same \ {m}) /\ Cardinality(same \ {m}) = Cardinality(same) - 1
  BY <1>2, <1>7, <1>9, FS_CardinalityType, FS_RemoveElement
<1>11. Cardinality(A) <= Cardinality(B)
  BY <1>2, <1>7, FS_Subset
<1>12. Cardinality(B) <= Cardinality(A) + (Cardinality(same) - 1)
  <2> DEFINE D == same \ {m}
             E == A \cup D
  <2>1. /\ IsFiniteSet(E)
        /\ Cardinality(E) = Cardinality(A) + Cardinality(D) - Cardinality(A \cap D)
    BY <1>9, <1>10, FS_Union
  <2>2. Cardinality(A \cap D) \in Nat
    BY <1>9, FS_Intersection, FS_CardinalityType
  <2>3. Cardinality(B) <= Cardinality(E) /\ Cardinality(E) \in Nat
    BY <1>7, <2>1, FS_Subset, FS_CardinalityType
  <2> QED
    BY <1>10, <2>1, <2>2, <2>3
<1> QED
  BY <1>2, <1>3, <1>8, <1>10, <1>11, <1>12

(* The places between two elements, a not after b, count the elements from a  *)
(* to b.                                                                      *)
LEMMA PlacesBetween ==
  ASSUME NEW S, NEW R, Ordered(S, R), NEW a \in S, NEW b \in S, <<b, a>> \notin R
  PROVE  /\ Place(S, R, b) - Place(S, R, a) =
              Cardinality({n \in S : <<n, b>> \in R /\ <<n, a>> \notin R})
         /\ IsFiniteSet({n \in S : <<n, b>> \in R /\ <<n, a>> \notin R})
<1> DEFINE A == Preds(S, R, a)
           B == Preds(S, R, b)
           D == {n \in S : <<n, b>> \in R /\ <<n, a>> \notin R}
<1>1. /\ Place(S, R, a) = Cardinality(A) /\ Place(S, R, b) = Cardinality(B)
      /\ IsFiniteSet(A) /\ IsFiniteSet(B)
  BY PlaceType
<1>2. a = b \/ <<a, b>> \in R
  BY DEF Ordered
<1>3. A \in SUBSET B
  BY <1>2 DEF Preds, Ordered
<1>4. D = B \ A /\ B \cap A = A
  BY <1>3 DEF Preds
<1> HIDE DEF A, B
<1>5. IsFiniteSet(B \ A) /\ Cardinality(B \ A) = Cardinality(B) - Cardinality(B \cap A)
  BY <1>1, FS_Difference
<1> QED
  BY <1>1, <1>4, <1>5

(* In the reverse order the distance of two elements is the same. *)
LEMMA ReversePlaces ==
  ASSUME NEW S, NEW R, NEW Q, Ordered(S, R), Ordered(S, Q),
         \A a, b \in S : <<a, b>> \in Q <=> <<b, a>> \in R,
         NEW x \in S
  PROVE  Place(S, R, x) + Place(S, Q, x) = Cardinality(S) - 1
<1> DEFINE A == Preds(S, R, x)
           B == Preds(S, Q, x)
<1>1. /\ Place(S, R, x) = Cardinality(A) /\ Place(S, Q, x) = Cardinality(B)
      /\ IsFiniteSet(A) /\ IsFiniteSet(B)
  BY PlaceType
<1>2. A \cup B = S \ {x} /\ A \cap B = {}
  BY DEF Preds, Ordered
<1> HIDE DEF A, B
<1>3. Cardinality(A \cup B) = Cardinality(A) + Cardinality(B) - Cardinality(A \cap B)
  BY <1>1, FS_Union
<1>4. Cardinality(S \ {x}) = Cardinality(S) - 1
  BY FS_RemoveElement DEF Ordered
<1>5. Cardinality(A) \in Nat /\ Cardinality(B) \in Nat /\ Cardinality(A \cap B) = 0
  BY <1>1, <1>2, FS_CardinalityType, FS_EmptySet
<1>6. Cardinality(A \cup B) = Cardinality(S \ {x})
  BY <1>2
<1> QED
  BY <1>1, <1>3, <1>4, <1>5, <1>6

(* C has every element of P within k places of m. *)
HasWindow(P, C, R, m, k) ==
  \A x \in P :
    Place(P, R, x) <= Place(P, R, m) + k /\ Place(P, R, m) <= Place(P, R, x) + k => x \in C

(* Distances between elements of a window are the same in a part that has it. *)
LEMMA SameDistance ==
  ASSUME NEW P, NEW R, Ordered(P, R), NEW C \in SUBSET P, NEW a \in C, NEW b \in C,
         <<b, a>> \notin R,
         \A x \in P :
           Place(P, R, a) <= Place(P, R, x) /\ Place(P, R, x) <= Place(P, R, b) => x \in C
  PROVE  Place(C, R, b) - Place(C, R, a) = Place(P, R, b) - Place(P, R, a)
<1>1. Ordered(C, R) /\ a \in P /\ b \in P
  BY OrderedPart
<1> DEFINE DC == {n \in C : <<n, b>> \in R /\ <<n, a>> \notin R}
           DP == {n \in P : <<n, b>> \in R /\ <<n, a>> \notin R}
<1>2. Place(C, R, b) - Place(C, R, a) = Cardinality(DC)
  BY <1>1, PlacesBetween
<1>3. Place(P, R, b) - Place(P, R, a) = Cardinality(DP)
  BY <1>1, PlacesBetween
<1>4. ASSUME NEW n \in P, <<n, b>> \in R, <<n, a>> \notin R PROVE n \in C
  <2>1. Place(P, R, n) \in Int /\ Place(P, R, a) \in Int /\ Place(P, R, b) \in Int
    BY <1>1, PlaceType
  <2>2. Place(P, R, n) < Place(P, R, b)
    BY <1>1, <1>4, PlaceOrder
  <2>3. ~ (Place(P, R, n) < Place(P, R, a))
    BY <1>1, <1>4, PlaceOrder
  <2> QED
    BY <2>1, <2>2, <2>3
<1>5. DC = DP
  BY <1>4
<1> QED
  BY <1>2, <1>3, <1>5

(* In a part that has the window around m, the window's elements keep their    *)
(* places, but for one shift.                                                  *)
LEMMA WindowPlaces ==
  ASSUME NEW P, NEW R, Ordered(P, R), NEW C \in SUBSET P, NEW m \in C, NEW k \in Nat,
         HasWindow(P, C, R, m, k), NEW x \in P,
         Place(P, R, x) <= Place(P, R, m) + k, Place(P, R, m) <= Place(P, R, x) + k
  PROVE  x \in C /\ Place(C, R, x) - Place(C, R, m) = Place(P, R, x) - Place(P, R, m)
<1>1. x \in C /\ m \in P /\ Ordered(C, R)
  BY OrderedPart DEF HasWindow
<1>2. /\ Place(P, R, x) \in Int /\ Place(P, R, m) \in Int
      /\ Place(C, R, x) \in Int /\ Place(C, R, m) \in Int
  BY <1>1, PlaceType
<1>3. CASE <<x, m>> \notin R
  <2>1. Place(P, R, m) <= Place(P, R, x)
    BY <1>1, <1>2, <1>3, PlaceOrder
  <2>2. ASSUME NEW y \in P, Place(P, R, m) <= Place(P, R, y), Place(P, R, y) <= Place(P, R, x)
        PROVE  y \in C
    <3>1. Place(P, R, y) \in Int
      BY PlaceType
    <3>2. Place(P, R, y) <= Place(P, R, m) + k /\ Place(P, R, m) <= Place(P, R, y) + k
      BY <1>2, <2>2, <3>1
    <3> QED
      BY <3>2 DEF HasWindow
  <2> QED
    BY <1>1, <1>3, <2>2, SameDistance
<1>4. CASE <<x, m>> \in R
  <2>1. Place(P, R, x) < Place(P, R, m) /\ <<m, x>> \notin R
    BY <1>1, <1>2, <1>4, PlaceOrder
  <2>2. ASSUME NEW y \in P, Place(P, R, x) <= Place(P, R, y), Place(P, R, y) <= Place(P, R, m)
        PROVE  y \in C
    <3>1. Place(P, R, y) \in Int
      BY PlaceType
    <3>2. Place(P, R, y) <= Place(P, R, m) + k /\ Place(P, R, m) <= Place(P, R, y) + k
      BY <1>2, <2>2, <3>1
    <3> QED
      BY <3>2 DEF HasWindow
  <2>3. Place(C, R, m) - Place(C, R, x) = Place(P, R, m) - Place(P, R, x)
    BY <1>1, <2>1, <2>2, SameDistance
  <2> QED
    BY <1>1, <1>2, <2>3
<1> QED
  BY <1>3, <1>4

(* The first place of a window of k around place i. *)
Lo(i, k) == IF i - k < 0 THEN 0 ELSE i - k

(* A part that has the window around m shows the same window. *)
LEMMA SameWindow ==
  ASSUME NEW P, NEW R, Ordered(P, R), NEW C \in SUBSET P, NEW m \in C, NEW k \in Nat,
         HasWindow(P, C, R, m, k)
  PROVE  Around(Listing(C, R), Place(C, R, m), k) =
           Slice(Listing(P, R), Lo(Place(P, R, m), k), Place(P, R, m) + k)
<1>1. Ordered(C, R) /\ m \in P
  BY OrderedPart
<1>2. PICK r \in Nat, s \in Nat, N \in Nat, M \in Nat :
        /\ r = Place(P, R, m) /\ s = Place(C, R, m)
        /\ N = Cardinality(P) /\ M = Cardinality(C)
        /\ r < N /\ s < M
  <2>1. /\ Place(P, R, m) \in 0 .. Cardinality(P) - 1 /\ Cardinality(P) \in Nat
        /\ Place(C, R, m) \in 0 .. Cardinality(C) - 1 /\ Cardinality(C) \in Nat
    BY <1>1, PlaceType
  <2> QED
    BY <2>1
<1>3. ASSUME NEW i \in 0 .. N - 1, i <= r + k, r <= i + k
      PROVE  \E x \in C : x \in P /\ Place(P, R, x) = i /\ Place(C, R, x) = i + (s - r) 
                          /\ Place(C, R, x) \in 0 .. M - 1
  <2>1. PICK x \in P : Place(P, R, x) = i
    BY <1>2, PlaceTaken
  <2>2. x \in C /\ Place(C, R, x) - s = i - r
    <3>1. Place(P, R, x) <= Place(P, R, m) + k /\ Place(P, R, m) <= Place(P, R, x) + k
      BY <1>2, <1>3, <2>1
    <3>2. x \in C /\ Place(C, R, x) - Place(C, R, m) = Place(P, R, x) - Place(P, R, m)
      BY <3>1, WindowPlaces
    <3> QED
      BY <1>2, <2>1, <3>2
  <2>3. Place(C, R, x) \in 0 .. M - 1
    BY <1>1, <1>2, <2>2, PlaceType
  <2>4. Place(C, R, x) = i + (s - r)
    BY <1>2, <2>2, <2>3
  <2> QED
    BY <2>1, <2>2, <2>3, <2>4
(* The window starts with the k-th element before m, or with the first one. *)
<1>4. Lo(s, k) - s = Lo(r, k) - r /\ Lo(s, k) \in Nat /\ Lo(r, k) \in Nat
  <2>1. CASE r >= k
    <3>1. s >= k
      <4>1. PICK x \in C : Place(C, R, x) = (r - k) + (s - r) /\ Place(C, R, x) \in 0 .. M - 1
        <5>1. r - k \in 0 .. N - 1 /\ r - k <= r + k /\ r <= (r - k) + k
          BY <1>2, <2>1
        <5> QED
          BY <1>3, <5>1
      <4> QED
        BY <1>2, <4>1
    <3> QED
      BY <1>2, <2>1, <3>1 DEF Lo
  <2>2. CASE r < k
    <3>1. PICK x \in C : x \in P /\ Place(P, R, x) = 0 /\ Place(C, R, x) = 0 + (s - r)
      <4>1. 0 \in 0 .. N - 1 /\ 0 <= r + k /\ r <= 0 + k
        BY <1>2, <2>2
      <4> QED
        BY <1>3, <4>1
    <3>2. ASSUME NEW y \in P PROVE <<y, x>> \notin R
      <4>1. Place(P, R, y) \in 0 .. Cardinality(P) - 1
        BY PlaceType
      <4>2. ~ (Place(P, R, y) < Place(P, R, x))
        BY <1>2, <3>1, <4>1
      <4> QED
        BY <3>1, <4>2, PlaceOrder
    <3>3. Place(C, R, x) = Place(P, R, x)
      BY <3>1, <3>2, SamePlace
    <3>4. 0 + (s - r) = 0
      BY <3>1, <3>3
    <3>5. s = r
      BY <3>4
    <3> QED
      BY <1>2, <2>2, <3>5 DEF Lo
  <2> QED
    BY <1>2, <2>1, <2>2
(* It ends with the k-th element after m, or with the last one. *)
<1>5. End(C, s + k) - s = End(P, r + k) - r /\ End(P, r + k) \in Int
  <2>1. CASE r + k < N
    <3>1. PICK x \in C : Place(C, R, x) = (r + k) + (s - r) /\ Place(C, R, x) \in 0 .. M - 1
      <4>1. r + k \in 0 .. N - 1 /\ r + k <= r + k /\ r <= (r + k) + k
        BY <1>2, <2>1
      <4> QED
        BY <1>3, <4>1
    <3>2. s + k < M
      BY <1>2, <3>1
    <3> QED
      BY <1>2, <2>1, <3>2 DEF End
  <2>2. CASE r + k >= N
    <3>1. PICK x \in C : x \in P /\ Place(P, R, x) = N - 1 /\ Place(C, R, x) = (N - 1) + (s - r)
      <4>1. N - 1 \in 0 .. N - 1 /\ N - 1 <= r + k /\ r <= (N - 1) + k
        BY <1>2, <2>2
      <4> QED
        BY <1>3, <4>1
    <3>2. Place(C, R, x) = M - 1
      <4>1. PICK y \in C : Place(C, R, y) = M - 1
        <5>1. M - 1 \in 0 .. M - 1
          BY <1>2
        <5> QED
          BY <1>1, <1>2, <5>1, PlaceTaken
      <4>2. /\ Place(P, R, y) \in 0 .. N - 1 /\ Place(C, R, x) \in 0 .. M - 1
        BY <1>1, <1>2, PlaceType
      <4>3. ~ (Place(P, R, x) < Place(P, R, y))
        BY <1>2, <3>1, <4>2
      <4>4. <<x, y>> \notin R
        BY <3>1, <4>3, PlaceOrder
      <4>5. ~ (Place(C, R, x) < Place(C, R, y))
        BY <1>1, <4>4, PlaceOrder
      <4> QED
        BY <1>2, <4>1, <4>2, <4>5
    <3>3. M = N + (s - r)
      BY <1>2, <3>1, <3>2
    <3> QED
      BY <1>2, <2>2, <3>3 DEF End
  <2> QED
    BY <1>2, <2>1, <2>2
<1> DEFINE n == End(P, r + k) - Lo(r, k)
<1>6. n \in Int /\ End(P, r + k) - Lo(r, k) = n /\ End(C, s + k) - Lo(s, k) = n
  <2>1. End(C, s + k) \in Int
    BY <1>2 DEF End
  <2> QED
    BY <1>2, <1>4, <1>5, <2>1
<1>7. SameEntries(P, C, R, Lo(r, k), Lo(s, k), n)
  <2> SUFFICES ASSUME NEW x \in P, Place(P, R, x) \in Lo(r, k) .. Lo(r, k) + n - 1
               PROVE  x \in C /\ Place(C, R, x) = Place(P, R, x) - Lo(r, k) + Lo(s, k)
    BY DEF SameEntries
  <2>1. Place(P, R, x) \in Int /\ r - k <= Place(P, R, x) /\ Place(P, R, x) <= r + k
    BY <1>2, <1>4 DEF Lo, End
  <2>2. x \in C /\ Place(C, R, x) - s = Place(P, R, x) - r
    <3>1. Place(P, R, x) <= Place(P, R, m) + k /\ Place(P, R, m) <= Place(P, R, x) + k
      BY <1>2, <2>1
    <3>2. x \in C /\ Place(C, R, x) - Place(C, R, m) = Place(P, R, x) - Place(P, R, m)
      BY <3>1, WindowPlaces
    <3> QED
      BY <1>2, <3>2
  <2>3. Place(C, R, x) \in Int
    BY <1>1, <2>2, PlaceType
  <2> QED
    BY <1>4, <2>1, <2>2, <2>3
<1> HIDE DEF n
<1>8. r + k \in Nat /\ s + k \in Nat
  BY <1>2
<1>9. Slice(Listing(P, R), Lo(r, k), r + k) = Slice(Listing(C, R), Lo(s, k), s + k)
  BY <1>1, <1>4, <1>6, <1>7, <1>8, SameSlice
<1>10. Around(Listing(C, R), s, k) = Slice(Listing(C, R), Lo(s, k), s + k)
  BY DEF Around, Lo
<1> QED
  BY <1>2, <1>9, <1>10

(* Of a set on one side of m, the first k + 1 elements include every one that  *)
(* is within k places of m in the whole order.                                 *)
LEMMA NearSide ==
  ASSUME NEW P, NEW R, Ordered(P, R), NEW S \in SUBSET P, NEW m \in P, NEW k \in Nat,
         \A n \in S : <<n, m>> \notin R,
         NEW x \in S, Place(P, R, x) <= Place(P, R, m) + k
  PROVE  x \in Range(Slice(Listing(S, R), 0, k))
<1>1. Ordered(S, R) /\ x \in P /\ <<x, m>> \notin R
  BY OrderedPart
<1> DEFINE D == {n \in P : <<n, x>> \in R /\ <<n, m>> \notin R}
           A == Preds(S, R, x)
<1>2. Place(P, R, x) - Place(P, R, m) = Cardinality(D) /\ IsFiniteSet(D)
  BY <1>1, PlacesBetween
<1>3. Place(S, R, x) = Cardinality(A) /\ Place(S, R, x) \in Int
  BY <1>1, PlaceType
<1>4. A \in SUBSET D
  BY DEF Preds
<1> HIDE DEF A, D
<1>5. Cardinality(A) <= Cardinality(D)
  BY <1>2, <1>4, FS_Subset
<1>6. Place(P, R, x) \in Int /\ Place(P, R, m) \in Int
  BY <1>1, PlaceType
<1>7. Place(S, R, x) <= k
  BY <1>2, <1>3, <1>5, <1>6
<1> QED
  BY <1>1, <1>7, FirstEntries

(* The candidates of Neighbors for an untied member have its window. *)
LEMMA CandidatesHaveWindow ==
  ASSUME TypeOK, NEW m \in Present, NEW k \in Nat, \A n \in Present : z[n] = z[m] => n = m,
         NEW C, C = UNION {Geq(i, m, k) \cup Leq(i, m, k) : i \in Shards}
  PROVE  C \in SUBSET Present /\ HasWindow(Present, C, ZOrder, m, k)
<1> DEFINE Up(i)   == {n \in InShard(i) : z[n] >= z[m]}
           Down(i) == {n \in InShard(i) : z[n] <= z[m]}
<1>0. \A n \in Present : n \in Int /\ z[n] \in Int /\ ShardOf[n] \in Shards
  BY MembersAssumption, ShardAssumption DEF Present, TypeOK, Stored, Shards
<1>1. Ordered(Present, ByScore) /\ Ordered(Present, ByScoreRev)
  BY BoardOrder
<1>2. \A a, b \in Present : /\ <<a, b>> \in ByScore <=> z[a] < z[b] \/ (z[a] = z[b] /\ a < b)
                            /\ <<a, b>> \in ByScoreRev <=> <<b, a>> \in ByScore
  BY DEF ByScore, ByScoreRev
<1>3. ASSUME NEW i \in Shards
      PROVE  /\ Up(i) \in SUBSET Present /\ Down(i) \in SUBSET Present
             /\ Geq(i, m, k) = Range(Slice(Listing(Up(i), ByScore), 0, k))
             /\ Leq(i, m, k) = Range(Slice(Listing(Down(i), ByScoreRev), 0, k))
  BY DEF InShard, Geq, Leq
<1>4. ASSUME NEW i \in Shards, NEW n \in Up(i) PROVE <<n, m>> \notin ByScore
  <2>1. n \in Present /\ z[n] >= z[m]
    BY <1>3
  <2>2. n \in Int /\ m \in Int /\ z[n] \in Int /\ z[m] \in Int /\ (z[n] = z[m] => n = m)
    BY <1>0, <2>1
  <2>3. ~ (z[n] < z[m] \/ (z[n] = z[m] /\ n < m))
    BY <2>1, <2>2
  <2> QED
    BY <1>2, <2>1, <2>3
<1>5. ASSUME NEW i \in Shards, NEW n \in Down(i) PROVE <<n, m>> \notin ByScoreRev
  <2>1. n \in Present /\ z[n] <= z[m]
    BY <1>3
  <2>2. n \in Int /\ m \in Int /\ z[n] \in Int /\ z[m] \in Int /\ (z[n] = z[m] => n = m)
    BY <1>0, <2>1
  <2>3. ~ (z[m] < z[n] \/ (z[m] = z[n] /\ m < n))
    BY <2>1, <2>2
  <2> QED
    BY <1>2, <2>1, <2>3
<1>6. ASSUME NEW x \in Present PROVE \E i \in Shards : x \in InShard(i)
  BY <1>0 DEF InShard
<1>7. ASSUME NEW x \in Present, z[x] >= z[m]
      PROVE  \E i \in Shards : x \in Up(i)
  BY <1>6, <1>7
<1>8. ASSUME NEW x \in Present, z[x] <= z[m]
      PROVE  \E i \in Shards : x \in Down(i)
  BY <1>6, <1>8
<1> HIDE DEF Up, Down
<1>9. C \in SUBSET Present
  <2>1. ASSUME NEW i \in Shards
        PROVE  Geq(i, m, k) \subseteq Present /\ Leq(i, m, k) \subseteq Present
    <3>1. Ordered(Up(i), ByScore) /\ Ordered(Down(i), ByScoreRev)
      BY <1>1, <1>3, OrderedPart
    <3>2. Geq(i, m, k) \subseteq Up(i) /\ Leq(i, m, k) \subseteq Down(i)
      BY <1>3, <3>1, FirstEntries
    <3> QED
      BY <1>3, <3>2
  <2> QED
    BY <2>1
<1>10. ASSUME NEW x \in Present
       PROVE  /\ Place(Present, ByScore, x) + Place(Present, ByScoreRev, x) = Cardinality(Present) - 1
              /\ Place(Present, ByScore, x) \in Int /\ Place(Present, ByScoreRev, x) \in Int
  <2>1. \A a, b \in Present : <<a, b>> \in ByScoreRev <=> <<b, a>> \in ByScore
    BY <1>2
  <2> QED
    BY <1>1, <2>1, ReversePlaces, PlaceType
<1>11. ASSUME NEW x \in Present,
              Place(Present, ByScore, x) <= Place(Present, ByScore, m) + k,
              Place(Present, ByScore, m) <= Place(Present, ByScore, x) + k
       PROVE  x \in C
  <2>1. CASE z[x] >= z[m]
    <3>1. PICK i \in Shards : x \in Up(i)
      BY <1>7, <2>1
    <3>2. x \in Geq(i, m, k)
      BY <1>1, <1>3, <1>4, <1>11, <3>1, NearSide
    <3> QED
      BY <3>2
  <2>2. CASE z[x] <= z[m]
    <3>1. PICK i \in Shards : x \in Down(i)
      BY <1>8, <2>2
    <3>2. Place(Present, ByScoreRev, x) <= Place(Present, ByScoreRev, m) + k
      <4>1. /\ Place(Present, ByScore, x) + Place(Present, ByScoreRev, x) = Cardinality(Present) - 1
            /\ Place(Present, ByScore, m) + Place(Present, ByScoreRev, m) = Cardinality(Present) - 1
            /\ Place(Present, ByScore, x) \in Int /\ Place(Present, ByScoreRev, x) \in Int
            /\ Place(Present, ByScore, m) \in Int /\ Place(Present, ByScoreRev, m) \in Int
        BY <1>10
      <4>2. Cardinality(Present) \in Int
        BY <1>1, FS_CardinalityType DEF Ordered
      <4> QED
        BY <1>11, <4>1, <4>2
    <3>3. x \in Leq(i, m, k)
      BY <1>1, <1>3, <1>5, <3>1, <3>2, NearSide
    <3> QED
      BY <3>3
  <2> QED
    BY <1>0, <2>1, <2>2
<1>12. ASSUME NEW x \in Present,
              Place(Present, ZOrder, x) <= Place(Present, ZOrder, m) + k,
              Place(Present, ZOrder, m) <= Place(Present, ZOrder, x) + k
       PROVE  x \in C
  <2>1. CASE Asc
    <3>1. ZOrder = ByScore
      BY <2>1 DEF ZOrder
    <3> QED
      BY <1>11, <1>12, <3>1
  <2>2. CASE ~ Asc
    <3>1. ZOrder = ByScoreRev
      BY <2>2 DEF ZOrder
    <3>2. /\ Place(Present, ByScoreRev, x) <= Place(Present, ByScoreRev, m) + k
          /\ Place(Present, ByScoreRev, m) <= Place(Present, ByScoreRev, x) + k
      BY <1>12, <3>1
    <3>3. /\ Place(Present, ByScore, x) + Place(Present, ByScoreRev, x) = Cardinality(Present) - 1
          /\ Place(Present, ByScore, m) + Place(Present, ByScoreRev, m) = Cardinality(Present) - 1
          /\ Place(Present, ByScore, x) \in Int /\ Place(Present, ByScoreRev, x) \in Int
          /\ Place(Present, ByScore, m) \in Int /\ Place(Present, ByScoreRev, m) \in Int
      BY <1>10
    <3>4. Cardinality(Present) \in Int
      BY <1>1, FS_CardinalityType DEF Ordered
    <3>5. /\ Place(Present, ByScore, x) <= Place(Present, ByScore, m) + k
          /\ Place(Present, ByScore, m) <= Place(Present, ByScore, x) + k
      BY <3>2, <3>3, <3>4
    <3> QED
      BY <1>11, <3>5
  <2> QED
    BY <2>1, <2>2
<1> QED
  BY <1>9, <1>12 DEF HasWindow

(* Neighbours of untied members in every state. *)
LEMMA NeighborsExact ==
  ASSUME TypeOK
  PROVE  UntiedNeighborsExact
<1>1. Size \in Nat
  BY MembersAssumption, FS_CardinalityType DEF Size
<1> SUFFICES ASSUME NEW m \in Present, NEW k \in 0 .. Size, \A n \in Present : z[n] = z[m] => n = m
             PROVE  Neighbors(m, k) = RedisNeighbors(m, k)
  BY DEF UntiedNeighborsExact
<1>2. k \in Nat
  BY <1>1
<1>3. Ordered(Present, ZOrder) /\ InOrder = ZOrder
  BY BoardOrder
<1> DEFINE C == UNION {Geq(i, m, k) \cup Leq(i, m, k) : i \in Shards}
           cands == Listing(C, ZOrder)
<1>4. Neighbors(m, k) = IF m \notin Range(cands) THEN << >> ELSE Around(cands, Position(cands, m), k)
  BY <1>3 DEF Neighbors, Sorted
<1>5. C \in SUBSET Present /\ HasWindow(Present, C, ZOrder, m, k)
  BY <1>2, CandidatesHaveWindow
<1> HIDE DEF C
<1>6. Place(Present, ZOrder, m) \in Nat
  BY <1>3, PlaceType
<1>7. m \in C /\ Ordered(C, ZOrder)
  <2>1. Ordered(C, ZOrder)
    BY <1>3, <1>5, OrderedPart
  <2>2. Place(Present, ZOrder, m) <= Place(Present, ZOrder, m) + k
    BY <1>2, <1>6
  <2> QED
    BY <1>5, <2>1, <2>2 DEF HasWindow
<1>8. m \in Range(cands)
  <2>1. /\ DOMAIN cands = 1 .. Cardinality(C) /\ Place(C, ZOrder, m) + 1 \in 1 .. Cardinality(C)
        /\ cands[Place(C, ZOrder, m) + 1] = m
    BY <1>7, ListingPlaces
  <2> HIDE DEF cands
  <2> QED
    BY <2>1 DEF Range
<1>9. Position(cands, m) = Place(C, ZOrder, m)
  BY <1>7, PositionIsPlace
<1> DEFINE r == Place(Present, ZOrder, m)
<1>10. Around(cands, Place(C, ZOrder, m), k) = Slice(Listing(Present, ZOrder), Lo(r, k), r + k)
  BY <1>2, <1>3, <1>5, <1>7, SameWindow
<1>11. RedisNeighbors(m, k) = rangeByRank(Lo(r, k), r + k)
  BY DEF RedisNeighbors, Lo
<1>12. ~ (r + k < Lo(r, k))
  BY <1>2, <1>6 DEF Lo
<1> HIDE DEF r, cands
<1>13. RedisNeighbors(m, k) = Slice(Listing(Present, ZOrder), Lo(r, k), r + k)
  BY <1>11, <1>12 DEF rangeByRank, ZRange
<1> QED
  BY <1>4, <1>8, <1>9, <1>10, <1>13

(* The boards that the reads are tried on have their types. *)
LEMMA SomeBoardTyped ==
  ASSUME SomeBoard
  PROVE  TypeOK /\ EncodableInv
<1>1. ASSUME NEW e \in Accepted PROVE e \in Events /\ encode(e[1], e[2]) \in Int
  <2>1. e \in Events /\ e[1] \in Int /\ e[2] \in Int
    BY EventsAssumption DEF Accepted
  <2> QED
    BY <2>1, CodecType
<1>2. config \in Configs /\ z \in [Members -> Stored]
  BY <1>1 DEF SomeBoard, Stored
<1>3. h \in [Shards -> [Buckets -> Int]]
  <2>1. ASSUME NEW i, NEW b
        PROVE  Cardinality({m \in InShard(i) : bucketIndex(decode(z[m])) = b}) \in Int
    <3> DEFINE S == {m \in InShard(i) : bucketIndex(decode(z[m])) = b}
    <3>1. S \in SUBSET Members
      BY DEF InShard, Present
    <3> HIDE DEF S
    <3>2. IsFiniteSet(S)
      BY <3>1, MembersAssumption, FS_Subset
    <3>3. Cardinality(S) \in Int
      BY <3>2, FS_CardinalityType
    <3> QED
      BY <3>3 DEF S
  <2> QED
    BY <2>1 DEF SomeBoard
<1>4. TypeOK
  BY <1>2, <1>3 DEF SomeBoard, TypeOK, NoSubmit, NoRemoval, Removal, Stored, Accepted
<1>5. EncodableInv
  BY DEF SomeBoard, EncodableInv, NoSubmit, Accepted
<1> QED
  BY <1>4, <1>5

(* The types that reads depend on, in every state of either specification. *)
LEMMA ReadsTyped == Spec \/ ReadSpec => []TypeOK
<1> DEFINE Inv == TypeOK /\ EncodableInv
<1>1. SomeBoard => Inv
  BY SomeBoardTyped
<1>2. Inv /\ [Next]_vars => Inv'
  BY NextType, NextEncodable
<1>3. ReadSpec => []Inv
  BY <1>1, <1>2, PTL DEF ReadSpec
<1> QED
  BY <1>3, TypeCorrect, PTL

(* TopN, Page and Count of a sharded board are those of one sorted set over   *)
(* all members (rangeMerged, Count), for any number of shards, any assignment *)
(* of members to them and any page, in every state that writes can reach.     *)
THEOREM ShardedPagesAreExact == Spec \/ ReadSpec => []ShardedPagesExact
<1>1. TypeOK => ShardedPagesExact
  BY PagesExact
<1> QED
  BY <1>1, ReadsTyped, PTL

(* The rank read off exact histograms is at most the exact one, and behind it  *)
(* by less than the population of the member's bucket (approxRank), for any    *)
(* codec and any bins.                                                         *)
THEOREM ApproxRanksBracket == Spec \/ ReadSpec => []ApproxRankBrackets
<1>1. TypeOK => ApproxRankBrackets
  BY ApproxBrackets
<1> QED
  BY <1>1, ReadsTyped, PTL

(* k + 1 entries of every shard on each side of a member's score are enough to *)
(* show the k nearest on each side, when no one shares its stored score        *)
(* (ShardedEngine.Neighbors).                                                  *)
THEOREM UntiedNeighborsAreExact == Spec \/ ReadSpec => []UntiedNeighborsExact
<1>1. TypeOK => UntiedNeighborsExact
  BY NeighborsExact
<1> QED
  BY <1>1, ReadsTyped, PTL

(* FriendRank lists any set of members in the order of the whole board. *)
THEOREM FriendsAgreeWithBoard == Spec \/ ReadSpec => []FriendsAgree
<1>1. TypeOK => FriendsAgree
  BY FriendsInOrder
<1> QED
  BY <1>1, ReadsTyped, PTL
=============================================================================
