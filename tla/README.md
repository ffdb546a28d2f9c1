# Formal model of the leaderboard service

TLA+ modules for the service in `src/`: what each part keeps, what each
operation does to it, and which of the guarantees that the code, its comments
and its docs state hold under concurrency, crashes and retries. TLC checks small
instances; TLAPS proves the most important properties for every instance.

## The system

`leaderboardd` is a Go process in front of Redis. Several copies may run.

| Part | State | Operations | What makes it correct |
|---|---|---|---|
| Ingestor (`pkg/ingest/ingestor.go`, `dedup.go`) | idempotency reservations in Redis | Submit: reserve, append, roll back | a retried event counts once; a failed one can be retried; the answer is true |
| Log (`log.go`, `redislog.go`) | one Redis stream per partition; a (board, member) always hashes to one | Append | order per member |
| Consumer group (`group.go`, `consumer.go`) | delivery position, pending entries, applied markers in Redis; the batch in hand and the board registry in the process | Step (new entries), Reclaim (idle pending entries), apply, mark, acknowledge; Rebuild | everything accepted is applied, in order, exactly once where the docs say so |
| Moderation (`pkg/api/moderation.go`) | the request in progress | score removal, player deletion: tombstones first, then a synchronous removal | a removed score stays removed |
| Ranking engine (`pkg/engine`) | sorted sets, one per (board, segment, window, shard); bucket histograms | SubmitBatch, Remove, RemoveFromAll; top, page, rank, approximate rank, neighbours, friends, count | histograms match the sorted sets; sharded reads equal unsharded ones |
| Player registry (`pkg/users`) | nickname hash, display-name hash, records | Create, Rename, Delete (Lua scripts), lookups | nicknames are unique; the three structures agree |
| Player tokens (`pkg/players`) | token hash per member | Authorize: bind on first use | one binding per member |
| Tenancy (`pkg/tenancy`) | apps, API keys, board definitions | create, change and delete apps, issue and revoke keys, upsert boards | nothing outlives its app; settings are not lost |
| Accounts (`pkg/accounts`) | users, sessions, one-time tokens | sign-up, verify, log in, reset | one account per email; a token works once; a reset ends sessions |
| Windows (`pkg/window`) | window ids, expiry of old windows | resolve, reap | a live window is never reaped |

Interaction: an HTTP handler runs in its own goroutine and changes Redis
command by command; the consumer goroutine of each process reads the partitions
it owns. Both write the same sorted sets. What is hard is everything between two
commands: another handler or consumer, a client that disconnects (the request's
context ends and later commands are not sent), a process that dies, a Redis call
that fails, a reply that is lost, a marker or reservation that expires.
`PROJECT.json` lists these hazards with their lines and the properties aimed at
them.

## Modules

| Module | Models | Used by |
|---|---|---|
| `GroupConsumer` | the durable write path: handlers, streams, consumer group, markers, moderation, sorted sets | `MCGroupConsumer`, `GroupConsumerProofs` |
| `Ingestor` | one idempotent submit among concurrent and repeated ones | `MCIngestor`, `IngestorProofs` |
| `Engine` | engine writes, one Redis command per step: score codec, sorted set, histograms | `MCEngine`, `EngineProofs` |
| `EngineReads` | engine reads as operators on that state | `MCEngineReads`, `EngineProofs` |
| `Users` | the player registry | `MCUsers`, `UsersProofs` |
| `TenancyStore` | what `tenancy.Store` promises, as the in-memory store keeps it: every call one step | `Tenancy` |
| `Tenancy` | the Redis store and the handlers above it, command by command; implements `TenancyStore` | `MCTenancy`, `TenancyProofs` |
| `Accounts` | dashboard accounts, one-time tokens and sessions, command by command | `MCAccounts`, `AccountsProofs` |
| `Players` | player tokens and the handlers that register, rename, delete and write for players | `MCPlayers`, `PlayersProofs` |
| `Windows` | the calendar of dated windows, the fan-out to them, the reapers | `MCWindows`, `WindowsProofs` |

**GroupConsumer.** A node is a process: its registry of boards, its consumer
(`pc`, `mode`, `todo`, `cursor` and the batch: `msgs` read, `fresh` to mark,
`recs` to apply, `ops` queued engine commands) and the removal request its API
is serving (`rm`). Redis is `log`, `delivered`, `pending`, `idle`, `marked`,
`board` and `stored`. `StepRead` and `ReclaimClaim` take a batch; `Check` is
steps 1 and 2 of `apply`; `Flush`, `ScanTombstone` and `Exec` are
`applyRecords`, one engine command per step; `Mark` and `Ack` are steps 4 and 5.
Handlers are `HandleCreateBoard`, `ResolveBoard`, `HandleSubmit`,
`HandleRemoveScore`, `HandleDeleteUser` with `AppendTombstone`, `SyncScan`,
`SyncRemove`. Faults are actions of their own, counted per kind. Entries are
positions in their stream. An event carries the slices (segment and window
combinations) it fans out to, and whether the engine can encode it. The ZADD of
a submit (`Exec`) and the ZSCORE after it (`ReadBack`) are two steps: when a
handler's ZREM comes between them, the pipeline is run to its end and then
`SubmitBatch` fails on the nil answer (`FlushFails`), and the consumer ends.
`unseen` is a history variable: the entries a process accepted while the running
owner of their partition, another process, had not heard of their board. The
deletion of a player's registration, last in `handleDeleteUser`, is `Users`.

**Ingestor.** Clients that send an event, are answered, and send it again after
an error or when no answer came. Reservation, append, rollback and the answer
after an append are separate steps; each call can fail with or without effect, and
the answer is lost when the client or the process goes after the append. The
entries are counted per key.

**Engine.** `Submit`, `ReadPre`, `Write`, `ReadPost`, `UncountOld`, `CountNew`
are the commands of the two pipelines of `SubmitBatch` for one op; `Remove`,
`RemoveRead`, `ZRem`, `RemoveUncount` those of `Remove`. Submits of one member come
from one consumer and follow each other; its removals come from several callers
(`Removers`: moderation handlers and the consumer with their tombstone) at once, and
`Absent` is the guard that lets only the one that removed the member uncount it. Stored scores are what
the codec packs: `ScoreBits` of `MantissaBits` bits for the score, the rest for
the time (53 bits in the code, 4 in the runs: the limits of both fields are
reached). The board's configuration is a variable that Init chooses from `Configs`
and nothing changes. A submit that is cut off, or whose second ZSCORE finds the
member removed, is owed and delivered again.

**EngineReads.** Each read is what the code computes from the shards, compared
with one sorted set over all members. Members are numbers, so that their order
is the order Redis gives equal scores. An order is a set of pairs and an element's
place the number of elements before it: Redis's order (`ZOrder`) and the code's own
comparator (`InOrder`) are two such sets, defined apart.

**Users.** `Create`, `Rename` and `Delete` are one step each for their script;
`Get` before it is another, so the record a script is given may be stale. The
retry loop, the lost reply and the repeated request are modelled. `created`
stands for CreatedAt. `writes`, `begun`, `readAt`, `removed` and `held` are history
variables that no action reads; `held` (`Observe`) is what a lookup in progress could
have found at each instant since it was called. `GetByNickname` is two reads, `LookupResolve` and
`LookupFetch`, between which scripts run.

**Tenancy and TenancyStore.** `TenancyStore` is `memstore.go`: the apps, keys and
boards behind one mutex, each call a step. `Tenancy` has one variable per family of
Redis keys and one action per command (a MULTI/EXEC pipeline is one command);
`calls[p]` is the request `p` is serving, with what it has read so far, and
`Abandon` ends it wherever it is. `RevokeKey` serves both its handler and the loop
of `DeleteApp`, which ignores its error (`RevokeFailsInDelete`).
`Store == INSTANCE TenancyStore WITH ...` reads the in-memory store's state off the
Redis keys the way callers do: an app by `GetApp`, a key by `AuthKey` (through its
hash to a live app, secret without a scope entry), boards only of a live app. That
is why a key that outlives its app in Redis is no step of the abstract store: it
authenticates nobody. Two history variables name what the code does not guard
against: `raced` (an app written while a settings call held an older copy of it,
left out of the comparison from then on) and `spilled` (an app deleted around a key
or board being written, or past a failed revocation).

**Accounts.** Each call of `Service` is the sequence of its Redis commands, and the
mail between them. Sessions have one lifetime and so expire in the order they were
opened: a session is its place in that order and `clock` the last that has expired;
the set that lists a user's sessions expires with the session opened last. Links
can be opened in any order and repeatedly. A password stands for its hash. History:
`uses`, `proved`, `wanted`, `sessPw`, and the exceptions `raced` (Verify and Reset
overlapped), `stranded` (sign-up cut between its two commands) and `overlapped`
(a session opened around a reset, or kept by one that failed).

**Players.** A request passes `authorizePlayer` (`Bind`: SETNX, then `Count`: INCR,
or `Compare`: GET) and then acts; a mint acts first and binds after. A registry call
is one step here, `Users` has its commands. Any id can be claimed in a request, one
that was minted too: its token is bound before `users.Create` refuses it. The app's
setting changes at any time;
a request keeps the one it read.

**Windows.** Days since 1970; `WindowID` and `ParseEnd` are computed over the civil
calendar and ISO weeks, a window id being the tuple of the fields its text is
formatted from. A custom window has the id its board was given (`CustomIDs`), which
may read as a date. `Apply` ranks an event, possibly late, in its windows;
`MaintainHistograms` is the batch's second pipeline; `Remove` takes a member out of a
window, perhaps the last one, in which case Redis deletes the sorted set, and
`RemoveFromHistogram` is its last command. A reaper sweeps window by
window (`SweepStart`, `SweepKey`, `SweepEnd`), stops for good when a command fails,
and is restarted with its process. `Tick` is a day; sweeps and batches end within
the day they begin in.

## Runs

Passing runs:

| Run | Shows |
|---|---|
| `GroupDelivery` | through crashes, errors and expired markers: best-wins boards converge to a replay of the log; increment boards lose nothing and over-count at most once per fault; a marked score stays ranked and a marked entry is not applied again; a batch in hand is pending and owned; no score appears from nowhere |
| `GroupModeration` | two processes, one of them the owner of the member's partition: without consumer faults the member's order is kept, and no interleaving of removals through either process (cancelled, half-failed) with the consumer leaves a removed score |
| `GroupLiveness` | two processes, a board that is created through either and removals beside the consumer: an entry is acknowledged unapplied only if another process accepted it while the partition's running owner had not heard of its board; under fairness, an accepted entry is acknowledged, whatever processes crash, unless the consumer of its partition has stopped for good |
| `IngestorFaults` | an event is logged once, also when an answer is lost after the append and the client sends it again; a reservation is backed; answers are true, also when replies of XADD are lost and reservations expire. Each under the faults it survives |
| `EngineWrites` | when no submit and removal of a member overlap, though removals of it may, a histogram at rest is off by at most one per operation that was cut off; the packed score orders by score, then by time of reaching it |
| `EngineReads` | sharded pages, counts, friend lists and untied neighbours equal the unsharded ones; the approximate rank brackets the exact one |
| `UsersRegistry` | the registry's three structures agree; contention is reported only when real; a lookup answers with what was true at some instant of the call, or with a record that shows another nickname; a repeated delete of a minted id is harmless |
| `TenancyContract` | the Redis store implements the one-step store; a deletion leaves nothing; indexes agree with records; a key has the scope it was issued with. Each but for the overlaps the property names |
| `AccountFlows` | an email has one account; a token is acted on once; verification and new password are not lost; the session set lists what is open; a reset ends the sessions of the old password. Each but for the overlaps the property names |
| `PlayerTokens` | a member is used with one token only, whatever first uses race; the counter accounts for every binding; a minted player is its creator's |
| `WindowReaper` | windows tile the calendar; no ranking of a current or retained window is lost but to the removal of its last member; histograms expire with their rankings, but for the three cases the property names; under fairness, what has aged out goes |

One run finds a statement of the repository violated by what the code does (the
lines are in `PROJECT.json`, "findings"):

| Run | Statement | What happens |
|---|---|---|
| `ReaperPhases` | the reaper expires keys once they are older than Retain past their window's end | every sweep renews the expiry; two processes' reapers at different phases, with the default interval equal to the expiry, keep an aged-out window for ever |

**Other disagreements** met while modelling. No run is kept for them; each is why
a property above carries a condition, and dropping the condition shows it, in the
same instance or with a second worker.

- `group.go:20` and the repository's `README.md:263`, best and last are exactly-once:
  an entry reclaimed late overwrites a newer score on a last-wins board. Hence
  `FaultFreeConverges`.
- `moderation.go:18-20`, a removed score is never resurrected: an entry from before
  the tombstone is reclaimed after it. Hence `FaultFreeNoResurrection`.
- `server.go:484`, an accepted score "will be ranked shortly": a worker that does
  not know a new board acknowledges its entries unapplied (`group.go:143`), and they
  are never ranked. It happens in `GroupLiveness`, with two workers and a board that
  one of them creates; `DropsAreUnseen` says to which entries.
- `ingestor.go:46-48`, a reservation is rolled back so that a retry can succeed: the
  rollback runs under the context that has ended. Hence the condition of
  `ReservationIsBackedIfRolledBack`.
- `sharded_engine.go:27` and the repository's `README.md:290`, exact neighbours on
  sharded boards: ties use up the k+1 entries fetched per shard
  (`sharded_engine.go:350`). Hence `UntiedNeighborsExact`.
- `server.go:484`, an accepted score "will be ranked shortly": one failed Redis
  call ends the consumer goroutine for the life of the process
  (`main.go:139`), and a score the engine refuses stops it at every delivery, also
  after restarts (`redis_engine.go:100`). Hence `ConsumerStopped` in
  `AcceptedIsHandled`.
- `dedup.go:11-13`, idempotent retries: an append whose reply is lost is rolled
  back and logged again by the retry. Hence the condition of `LoggedOnce`.
- `redis_engine.go:132-135`, serialized writes keep histograms accurate: a crash
  between the two pipelines, and a redelivery that finds the score unchanged,
  leave the member uncounted. Hence the bound in `HistogramDriftBounded`.
- `ingestor.go:59-60`, "double application is harmless": a handler's ZREM between
  the consumer's ZADD and ZSCORE makes `SubmitBatch` fail (`redis_engine.go:117-122`;
  `ReadBack` and `FlushFails`, in `Engine` `ReadPostNil`), which ends the consumer
  without a crash or a failed call; entries stay pending until the process is
  restarted. It happens in `GroupLiveness`, and is the other reason for
  `ConsumerStopped`.
- `redis_engine.go:295`, neighbours include the member: the rank is stale when the
  range is read. Reads are single steps in `EngineReads`.
- `pkg/users/store.go:67-69`, a replayed delete cannot affect a later
  registration: a client-claimed id can be registered again. Hence minted ids in
  `ReplayedMintedDeleteIsHarmless`.
- `pkg/users/store.go:57`, a lookup resolves the nickname: a rename between its two
  reads returns a player of another name. Hence the last case of
  `LookupHeldDuringCall`.
- `tenancy/redisstore.go:255`, a key without a scope entry is secret: a publishable
  key revoked between `AuthKey`'s two reads is taken for a secret one, for that
  request. Hence the condition of `ScopeAsIssued`.
- `tenancy/store.go:104`, DeleteApp removes all keys and boards: a key or board
  written meanwhile, or a key whose revocation failed, stays in Redis and nothing
  lists it. It authenticates nobody, so `RefinesStore` holds all the same. Hence
  `spilled`.
- `tenancy/redisstore.go:204-217`, of two settings changed together one is lost, and
  one changed beside a deletion brings the app's record back. Hence `raced`.
- `accounts/service.go:164`, a reset revokes all sessions: one opened while it runs
  survives. Hence `overlapped`. Verify beside ResetPassword can undo the other's
  field. Hence `raced`.
- `accounts/redisstore.go:24-37`: a sign-up cut between SETNX and SET leaves an email
  that can neither log in nor sign up again. Hence `stranded`.
- `window/reaper.go:68`: one failed command ends the reaper for the life of the
  process, `main.go:157-161` logs it. Hence "unless stopped" in `AgedOutExpires`.
- `window/reaper.go:13-14`, expired data can be rebuilt from the log: a late event
  creates an expired window anew with that event alone, until it is swept again, and
  nothing rebuilds it.
- `window/reaper.go:47-65` finds windows by their rankings: a sweep between the two
  pipelines of the batch that creates a window expires the ranking only, and the
  histogram stays for ever. So does that of a window whose last member is removed:
  ZREM deletes the empty ranking (`redis_engine.go:405`), HINCRBY leaves the histogram,
  and no sweep finds it (`reaper.go:52`). Hence `torn`.
- `engine/board.go:225`: a custom window whose id has the form of a dated one is reaped
  like it. Hence "undated" in `RetainedWindowsKept`.
- `players/store.go`: the counter misses bindings whose INCR fails; a minted player
  whose creation is cut stays unbound until its first use, and one found by its
  nickname can be bound by another request first, a claim that is refused included. Hence `uncounted`, `cut`, `early`.

**Bounds.** Write path: at most three entries per partition, two scores, one or
two slices, two faults of a kind. Three entries of one member are enough for
old, newer and removed in every order; batches of two make a partition take
several reads and claims. Engine: two members (four for reads, two per shard, so
that ties occur within and across shards), two buckets, three operations and two
cut off, two callers of Remove; a crossing of submits and removals of two members, and a redelivery
after each, fit in that.
Registry: two callers with two calls each, one minted and one claimable id,
three spellings of two nicknames, `MaxAttempts` 2: enough for contention, for a
delete, a new registration and a repeated delete.
Tenancy, accounts and players: two requests at a time, since every exception above is
a pair of overlapping calls, and as many calls in all (five, seven, four) as the
longest story needs: create an app, issue a key, upsert a board, delete, change a
setting meanwhile; sign up, verify, log in, ask for a reset, reset, log in and log out
meanwhile; register, delete, register again with another token. Two signing-key
versions, two sessions, three tokens. Windows: nine days from three dates (the
end of a 53-week leap year, of a year whose last days belong to the next one's first
week, and of a leap February), so that a day and a week end, are retained for a
day and expire; two events, each two days late, so that an event reaches a window that is
over; one failure or removal; a custom window whose id reads as a month. The clock then stands
still while expiries go on, so that behaviours are infinite and liveness means
something. Every bound is a constant
(`MaxLog`, `MaxFaults`, `MaxTries`, `MaxOps`, `MaxCrashes`, `MaxRequests`,
`MaxLost`, `MaxVersion`, `MaxCalls`, `MaxSessions`, `Horizon`, `MaxEvents`,
`MaxMishaps`). Deadlock is not checked where the bounds let a behaviour end.

**Fairness** (`GroupConsumer!FairSpec`). The consumer goroutine of a running
process keeps taking steps, and Run's ticker fires again and again, so the pass
that reclaims is started infinitely often if it can be (strong fairness, since
other passes disable it in between); time passes; a process that died is started
again (the deployment restarts containers). No fairness for clients, faults, or
a consumer goroutine that has returned: nothing restarts it.
`Windows!FairSpec`: days pass, a batch's second pipeline is sent or fails, and a
running reaper gets on with its sweep (a goroutine with a ticker). No fairness for
events, failures or restarts.

## Proofs

Eight modules prove 38 of the 40 properties the passing runs check, for every value of
the constants. Each has one inductive invariant `IInv`, checked by TLC on a run's
instance before it was proved, one lemma or step per action that it is preserved,
and the properties as consequences.

**GroupConsumerProofs.** `IInv` is `TypeOK`, the delivery part (`OwnedInv`: a
worker's partition is its own; `PelInv`: idle entries are pending, pending ones
delivered, delivered ones in the log; `BatchInv`: what is in hand is pending and
partitioned into its stages) and the ranking part (`RemovalInv`: a removal that
is cleaning boards has its tombstones in the log; `AppliedInv`: entries of the
batch that have passed the engine are ranked; `MarkedInv`). The property itself
is not inductive: `Mark` sets a marker on the strength of what `Exec` did
earlier, so the invariant has to remember it stage by stage, and a later write
may only improve a best-wins score. From it: `TypeCorrect`, `BatchesArePending`,
`MarkedScoresAreRanked`. `OnlyUnseenAreDropped` needs three facts about registries,
for any number of workers: everything registered or logged is in the store
(`ResolvableInv`), so a worker that is started again knows the boards of all that is
logged; the owner of a partition, while it is up, knows the board of every entry but
the unseen ones (`KnownInv`); and what a worker has in hand to acknowledge is marked,
about to be, or unseen (`HandledInv`).
`OwnershipPartitions` is a fact about `OwnedPartitions` alone.

Order is a second layer, `OrderedInv`: entries are in the partition of their board
and member (`PlacedInv`), `applyRecords` turns a batch into commands in log order
and never a marked entry (`OrderInv`, which gives `MarkedAreNotReapplied`), and
without faults nothing but the batch in hand is pending and every marker is older
than it (`InOrderInv`). `SourceInv` then follows a ranked score to the entry it comes
from (`ScoresHaveSources`) and says, without faults, that no removal later in the log
has been executed on its slice. When the partition is settled every removal has
been, so there is none after the source: `NoResurrectionWithoutFaults`.

Convergence compares a cell of the board with `Replay`, a recursive function over the
positions of the log. `ReplayExists` shows that the recursion has a solution for every
log, by the absence of a least counterexample (`LeastNatural`), and the lemmas after it
that a replay stays as it is over entries of other cells (`ReplayStutters`), does not
depend on what is appended (`ReplayPrefix`), and on a best-wins board is the best of
the submits so far (`ReplayBest`). Three invariants use them:

- `BestBoardsConverge` needs none beyond the earlier ones. A settled best-wins cell has
  every submit marked, so the score is as good as each of them, and it has a source,
  so it is one of them.
- `ConvergesWithoutFaults` is about every policy, so it has to know how far a cell is:
  `ProgressInv` says that the cell holds the replay of the first `k` entries of its
  partition, and that exactly these have been executed on it. The way out is a partition
  that will never settle (`Spoiled`: an entry was acknowledged unapplied, or the consumer
  has stopped), which stays so without faults.
- `IncrementsAreBounded`: `TallyInv` has a running total that splits the score among the
  entries of the partition. An entry's share is its score at least, once it has been
  executed, and at most its score for each life of the worker. The theorem assumes
  non-negative scores: a negative increment applied twice takes the total below the exact
  one, which the property's lower bound does not allow.

**IngestorProofs.** `EventsAreLoggedOnce`: a key has at most one holder, and none
once it is logged. `ReservationsAreBacked`: a reserved key is logged or held.
`AnswersAreTruthful` adds `AnsweredInv`: as long as no append, rollback or reservation
failed, a request only rolls back an event that is logged, its reply having been lost,
so an event that was answered stays logged or held.

**EngineProofs.** `SerialInv` says what an operation may rely on of the scores it has
read when no submit and removal of the member overlapped, and that of overlapping
removals one at most has removed the member and is still to uncount it (`Leftover`). `Counted(i, b)` is the set of members that bucket `b`
of shard `i` stands for while operations are between their commands, and `DriftInv`
compares the counter with its cardinality: each command moves both alike, and a
cut-off operation at most one of them, by one (`HistogramDriftIsBounded`).
`BestInv`, a best-wins board stores the best packed event, and `EncodeOrder`, the
packed number orders events by score and then time, give `FirstToReachRanksFirst`.
`EncodeOrder` rests on `EncodableInv`: only events in the range of both fields are
packed.

Reads are functions of a typed state, so their theorems need no more than `TypeOK`; they
hold of `Spec` and of `ReadSpec`. The lemmas about orders come first: in a finite set
with a strict total order no two elements have the same place (`PlaceUnique`), every
place is taken (`PlaceTaken`, by the pigeonhole principle), and a listing has each
element at its place (`ListingPlaces`). `BoardOrder` shows that the code's comparator is
Redis's order in both directions, ties included; `FriendsAgreeWithBoard` follows. A part
of a set that has its first `stop + 1` elements gives the same slices up to `stop`
(`SamePrefix`), and a shard has no more elements before a member than the board has:
`ShardedPagesAreExact`. A part that has all within `k` places of a member shows the same
window around it, shifted (`SameWindow`), and `k + 1` entries on each side of an untied
member's score cover that (`NearSide`, once in each direction): `UntiedNeighborsAreExact`.
With a tie `NearSide` fails: members with the same score fill a shard's answer.
`TotalCounts`, that the sizes of the classes of a finite set add up to its size, gives
`Count` and, with `BucketMonotone`, `ApproxRanksBracket`.

**UsersProofs.** `IInv` adds to `RegistryConsistent` what a call carries between
its commands (`RequestInv`), that a record read is current unless a script has
changed the registry since (`ReadInv`, which makes each refused script cost one
change and gives `ContentionIsCaused`), and that a minted id is registered once
(`MintedInv`, which gives `MintedDeletesAreIdempotent`). `LookupsHeldDuringCall` adds
what a lookup carries (`ResolvedInv`): the nickname's holder is recorded at every
instant of the call, and what the first read resolved still holds the nickname or
gave it up since, when the nickname was free. The scripts'
stale-reading check is what makes `RegistryConsistent` inductive: the nickname maps
to this player, so by consistency it is the player's current nickname.

**PlayersProofs.** `TokenInv` is what a request holds at each command; `MintInv`, that
one request at most is about to bind a minted player, with its creator's token, and
that the player is unbound or was found early. `BindingsAreCounted` counts: a
successful SETNX adds a binding and an increment to come, and each of those becomes
the counter's or a lost one.

**TenancyProofs.** `FiledInv` relates keys, scopes and apps at rest, `CleanInv` says
that records and indexes of an app agree unless it is `raced` or `spilled`, and
`CallsInv` what each command of a call in progress relies on of its earlier reads, in
particular that a deletion still has every key and board of the app ahead of it.
`RedisStoreRefinesStore` maps the first Redis states to the initial state of
`TenancyStore`, and each command to one of its steps or to none: the command that
makes a call visible (an EXEC, a SET of the record) is the abstract call, the others
leave what callers can read as it is.

**AccountsProofs.** `TokenInv`: a token that can still be read has not been used, and
GETDEL removes it with the first use. `AccountInv` and `SessionInv` hold the
properties and what they need: an account has a record before anything refers to it,
and a session ends no later than the set that lists it. `CallsInv` is what a call
knows of the user and sessions it has read, unless `raced` or `overlapped` has
recorded the exception.

**WindowsProofs.** The calendar first, for every day: `CivilFacts` shows that the
year, month and day `CivilFromDay` computes are those the day lies in (`IsDay`),
`DateFacts` and `NextMonth` that `Date` leads back, also over year ends and leap days,
and `DayIsUnique` that there is one such month. `DailyEnd`, `WeeklyEnd` and
`MonthlyEnd` say what `ParseEnd` reads off an id (the Monday after the week's
Thursday, whatever year the week is filed under), and with `TilesDay` give
`WindowsTileTheCalendar`. `AgeInv`: only a window past its retention is in a sweep's
scan or has an expiry, and it stays past it; a window that is lost at a `Tick` had
one, so it is not retained: `RetainedWindowsAreKept`. `HistogramGoesToo` is inductive as
it stands, since it compares the expiries of a ranking and its histogram and not only
their presence: a `Tick` then takes both away or neither.

Assumptions are the named ASSUMEs of each module; TLC evaluates them in every run.
Beyond types and finiteness they say that `None` is no value of the sets it is added
to, that the bound on signing-key versions admits a first rotation (`MaxVersion` at
least 2), that ids given out and claimed differ, and that `2^timeBits` and `2^ScoreBits`
are positive integers (`PowerAssumption`: true of every width, but the provers know
nothing of exponentiation).

Model-checked only: liveness (`AcceptedIsHandled`, `AgedOutExpires`), since fairness and
ENABLED are outside the prover.

`TypeOK` is checked by a run for the write path, and proved in every module with proofs.

## Not modelled

The wording of HTTP requests and answers, CORS, metrics, static files, email,
cryptography, key syntax, the SDKs, the dashboard, deployment and the load
generator. Redis itself is external: each command is atomic, a pipeline is a
sequence of commands that others may interleave with, data survives. A flush or
failover of Redis (NOGROUP), stream trimming and malformed entries are left out.

## Plan

1. Board configurations that change while workers hold an older copy
   (`server.go:288`).
2. The in-memory log and the polling consumer (`memlog.go`, `consumer.go`), and an
   abstract write path that both consumers implement without faults.
3. Engine reads command by command (`redis_engine.go:305`).
