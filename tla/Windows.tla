------------------------------- MODULE Windows -------------------------------
(***************************************************************************)
(* Dated windows (engine/board.go, window/window.go) and the reaper that   *)
(* ages them out of Redis (window/reaper.go).  Every server process runs   *)
(* a reaper of its own, and each starts at its own moment.                 *)
(*                                                                         *)
(* Time is counted in days from 1970-01-01, a Thursday.  The reaper's      *)
(* interval and ttl, hours in the code, are counted in the same unit: only *)
(* their order and the reapers' phases matter.  A window id is the tuple   *)
(* of the fields its text is formatted from and parsed back into.          *)
(***************************************************************************)
EXTENDS Integers, FiniteSets

CONSTANTS
    Kinds,        \* the windows of the board: among "all", "daily", "weekly", "monthly"
    CustomIDs,    \* the ids of its custom windows, as their definition gives them
    Reapers,      \* one per server process
    Retain,       \* LB_REAPER_RETAIN
    Interval,     \* LB_REAPER_INTERVAL
    TTL,          \* the expiry Sweep sets
    StartDays,    \* days a behaviour may begin on
    Horizon,      \* bound: days before the clock stands still (expiries go on)
    Delays,       \* how late an event can be applied
    MaxEvents,    \* bound: events applied
    MaxMishaps    \* bound: members removed, and sweeps and batches that end with an error

ASSUME KindAssumption == Kinds \subseteq {"all", "daily", "weekly", "monthly"}
ASSUME WindowAssumption ==
    /\ Retain \in Nat /\ Interval \in Nat \ {0} /\ TTL \in Nat \ {0} /\ Horizon \in Nat
    /\ StartDays \subseteq Nat /\ Delays \subseteq Nat
    /\ MaxEvents \in Nat /\ MaxMishaps \in Nat

-----------------------------------------------------------------------------
(* The proleptic Gregorian calendar of Go's time package. *)

\* Years are counted from March, so that a leap day ends one.
CivilFromDay(day) ==
    LET z == day + 719468
        era == z \div 146097
        doe == z % 146097
        yoe == (doe - doe \div 1460 + doe \div 36524 - doe \div 146096) \div 365
        doy == doe - (365 * yoe + yoe \div 4 - yoe \div 100)
        mp == (5 * doy + 2) \div 153
        m == IF mp < 10 THEN mp + 3 ELSE mp - 9
    IN [year  |-> yoe + 400 * era + (IF m <= 2 THEN 1 ELSE 0),
        month |-> m,
        day   |-> doy - (153 * mp + 2) \div 5 + 1]

\* A month 13 is January of the next year, as time.Date and AddDate take it.
Date(year, month, dom) ==
    LET y == (IF month > 12 THEN year + 1 ELSE year)
        m == (IF month > 12 THEN month - 12 ELSE month)
        yy == (IF m <= 2 THEN y - 1 ELSE y)
        yoe == yy % 400
        doy == (153 * (IF m > 2 THEN m - 3 ELSE m + 9) + 2) \div 5 + dom - 1
    IN (yy \div 400) * 146097 + 365 * yoe + yoe \div 4 - yoe \div 100 + doy - 719468

\* Monday = 0 .. Sunday = 6.
Weekday(day) == (day + 3) % 7

\* The year and week of the Thursday of the day's week.
ISOWeek(day) ==
    LET thursday == day - Weekday(day) + 3
        year == CivilFromDay(thursday).year
    IN [year |-> year, week |-> (thursday - Date(year, 1, 1)) \div 7 + 1]

-----------------------------------------------------------------------------
(* WindowSpec.WindowID and ParseEnd. *)

\* Faulty variant: a week is filed under the calendar year of its day.
WindowIDCalendarYear(kind, day) ==
    LET c == CivilFromDay(day)
    IN CASE kind = "daily"   -> <<"d", c.year, c.month, c.day>>
         [] kind = "weekly"  -> <<"w", c.year, ISOWeek(day).week>>
         [] kind = "monthly" -> <<"m", c.year, c.month>>
         [] OTHER            -> <<"all">>

WindowID(kind, day) ==
    LET c == CivilFromDay(day)
        w == ISOWeek(day)
    IN CASE kind = "daily"   -> <<"d", c.year, c.month, c.day>>
         [] kind = "weekly"  -> <<"w", w.year, w.week>>
         [] kind = "monthly" -> <<"m", c.year, c.month>>
         [] OTHER            -> <<"all">>

\* Faulty variant: week 1 is the week of January 1st.
isoWeekStartJan1(year, week) ==
    LET jan1 == Date(year, 1, 1) IN jan1 - Weekday(jan1) + 7 * (week - 1)

isoWeekStart(year, week) ==
    LET jan4 == Date(year, 1, 4) IN jan4 - Weekday(jan4) + 7 * (week - 1)

\* Faulty variant: months are not recognised.
DatedNoMonths(id) == id[1] \in {"d", "w"}

Dated(id) == id[1] \in {"d", "w", "m"}

\* The first day after the window.
ParseEnd(id) ==
    CASE id[1] = "d" -> Date(id[2], id[3], id[4]) + 1
      [] id[1] = "m" -> Date(id[2], id[3] + 1, 1)
      [] id[1] = "w" -> isoWeekStart(id[2], id[3]) + 7

\* A custom id may be of dated form; ParseEnd then reads an end off it.
ASSUME CustomAssumption == \A id \in CustomIDs : Dated(id) => ParseEnd(id) \in Int

-----------------------------------------------------------------------------
VARIABLES
    start,     \* the day the behaviour began on
    now,       \* today
    z,         \* the ranking of each window in Redis: days to its expiry, 0 for never
    h,         \* the histogram of each window, likewise
    counting,  \* windows ranked by a batch whose histograms it has still to update
    leaving,   \* the window a member was taken from, its histogram still to be told
    due,       \* due[r]: days to the reaper's next tick
    scan,      \* scan[r]: the windows its sweep has still to expire
    sweeping,  \* reapers in a sweep
    stopped,   \* reapers whose Run has returned
    events,    \* events applied, for the bound
    mishaps,   \* members removed and sweeps and batches failed, for the bound
    torn       \* history: windows of which a failed sweep expired the ranking only, whose
               \* histogram was created when the ranking was already going, or whose last
               \* member was removed; until a sweep expires both keys

vars == <<start, now, z, h, counting, leaving, due, scan, sweeping, stopped, events, mishaps,
          torn>>

Init ==
    /\ start \in StartDays
    /\ now = start
    /\ z = <<>>
    /\ h = <<>>
    /\ counting = {}
    /\ leaving = {}
    /\ due \in [Reapers -> 1..Interval]
    /\ scan = [r \in Reapers |-> {}]
    /\ sweeping = {}
    /\ stopped = {}
    /\ events = 0
    /\ mishaps = 0
    /\ torn = {}

\* A write creates the keys it needs without an expiry and leaves the expiry of
\* one that exists as it is.
Written(keys, ids) ==
    [w \in DOMAIN keys \cup ids |-> IF w \in DOMAIN keys THEN keys[w] ELSE 0]

\* An event is ranked: in the windows of its own time, however late it comes, and in
\* the custom ones (DerivePhysicalBoards).
Apply(delay) ==
    LET ids == {WindowID(kind, now - delay) : kind \in Kinds} \cup CustomIDs IN
    /\ counting = {}
    /\ events < MaxEvents
    /\ events' = events + 1
    /\ z' = Written(z, ids)
    /\ counting' = ids
    /\ UNCHANGED <<start, now, h, leaving, due, scan, sweeping, stopped, mishaps, torn>>

\* The ranking of window w is set to expire, or has gone.
Going(w) == w \in DOMAIN z => z[w] # 0

\* HINCRBY on the histograms of ids, which creates those that are missing.
Count(ids) ==
    /\ h' = Written(h, ids)
    /\ torn' = torn \cup {w \in ids \ DOMAIN h : Going(w)}

\* The second pipeline of the batch, for the histograms: every event is taken to
\* move its score.  It is never sent when it fails or the process stops first.
MaintainHistograms ==
    /\ counting # {}
    /\ counting' = {}
    /\ \/ Count(counting) /\ UNCHANGED mishaps
       \/ /\ mishaps < MaxMishaps
          /\ mishaps' = mishaps + 1
          /\ UNCHANGED <<h, torn>>
    /\ UNCHANGED <<start, now, z, leaving, due, scan, sweeping, stopped, events>>

\* Remove: ZREM takes a member of window w out.  Redis deletes the key of a sorted
\* set whose last member goes; members are not told apart, it may have been the last.
Remove(w) ==
    /\ leaving = {}
    /\ mishaps < MaxMishaps
    /\ mishaps' = mishaps + 1
    /\ leaving' = {w}
    /\ \/ UNCHANGED <<z, torn>>
       \/ z' = [v \in DOMAIN z \ {w} |-> z[v]] /\ torn' = torn \cup {w}
    /\ UNCHANGED <<start, now, h, counting, due, scan, sweeping, stopped, events>>

\* Remove's last command takes the member out of the histogram, whose key stays; it
\* too is never sent when it fails or the process stops first.
RemoveFromHistogram ==
    /\ leaving # {}
    /\ leaving' = {}
    /\ Count(leaving) \/ UNCHANGED <<h, torn>>
    /\ UNCHANGED <<start, now, z, counting, due, scan, sweeping, stopped, events, mishaps>>

\* Sweep's condition on a key, and EXPIRE: of a key that is gone it does nothing.
AgedOut(id) == Dated(id) /\ now > ParseEnd(id) + Retain

Expire(keys, id) == IF id \in DOMAIN keys THEN [keys EXCEPT ![id] = TTL] ELSE keys

\* The ticker fires and the sweep begins.  Of the rankings SCAN returns, the sweep
\* acts on those whose window has aged out by the time it reads here, once.
SweepStart(r) ==
    /\ due[r] = 0
    /\ r \notin stopped \cup sweeping
    /\ due' = [due EXCEPT ![r] = Interval]
    /\ sweeping' = sweeping \cup {r}
    /\ scan' = [scan EXCEPT ![r] = {id \in DOMAIN z : AgedOut(id)}]
    /\ UNCHANGED <<start, now, z, h, counting, leaving, stopped, events, mishaps, torn>>

\* Faulty variant: the histogram is forgotten.
SweepKeyRankingOnly(r, id) ==
    /\ id \in scan[r]
    /\ scan' = [scan EXCEPT ![r] = @ \ {id}]
    /\ z' = Expire(z, id)
    /\ torn' = torn \ ({id} \cap DOMAIN z)
    /\ UNCHANGED <<start, now, h, counting, leaving, due, sweeping, stopped, events, mishaps>>

\* One window of the scan: its expiries go in one pipeline.
SweepKey(r, id) ==
    /\ id \in scan[r]
    /\ scan' = [scan EXCEPT ![r] = @ \ {id}]
    /\ z' = Expire(z, id)
    /\ h' = Expire(h, id)
    /\ torn' = torn \ ({id} \cap DOMAIN z)
    /\ UNCHANGED <<start, now, counting, leaving, due, sweeping, stopped, events, mishaps>>

SweepEnd(r) ==
    /\ r \in sweeping
    /\ scan[r] = {}
    /\ sweeping' = sweeping \ {r}
    /\ UNCHANGED <<start, now, z, h, counting, leaving, due, scan, stopped, events, mishaps, torn>>

\* SCAN or a pipeline fails, the latter perhaps after its first command: Sweep
\* returns the error, Run returns it, and main only logs it.
SweepFails(r) ==
    /\ r \in sweeping
    /\ mishaps < MaxMishaps
    /\ mishaps' = mishaps + 1
    /\ sweeping' = sweeping \ {r}
    /\ stopped' = stopped \cup {r}
    /\ scan' = [scan EXCEPT ![r] = {}]
    /\ \/ UNCHANGED <<z, torn>>
       \/ \E id \in scan[r] : z' = Expire(z, id) /\ torn' = torn \cup {id}
    /\ UNCHANGED <<start, now, h, counting, leaving, due, events>>

\* The process is restarted and its reaper with it.
Restart(r) ==
    /\ r \in stopped
    /\ stopped' = stopped \ {r}
    /\ due' = [due EXCEPT ![r] = Interval]
    /\ UNCHANGED <<start, now, z, h, counting, leaving, scan, sweeping, events, mishaps, torn>>

Running == Reapers \ stopped

Elapse(keys) ==
    [w \in {x \in DOMAIN keys : keys[x] # 1} |-> IF keys[w] = 0 THEN 0 ELSE keys[w] - 1]

\* A day passes.  Sweeps, batches and removals are short: a sweep that is due starts,
\* and ends, first.
Tick ==
    /\ counting = {} /\ leaving = {}
    /\ sweeping = {}
    /\ \A r \in Running : due[r] > 0
    /\ now' = IF now < start + Horizon THEN now + 1 ELSE now
    /\ z' = Elapse(z)
    /\ h' = Elapse(h)
    /\ due' = [r \in Reapers |-> IF r \in Running THEN due[r] - 1 ELSE due[r]]
    /\ UNCHANGED <<start, counting, leaving, scan, sweeping, stopped, events, mishaps, torn>>

Sweep(r) == SweepStart(r) \/ (\E id \in scan[r] : SweepKey(r, id)) \/ SweepEnd(r)

Next ==
    \/ \E delay \in Delays : Apply(delay)
    \/ MaintainHistograms
    \/ \E w \in DOMAIN z : Remove(w)
    \/ RemoveFromHistogram
    \/ \E r \in Reapers : Sweep(r) \/ SweepFails(r) \/ Restart(r)
    \/ Tick

Spec == Init /\ [][Next]_vars

\* Time passes, a batch or a removal is finished or given up, and a reaper that is running gets
\* on with its sweep.
FairSpec ==
    /\ Spec /\ WF_vars(Tick) /\ WF_vars(MaintainHistograms) /\ WF_vars(RemoveFromHistogram)
    /\ \A r \in Reapers : WF_vars(Sweep(r))

-----------------------------------------------------------------------------
(* Properties *)

\* Expiries and timers stay within what the reaper sets.
TypeOK ==
    /\ start \in StartDays /\ now \in start..(start + Horizon)
    /\ \A w \in DOMAIN z : z[w] \in 0..TTL
    /\ \A w \in DOMAIN h : h[w] \in 0..TTL
    /\ due \in [Reapers -> 0..Interval]
    /\ DOMAIN scan = Reapers /\ \A r \in Reapers : scan[r] # {} => r \in sweeping
    /\ sweeping \subseteq Running /\ stopped \subseteq Reapers
    /\ events \in 0..MaxEvents /\ mishaps \in 0..MaxMishaps

\* The windows that last or are retained on a day: those events are filed under that
\* have a day that was not over more than Retain ago, and the custom ones, but for one
\* whose id the reaper takes for that of a day, a week or a month.
RetainedOn ==
    [day \in UNION {s..(s + Horizon) : s \in StartDays} |->
        {WindowID(kind, d) : kind \in Kinds, d \in (day - 1 - Retain)..day}
            \cup {id \in CustomIDs : ~Dated(id)}]

\* Windows tile the calendar: the end ParseEnd reads off a window's id is the first
\* day that has another id, over year ends, 53-week years and leap days.
WindowsTile ==
    \A kind \in Kinds \ {"all"} :
        LET id == WindowID(kind, now) IN
            /\ now < ParseEnd(id)
            /\ WindowID(kind, now + 1) = id <=> now + 1 # ParseEnd(id)

\* No ranking is lost while its window lasts or is retained, whatever the reapers and
\* late events do, but to the removal of its last member: "all" never expires.
RetainedWindowsKept == [][(DOMAIN z \ DOMAIN z') \cap RetainedOn[now'] \subseteq leaving']_vars

\* A window's histogram and its ranking expire together, so that neither outlives the
\* other, unless one of three things has come between them since a sweep last found
\* the window: the pipeline that set their expiries was cut, the sweep came between the
\* two pipelines of the batch that created both, or a removal took the last member and
\* with it the ranking.  Sweeps find windows by their rankings only.
HistogramGoesToo == \A w \in DOMAIN h \ torn : w \in DOMAIN z /\ h[w] = z[w]

\* A window that has aged out is gone in the end, and stays away once events stop,
\* unless the reaper has stopped.
AgedOutExpires == <>[](stopped # {} \/ DOMAIN z \subseteq RetainedOn[now])
=============================================================================
