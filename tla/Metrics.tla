------------------------------ MODULE Metrics ------------------------------
(***************************************************************************)
(* The server's metrics (halide-cache-server/src/metrics.rs): one mutex    *)
(* around the totals, a ring of per-minute buckets, a bounded table of     *)
(* clients, the last latencies and the ages of evicted entries; and what   *)
(* the handlers of stats.rs compute from them.                             *)
(*                                                                         *)
(* A step is what one call does while it holds the mutex.  The only state  *)
(* read before it is the time of an event or of a scan: it may be out of   *)
(* date, by at most MaxLag seconds, when the mutex is taken.  The system   *)
(* clock is not set back.                                                  *)
(*                                                                         *)
(* A Counters is the set of the events added to it: a field's value is the *)
(* number, or the bytes, of those of a kind, and two Counters agree if the *)
(* sets do.  Gauges (sizes, load, memory) and host names are left out.     *)
(***************************************************************************)
EXTENDS Integers, FiniteSets, Sequences

CONSTANTS
  Client,          \* ip addresses
  Timed,           \* kinds of request whose latencies are kept
  Duration,        \* latencies
  EvictedLists,    \* lists of last_used times a pass can report as evicted
  BucketSeconds,   \* BUCKET_SECONDS
  MaxBuckets,      \* MAX_BUCKETS
  MaxClients,      \* MAX_CLIENTS
  LatencySamples,  \* LATENCY_SAMPLES
  AgeBounds,       \* AGE_BOUNDS without the last, u64::MAX
  MaxLag,          \* bound: seconds from a call of now() to the mutex
  MaxClock,        \* bound: the last second
  MaxEvents,       \* bound: events recorded
  MaxEvictions,    \* bound: entries reported as evicted
  None

ASSUME SizesAssumption ==
  {BucketSeconds, MaxBuckets, MaxClients, LatencySamples} \subseteq Nat \ {0}
ASSUME BoundsAssumption == {MaxLag, MaxClock, MaxEvents, MaxEvictions} \subseteq Nat
ASSUME DurationAssumption == Duration \subseteq Nat
ASSUME AgesAssumption ==
  AgeBounds \in Seq(Nat) /\ EvictedLists \subseteq Seq(Nat)

Time == 0 .. MaxClock
\* Events are told apart by the order in which they got the mutex.
Event == [no : 1 .. MaxEvents, client : Client, ts : Time]
Counters == SUBSET Event
Bucket == [ts : Time, events : Counters]
ClientStats == [events : Counters, first : Time, last : Time]
Ages == 1 .. Len(AgeBounds) + 1

ASSUME NoneAssumption == None \notin ClientStats

VARIABLES
  clock,      \* SystemTime::now(), in seconds
  recorded,   \* how many events have been recorded
  totals,
  history,    \* the ring of buckets, the newest at the back
  clients,    \* the line of each client in the table, or None
  latency,    \* get_latency and put_latency
  ages,       \* eviction_ages
  evictions   \* store.evictions

tables == <<recorded, totals, history, clients>>
vars == <<clock, tables, latency, ages, evictions>>

Known == {k \in Client : clients[k] # None}

TypeOK ==
  /\ clock \in Time
  /\ recorded \in 0 .. MaxEvents
  /\ totals \in Counters
  /\ history \in Seq(Bucket)
  /\ Len(history) <= MaxBuckets
  /\ clients \in [Client -> ClientStats \cup {None}]
  /\ IsFiniteSet(Known)
  /\ Cardinality(Known) <= MaxClients
  /\ latency \in [Timed -> Seq(Duration)]
  /\ \A r \in Timed : Len(latency[r]) <= LatencySamples
  /\ ages \in [Ages -> Nat]
  /\ evictions \in Nat

Init ==
  /\ clock = 0
  /\ recorded = 0
  /\ totals = {}
  /\ history = <<>>
  /\ clients = [k \in Client |-> None]
  /\ latency = [r \in Timed |-> <<>>]
  /\ ages = [a \in Ages |-> 0]
  /\ evictions = 0

Start(t) == t - (t % BucketSeconds)

-----------------------------------------------------------------------------
(* Mutants: definitions below with one plausible mistake in them.  The     *)
(* specification does not use them.                                        *)

\* A late event goes into the newest bucket.
CurrentBucketLate(h, t) ==
  IF h # <<>> /\ h[Len(h)].ts >= Start(t) THEN h
  ELSE LET g == Append(h, [ts |-> Start(t), events |-> {}])
       IN IF Len(g) > MaxBuckets THEN Tail(g) ELSE g

\* The client that came first goes, not the one seen longest ago.
LongestUnseenFirst(T) ==
  {k \in Client : T[k] # None /\
     \A j \in Client : T[j] # None => T[k].first <= T[j].first}

\* The time is that of the request's beginning, however long ago.
RecentRequests == 0 .. clock

\* An entry last used in the future has no age and is not filed.
FileEvictedSkips(when, evicted, a) ==
  {i \in DOMAIN evicted : evicted[i] <= when /\
     (a = Len(AgeBounds) + 1 \/ when - evicted[i] < AgeBounds[a]) /\
     \A b \in 1 .. a - 1 : when - evicted[i] >= AgeBounds[b]}

\* A sample is dropped when there is one too many, not when the window is full.
PushSampleLate(s, d) ==
  Append(IF Len(s) > LatencySamples THEN Tail(s) ELSE s, d)

\* The index is cut off, not rounded.
RankTruncated(n, percent) == ((n - 1) * percent) \div 100

\* A bucket counts as old when it began before the window.
HistoryNarrow(since) == {i \in DOMAIN history : history[i].ts > since}

-----------------------------------------------------------------------------
(* The calls *)

\* What now() may have returned to a call that holds the mutex now.
Recent == {t \in Time : t <= clock /\ clock - t <= MaxLag}

\* current_bucket: the newest bucket if it is that of t's minute, and a new one
\* behind it otherwise, also when t's minute is over; the oldest makes room.
CurrentBucket(h, t) ==
  IF h # <<>> /\ h[Len(h)].ts = Start(t) THEN h
  ELSE LET g == Append(h, [ts |-> Start(t), events |-> {}])
       IN IF Len(g) > MaxBuckets THEN Tail(g) ELSE g

AddEvent(h, e) == [h EXCEPT ![Len(h)].events = @ \cup {e}]

\* min_by_key of last_seen, over a HashMap: any of the clients with the minimum.
LongestUnseen(T) ==
  {k \in Client : T[k] # None /\
     \A j \in Client : T[j] # None => T[k].last <= T[j].last}

\* The tables there may be once there is room for k.
Room(k) ==
  IF Cardinality(Known) >= MaxClients /\ k \notin Known
  THEN {[clients EXCEPT ![o] = None] : o \in LongestUnseen(clients)}
  ELSE {clients}

\* entry(..).or_insert_with(..), last_seen and counters.
Seen(T, e) ==
  [T EXCEPT ![e.client] =
     IF @ = None THEN [events |-> {e}, first |-> e.ts, last |-> e.ts]
     ELSE [events |-> @.events \cup {e}, first |-> @.first, last |-> e.ts]]

\* record, of an event of client k.
Record(k) ==
  /\ recorded < MaxEvents
  /\ recorded' = recorded + 1
  /\ \E t \in Recent :
       LET e == [no |-> recorded + 1, client |-> k, ts |-> t] IN
       /\ totals' = totals \cup {e}
       /\ history' = AddEvent(CurrentBucket(history, t), e)
       /\ \E T \in Room(k) : clients' = Seen(T, e)
  /\ UNCHANGED <<clock, latency, ages, evictions>>

Age(when, used) == IF used <= when THEN when - used ELSE 0

\* The entries evicted that are filed under the a-th age: the first whose bound
\* is above their own.
FileEvicted(when, evicted, a) ==
  {i \in DOMAIN evicted :
     /\ a = Len(AgeBounds) + 1 \/ Age(when, evicted[i]) < AgeBounds[a]
     /\ \A b \in 1 .. a - 1 : Age(when, evicted[i]) >= AgeBounds[b]}

\* record_scan, after a pass that evicted entries last used at these times.
RecordScan(evicted) ==
  /\ evictions + Len(evicted) <= MaxEvictions
  /\ evictions' = evictions + Len(evicted)
  /\ \E when \in Recent :
       ages' = [a \in Ages |-> ages[a] + Cardinality(FileEvicted(when, evicted, a))]
  /\ history' = CurrentBucket(history, clock)
  /\ UNCHANGED <<clock, recorded, totals, clients, latency>>

\* record_host, every five seconds (system.rs).
RecordHost ==
  /\ history' = CurrentBucket(history, clock)
  /\ UNCHANGED <<clock, recorded, totals, clients, latency, ages, evictions>>

PushSample(s, d) ==
  Append(IF Len(s) = LatencySamples THEN Tail(s) ELSE s, d)

RecordLatency(r, d) ==
  /\ latency' = [latency EXCEPT ![r] = PushSample(@, d)]
  /\ UNCHANGED <<clock, tables, ages, evictions>>

Tick ==
  /\ clock < MaxClock
  /\ clock' = clock + 1
  /\ UNCHANGED <<tables, latency, ages, evictions>>

Next ==
  \/ \E k \in Client : Record(k)
  \/ \E evicted \in EvictedLists : RecordScan(evicted)
  \/ RecordHost
  \/ \E r \in Timed, d \in Duration : RecordLatency(r, d)
  \/ Tick

Spec == Init /\ [][Next]_vars

-----------------------------------------------------------------------------
(* What the handlers read *)

\* history: the places in the ring of the buckets it returns, in their order.
History(since) == {i \in DOMAIN history : history[i].ts + BucketSeconds > since}

\* summarize: the sample at an index of the sorted samples, the index being
\* rounded half up.
Rank(n, percent) == (2 * (n - 1) * percent + 100) \div 200

Percentile(s, percent) ==
  CHOOSE d \in {s[i] : i \in DOMAIN s} :
    /\ Cardinality({i \in DOMAIN s : s[i] < d}) <= Rank(Len(s), percent)
    /\ Cardinality({i \in DOMAIN s : s[i] <= d}) > Rank(Len(s), percent)

\* The running sum that prometheus writes for the a-th age.
Cumulative[a \in 0 .. Len(AgeBounds) + 1] ==
  IF a = 0 THEN 0 ELSE Cumulative[a - 1] + ages[a]

-----------------------------------------------------------------------------
(* Properties *)

Kept == UNION {history[i].events : i \in DOMAIN history}

\* The three tables that `record` updates tell the same story: an event is
\* counted in the totals, in at most one bucket, which is that of its minute
\* however late it came, and in the line of its client only.
CountersAgree ==
  /\ \A i \in DOMAIN history :
       /\ history[i].events \subseteq totals
       /\ \A e \in history[i].events : Start(e.ts) = history[i].ts
       /\ \A j \in DOMAIN history :
            i # j => history[i].events \cap history[j].events = {}
  /\ \A k \in Known :
       clients[k].events \subseteq {e \in totals : e.client = k}

\* Events may reach the ring out of order, since their time is read before the
\* mutex is taken (metrics.rs:138), but the ring is never further out of order
\* than a call can lag behind.
NearlyOrdered ==
  \A i, j \in DOMAIN history :
    i < j => history[i].ts < history[j].ts + BucketSeconds + MaxLag

\* An answer of `history` has every event of its window that the ring still
\* holds, in spite of the disorder and of a window that begins within a minute.
WindowComplete ==
  \A since \in 0 .. clock : \A e \in Kept :
    e.ts >= since => \E i \in History(since) : e \in history[i].events

\* The ring loses events of the bucket that was added longest ago only, and
\* only when it is full.
RingForgetsOldest ==
  [][\A e \in Kept :
       e \notin Kept' => Len(history) = MaxBuckets /\ e \in history[1].events]_vars

\* A client that is not in the table was not seen later than one that is, but
\* for the time a call can lag behind: last_seen goes back when a late call is
\* recorded (metrics.rs:160), and a client can come back after it was dropped.
ForgottenLongestAgo ==
  \A e \in totals : e.client \notin Known =>
    \A k \in Known : e.ts <= clients[k].last + MaxLag

\* The histogram's _count and +Inf bucket are the counter of evictions
\* (stats.rs:259-273), whatever times the entries were used at.
HistogramAgrees == Cumulative[Len(AgeBounds) + 1] = evictions

\* At least half of the samples in the window are no more than the median and
\* half no less, and at most one in twenty, rounded up, is above the p95.
SummariesRight ==
  \A r \in Timed : latency[r] # <<>> =>
    LET s == latency[r]
        n == Len(s)
        median == Percentile(s, 50)
        p95 == Percentile(s, 95)
    IN /\ 2 * Cardinality({i \in DOMAIN s : s[i] <= median}) >= n
       /\ 2 * Cardinality({i \in DOMAIN s : s[i] >= median}) >= n
       /\ 20 * Cardinality({i \in DOMAIN s : s[i] > p95}) <= n + 9

\* "24 hours of per-minute counters" (CHANGELOG.md:31): a minute has one bucket.
\* The dashboard relies on it, it keeps one bucket for each time
\* (dashboard.html:159).
OneBucketPerMinute ==
  \A i, j \in DOMAIN history : history[i].ts = history[j].ts => i = j
=============================================================================
