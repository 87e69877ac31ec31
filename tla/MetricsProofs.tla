--------------------------- MODULE MetricsProofs ---------------------------
(***************************************************************************)
(* Proofs about Metrics for every size of the tables, every lag of the     *)
(* calls and any number of events, clients and evictions: the tables stay  *)
(* bounded and agree, the ring is nearly in order and forgets the oldest   *)
(* first, the table of clients forgets those seen longest ago, the running *)
(* sums of the histogram end at its counter, and the median and the p95    *)
(* are where they should be among the samples.                             *)
(***************************************************************************)
EXTENDS Metrics, Minima

\* No event is ahead of the clock or of its number.
EventsPast == \A e \in totals : e.no <= recorded /\ e.ts <= clock

\* No minute in the ring is ahead of the clock.
BucketsPast == \A i \in DOMAIN history : history[i].ts <= clock

\* last_seen is behind the client's events by no more than a call can lag.
SeenLately ==
  \A e \in totals : e.client \in Known => e.ts <= clients[e.client].last + MaxLag

\* The inductive invariant of Metrics.
IInv ==
  /\ TypeOK /\ CountersAgree /\ NearlyOrdered /\ ForgottenLongestAgo
  /\ EventsPast /\ BucketsPast /\ SeenLately
-----------------------------------------------------------------------------
(* The ring *)

\* The minute of an instant begins less than a minute before it.
LEMMA StartBounds ==
  ASSUME NEW t \in Time
  PROVE  /\ Start(t) \in Time
         /\ Start(t) <= t /\ t < Start(t) + BucketSeconds
<1>1. t \in Nat /\ BucketSeconds \in Nat \ {0} /\ MaxClock \in Nat
  BY SizesAssumption, BoundsAssumption DEF Time
<1>2. t % BucketSeconds \in 0 .. BucketSeconds - 1
  BY <1>1
<1>3. t % BucketSeconds <= t
  <2>1. t < BucketSeconds => t % BucketSeconds = t
    BY <1>1
  <2> QED
    BY <1>1, <1>2, <2>1
<1> QED
  BY <1>1, <1>2, <1>3 DEF Start, Time

\* g is the ring h after a step that put the events X into t's minute: without
\* the oldest lo buckets, if h was full, and with one behind it, or not.
Pushed(h, g, t, X) ==
  /\ g \in Seq(Bucket)
  /\ Len(g) \in 1 .. MaxBuckets
  /\ \E lo \in {0, 1} :
       /\ lo = 1 => Len(h) = MaxBuckets
       /\ Len(h) <= Len(g) + lo
       /\ \A i \in 1 .. Len(g) :
            \/ /\ i + lo \in 1 .. Len(h)
               /\ g[i].ts = h[i + lo].ts
               /\ i < Len(g) /\ g[i].events = h[i + lo].events
            \/ /\ i = Len(g) /\ i + lo = Len(h)
               /\ g[i].ts = h[i + lo].ts /\ g[i].ts = Start(t)
               /\ g[i].events = h[i + lo].events \cup X
            \/ /\ i = Len(g) /\ i + lo = Len(h) + 1
               /\ g[i].ts = Start(t) /\ g[i].events = X

\* What current_bucket does to the ring.
LEMMA CurrentBucketPushes ==
  ASSUME NEW h \in Seq(Bucket), Len(h) <= MaxBuckets, NEW t \in Time
  PROVE  Pushed(h, CurrentBucket(h, t), t, {})
<1> DEFINE new == [ts |-> Start(t), events |-> {}]
           app == Append(h, new)
<1>1. new \in Bucket /\ new.ts = Start(t) /\ new.events = {}
  BY StartBounds DEF Bucket, Counters
<1>2. MaxBuckets \in Nat \ {0} /\ Len(h) \in Nat
  BY SizesAssumption
<1> HIDE DEF new
<1>3. /\ app \in Seq(Bucket) /\ Len(app) = Len(h) + 1 /\ app[Len(h) + 1] = new
      /\ \A i \in 1 .. Len(h) : app[i] = h[i]
  BY <1>1
<1>4. CASE h # <<>> /\ h[Len(h)].ts = Start(t)
  <2>1. CurrentBucket(h, t) = h
    BY <1>4 DEF CurrentBucket
  <2>2. Len(h) \in 1 .. MaxBuckets
    BY <1>4, <1>2
  <2>3. \A i \in 1 .. Len(h) : i + 0 = i
    OBVIOUS
  <2> QED
    BY <2>1, <2>2, <2>3, <1>2, <1>4 DEF Pushed
<1>5. CASE ~(h # <<>> /\ h[Len(h)].ts = Start(t)) /\ Len(app) <= MaxBuckets
  <2>1. CurrentBucket(h, t) = app
    BY <1>5, <1>2, <1>3 DEF CurrentBucket, new
  <2>2. \A i \in 1 .. Len(app) : i + 0 = i
    OBVIOUS
  <2> QED
    BY <2>1, <2>2, <1>1, <1>2, <1>3, <1>5 DEF Pushed
<1>6. CASE ~(h # <<>> /\ h[Len(h)].ts = Start(t)) /\ Len(app) > MaxBuckets
  <2>1. CurrentBucket(h, t) = Tail(app)
    BY <1>6, <1>2, <1>3 DEF CurrentBucket, new
  <2>2. /\ Tail(app) \in Seq(Bucket) /\ Len(Tail(app)) = Len(h)
        /\ \A i \in 1 .. Len(h) : Tail(app)[i] = app[i + 1]
    BY <1>2, <1>3, app # <<>>
  <2>3. Len(h) = MaxBuckets
    BY <1>2, <1>3, <1>6
  <2> QED
    BY <2>1, <2>2, <2>3, <1>1, <1>2, <1>3 DEF Pushed
<1> QED
  BY <1>2, <1>3, <1>4, <1>5, <1>6

\* ... and what record does to it.
LEMMA AddEventPushes ==
  ASSUME NEW h \in Seq(Bucket), Len(h) <= MaxBuckets, NEW t \in Time,
         NEW e \in Event
  PROVE  Pushed(h, AddEvent(CurrentBucket(h, t), e), t, {e})
<1> DEFINE g == CurrentBucket(h, t)
           f == AddEvent(g, e)
<1>1. Pushed(h, g, t, {})
  BY CurrentBucketPushes
<1> HIDE DEF g
<1>2. g \in Seq(Bucket) /\ Len(g) \in 1 .. MaxBuckets /\ Len(g) \in Nat
  BY <1>1 DEF Pushed
<1>3. g[Len(g)] \in Bucket
  BY <1>2
<1>4. f \in Seq(Bucket) /\ Len(f) = Len(g)
  BY <1>2, <1>3 DEF AddEvent, Bucket, Counters
<1>5. /\ f[Len(g)].ts = g[Len(g)].ts
      /\ f[Len(g)].events = g[Len(g)].events \cup {e}
  BY <1>2, <1>3 DEF AddEvent, Bucket
<1>6. \A i \in 1 .. Len(g) : i < Len(g) => f[i] = g[i]
  BY <1>2 DEF AddEvent
<1> HIDE DEF f
<1>7. PICK lo \in {0, 1} :
        /\ lo = 1 => Len(h) = MaxBuckets
        /\ Len(h) <= Len(g) + lo
        /\ \A i \in 1 .. Len(g) :
             \/ /\ i + lo \in 1 .. Len(h)
                /\ g[i].ts = h[i + lo].ts
                /\ i < Len(g) /\ g[i].events = h[i + lo].events
             \/ /\ i = Len(g) /\ i + lo = Len(h)
                /\ g[i].ts = h[i + lo].ts /\ g[i].ts = Start(t)
                /\ g[i].events = h[i + lo].events \cup {}
             \/ /\ i = Len(g) /\ i + lo = Len(h) + 1
                /\ g[i].ts = Start(t) /\ g[i].events = {}
  BY <1>1 DEF Pushed
<1>8. \A i \in 1 .. Len(f) :
        \/ /\ i + lo \in 1 .. Len(h)
           /\ f[i].ts = h[i + lo].ts
           /\ i < Len(f) /\ f[i].events = h[i + lo].events
        \/ /\ i = Len(f) /\ i + lo = Len(h)
           /\ f[i].ts = h[i + lo].ts /\ f[i].ts = Start(t)
           /\ f[i].events = h[i + lo].events \cup {e}
        \/ /\ i = Len(f) /\ i + lo = Len(h) + 1
           /\ f[i].ts = Start(t) /\ f[i].events = {e}
  BY <1>2, <1>4, <1>5, <1>6, <1>7
<1>9. f \in Seq(Bucket) /\ Len(f) \in 1 .. MaxBuckets /\ Len(h) <= Len(f) + lo
  BY <1>2, <1>4, <1>7
<1> QED
  BY <1>7, <1>8, <1>9 DEF Pushed, f, g

\* A step that pushes the new events X, all of t's minute, keeps the ring in
\* agreement with the totals and nearly in order.
RingOK ==
  /\ history \in Seq(Bucket) /\ Len(history) <= MaxBuckets
  /\ \A i \in DOMAIN history :
       /\ history[i].events \subseteq totals
       /\ \A e \in history[i].events : Start(e.ts) = history[i].ts
       /\ \A j \in DOMAIN history :
            i # j => history[i].events \cap history[j].events = {}
  /\ NearlyOrdered
  /\ BucketsPast

LEMMA PushPreserves ==
  ASSUME RingOK, NEW t \in Recent, clock \in Time, clock' = clock,
         NEW X, Pushed(history, history', t, X),
         \A e \in X : e \notin totals /\ Start(e.ts) = Start(t),
         totals' = totals \cup X
  PROVE  RingOK'
<1>1. /\ history \in Seq(Bucket) /\ history' \in Seq(Bucket)
      /\ Len(history) \in Nat /\ Len(history') \in 1 .. MaxBuckets
      /\ MaxBuckets \in Nat
  BY SizesAssumption DEF RingOK, Pushed
<1>2. /\ DOMAIN history = 1 .. Len(history)
      /\ DOMAIN history' = 1 .. Len(history')
  BY <1>1
<1>3. PICK lo \in {0, 1} :
        \A i \in 1 .. Len(history') :
          \/ /\ i + lo \in 1 .. Len(history)
             /\ history'[i].ts = history[i + lo].ts
             /\ i < Len(history') /\ history'[i].events = history[i + lo].events
          \/ /\ i = Len(history') /\ i + lo = Len(history)
             /\ history'[i].ts = history[i + lo].ts /\ history'[i].ts = Start(t)
             /\ history'[i].events = history[i + lo].events \cup X
          \/ /\ i = Len(history') /\ i + lo = Len(history) + 1
             /\ history'[i].ts = Start(t) /\ history'[i].events = X
  BY DEF Pushed
<1>4. /\ t \in Nat /\ clock \in Nat /\ MaxLag \in Nat /\ BucketSeconds \in Nat
      /\ t <= clock /\ clock <= t + MaxLag
      /\ Start(t) \in Nat /\ Start(t) <= t /\ t < Start(t) + BucketSeconds
  BY StartBounds, SizesAssumption, BoundsAssumption DEF Recent, Time
<1>5. \A i \in 1 .. Len(history) : history[i].ts \in Nat
  <2> TAKE i \in 1 .. Len(history)
  <2>1. history[i] \in Bucket
    BY <1>1
  <2> QED
    BY <2>1, BoundsAssumption DEF Bucket, Time
<1>6. \A i \in 1 .. Len(history) :
        /\ history[i].events \subseteq totals /\ history[i].ts <= clock
        /\ history[i].events \cap X = {}
        /\ \A e \in history[i].events : Start(e.ts) = history[i].ts
  BY <1>2 DEF RingOK, BucketsPast
<1>7. \A i \in 1 .. Len(history') :
        /\ history'[i].events \subseteq totals'
        /\ history'[i].ts \in Nat /\ history'[i].ts <= clock
        /\ \A e \in history'[i].events : Start(e.ts) = history'[i].ts
  <2> TAKE i \in 1 .. Len(history')
  <2>1. CASE /\ i + lo \in 1 .. Len(history)
             /\ history'[i].ts = history[i + lo].ts
             /\ history'[i].events = history[i + lo].events
    BY <2>1, <1>5, <1>6
  <2>2. CASE /\ i + lo = Len(history)
             /\ history'[i].ts = history[i + lo].ts /\ history'[i].ts = Start(t)
             /\ history'[i].events = history[i + lo].events \cup X
    <3>1. Len(history) \in 1 .. Len(history)
      BY <2>2, <1>1
    <3> QED
      BY <2>2, <3>1, <1>5, <1>6
  <2>3. CASE history'[i].ts = Start(t) /\ history'[i].events = X
    BY <2>3, <1>4
  <2> QED
    BY <2>1, <2>2, <2>3, <1>3
<1>8. ASSUME NEW i \in 1 .. Len(history'), NEW j \in 1 .. Len(history'), i # j
      PROVE  history'[i].events \cap history'[j].events = {}
  <2>1. /\ i + lo # j + lo /\ i \in Int /\ j \in Int /\ lo \in Int
        /\ \A m, n \in 1 .. Len(history) :
             m # n => history[m].events \cap history[n].events = {}
    BY <1>2, <1>8 DEF RingOK
  <2>2. CASE i < Len(history') /\ j < Len(history')
    <3>1. /\ i + lo \in 1 .. Len(history)
          /\ history'[i].events = history[i + lo].events
      BY <1>3, <2>2
    <3>2. /\ j + lo \in 1 .. Len(history)
          /\ history'[j].events = history[j + lo].events
      BY <1>3, <2>2
    <3> QED
      BY <2>1, <3>1, <3>2
  <2>3. CASE i = Len(history')
    <3>1. /\ j < Len(history') /\ j + lo \in 1 .. Len(history)
          /\ history'[j].events = history[j + lo].events
      BY <2>1, <2>3, <1>1, <1>3, <1>8
    <3> QED
      BY <2>1, <2>3, <3>1, <1>3, <1>6
  <2>4. CASE j = Len(history')
    <3>1. /\ i < Len(history') /\ i + lo \in 1 .. Len(history)
          /\ history'[i].events = history[i + lo].events
      BY <2>1, <2>4, <1>1, <1>3, <1>8
    <3> QED
      BY <2>1, <2>4, <3>1, <1>3, <1>6
  <2> QED
    BY <2>2, <2>3, <2>4, <1>1
<1>9. ASSUME NEW i \in 1 .. Len(history'), NEW j \in 1 .. Len(history'), i < j
      PROVE  history'[i].ts < history'[j].ts + BucketSeconds + MaxLag
  <2>1. /\ i < Len(history') /\ i + lo \in 1 .. Len(history)
        /\ history'[i].ts = history[i + lo].ts
    BY <1>1, <1>3, <1>9
  <2>2. CASE j < Len(history')
    <3>1. /\ j + lo \in 1 .. Len(history) /\ i + lo < j + lo
          /\ history'[j].ts = history[j + lo].ts
      BY <2>2, <1>3, <1>9
    <3> QED
      BY <2>1, <3>1, <1>2 DEF RingOK, NearlyOrdered
  <2>3. CASE j = Len(history')
    <3>1. history'[j].ts = Start(t)
      BY <2>3, <1>3
    <3> QED
      BY <2>1, <3>1, <1>4, <1>5, <1>6
  <2> QED
    BY <2>2, <2>3, <1>1
<1> QED
  BY <1>1, <1>2, <1>7, <1>8, <1>9 DEF RingOK, NearlyOrdered, BucketsPast

\* Such a step loses none but the events of the front of a full ring.
LEMMA PushForgetsOldest ==
  ASSUME RingOK, NEW t, NEW X, Pushed(history, history', t, X), NEW e \in Kept,
         e \notin Kept'
  PROVE  Len(history) = MaxBuckets /\ e \in history[1].events
<1>1. /\ DOMAIN history = 1 .. Len(history) /\ Len(history) \in Nat
      /\ DOMAIN history' = 1 .. Len(history') /\ Len(history') \in Nat
  BY DEF RingOK, Pushed
<1>2. PICK i \in 1 .. Len(history) : e \in history[i].events
  BY <1>1 DEF Kept
<1>3. PICK lo \in {0, 1} :
        /\ lo = 1 => Len(history) = MaxBuckets
        /\ Len(history) <= Len(history') + lo
        /\ \A j \in 1 .. Len(history') :
             \/ history'[j].events = history[j + lo].events
             \/ history'[j].events = history[j + lo].events \cup X
             \/ j + lo = Len(history) + 1
  BY DEF Pushed
<1>4. ~(i - lo \in 1 .. Len(history'))
  <2> SUFFICES ASSUME i - lo \in 1 .. Len(history') PROVE FALSE
    OBVIOUS
  <2>1. (i - lo) + lo = i /\ i <= Len(history)
    BY <1>1
  <2>2. e \in history'[i - lo].events
    <3>1. \/ history'[i - lo].events = history[i].events
          \/ history'[i - lo].events = history[i].events \cup X
      BY <1>1, <1>3, <2>1
    <3> QED
      BY <1>2, <3>1
  <2> QED
    BY <2>2, <1>1 DEF Kept
<1> QED
  BY <1>1, <1>2, <1>3, <1>4
-----------------------------------------------------------------------------
(* The table of clients *)

ClientsOK ==
  /\ clients \in [Client -> ClientStats \cup {None}]
  /\ IsFiniteSet(Known) /\ Cardinality(Known) <= MaxClients
  /\ \A k \in Known :
       clients[k].events \subseteq {e \in totals : e.client = k}
  /\ ForgottenLongestAgo
  /\ SeenLately

\* Once there is room for k: a table that had all of the clients but, maybe,
\* one of those seen longest ago.
LEMMA RoomMade ==
  ASSUME ClientsOK, NEW k \in Client, NEW T \in Room(k)
  PROVE  LET K == {j \in Client : T[j] # None} IN
         /\ T \in [Client -> ClientStats \cup {None}]
         /\ K \subseteq Known /\ \A j \in K : T[j] = clients[j]
         /\ IsFiniteSet(K \cup {k}) /\ Cardinality(K \cup {k}) <= MaxClients
         /\ \A o \in Known \ K, j \in K : clients[o].last <= clients[j].last
<1> DEFINE K == {j \in Client : T[j] # None}
<1>1. /\ MaxClients \in Nat \ {0} /\ IsFiniteSet(Known)
      /\ Cardinality(Known) \in Nat /\ Cardinality(Known) <= MaxClients
  BY SizesAssumption, FS_CardinalityType DEF ClientsOK
<1>2. CASE Cardinality(Known) >= MaxClients /\ k \notin Known
  <2>1. PICK o \in LongestUnseen(clients) : T = [clients EXCEPT ![o] = None]
    BY <1>2 DEF Room
  <2>2. o \in Known /\ \A j \in Known : clients[o].last <= clients[j].last
    BY DEF LongestUnseen, Known
  <2>3. T \in [Client -> ClientStats \cup {None}] /\ K = Known \ {o}
    BY <2>1, <2>2 DEF ClientsOK, Known
  <2>4. \A j \in K : T[j] = clients[j]
    BY <2>1, <2>3 DEF ClientsOK, Known
  <2>5. IsFiniteSet(K) /\ Cardinality(K) = Cardinality(Known) - 1
    BY <1>1, <2>2, <2>3, FS_RemoveElement, SMTT(40)
  <2>6. IsFiniteSet(K \cup {k}) /\ Cardinality(K \cup {k}) = Cardinality(K) + 1
    <3>1. k \notin K
      BY <1>2, <2>3
    <3> HIDE DEF K
    <3> QED
      BY <2>5, <3>1, FS_AddElement
  <2> QED
    BY <1>1, <2>2, <2>3, <2>4, <2>5, <2>6
<1>3. CASE ~(Cardinality(Known) >= MaxClients /\ k \notin Known)
  <2>1. T = clients /\ K = Known
    BY <1>3 DEF Room, Known
  <2>2. CASE k \in Known
    <3>1. K \cup {k} = Known
      BY <2>1, <2>2
    <3> QED
      BY <1>1, <2>1, <3>1 DEF ClientsOK
  <2>3. CASE k \notin Known
    <3>1. Cardinality(Known) < MaxClients
      BY <1>1, <1>3, <2>3
    <3>2. /\ IsFiniteSet(K \cup {k})
          /\ Cardinality(K \cup {k}) = Cardinality(Known) + 1
      BY <1>1, <2>1, <2>3, FS_AddElement
    <3> QED
      BY <1>1, <2>1, <3>1, <3>2 DEF ClientsOK
  <2> QED
    BY <2>2, <2>3
<1> QED
  BY <1>2, <1>3

\* record keeps the table bounded, and forgets whom it has not seen for longest.
LEMMA SeenPreserves ==
  ASSUME ClientsOK, EventsPast, totals \in Counters, clock \in Time,
         NEW k \in Client, NEW t \in Recent, NEW e \in Event,
         e.client = k, e.ts = t,
         NEW T \in Room(k), clients' = Seen(T, e),
         totals' = totals \cup {e}
  PROVE  ClientsOK'
<1> DEFINE K == {j \in Client : T[j] # None}
<1>1. /\ T \in [Client -> ClientStats \cup {None}]
      /\ K \subseteq Known /\ \A j \in K : T[j] = clients[j]
      /\ IsFiniteSet(K \cup {k}) /\ Cardinality(K \cup {k}) <= MaxClients
      /\ \A o \in Known \ K, j \in K : clients[o].last <= clients[j].last
  BY RoomMade
<1>2. /\ t \in Time /\ t \in Int /\ clock \in Int /\ MaxLag \in Nat
      /\ clock <= t + MaxLag
  BY BoundsAssumption DEF Recent, Time
<1>3. \A j \in Known : /\ clients[j] \in ClientStats /\ clients[j].last \in Int
                       /\ clients[j].events \subseteq {x \in totals : x.client = j}
  <2> TAKE j \in Known
  <2>1. clients[j] \in ClientStats
    BY DEF Known, ClientsOK
  <2>2. clients[j].last \in Int
    BY <2>1, BoundsAssumption DEF ClientStats, Time
  <2> QED
    BY <2>1, <2>2 DEF ClientsOK
<1>4. \A x \in totals : x.ts \in Int /\ x.ts <= clock
  BY BoundsAssumption DEF EventsPast, Counters, Event, Time
<1>5. /\ clients' \in [Client -> ClientStats \cup {None}]
      /\ clients'[k] \in ClientStats /\ clients'[k].last = t
      /\ clients'[k].events \subseteq {x \in totals' : x.client = k}
      /\ \A j \in Client : j # k => clients'[j] = T[j]
  <2>1. CASE T[k] = None
    <3>1. clients' = [T EXCEPT ![k] = [events |-> {e}, first |-> t, last |-> t]]
      BY <2>1 DEF Seen
    <3>2. [events |-> {e}, first |-> t, last |-> t] \in ClientStats
      BY <1>2 DEF ClientStats, Counters
    <3> QED
      BY <1>1, <3>1, <3>2
  <2>2. CASE T[k] # None
    <3>1. T[k] = clients[k] /\ k \in Known
      BY <1>1, <2>2
    <3>2. clients' = [T EXCEPT ![k] = [events |-> clients[k].events \cup {e},
                                       first |-> clients[k].first, last |-> t]]
      BY <2>2, <3>1 DEF Seen
    <3>3. [events |-> clients[k].events \cup {e}, first |-> clients[k].first,
           last |-> t] \in ClientStats
      BY <1>2, <1>3, <3>1 DEF ClientStats, Counters
    <3> QED
      BY <1>1, <1>3, <3>1, <3>2, <3>3
  <2> QED
    BY <2>1, <2>2
<1>6. Known' = K \cup {k}
  BY <1>5, NoneAssumption DEF Known
<1>7. \A j \in Known' : j # k =>
        /\ j \in Known /\ clients'[j] = clients[j]
        /\ \A o \in Known \ K : clients[o].last <= clients[j].last
  BY <1>1, <1>5, <1>6
<1>8. \A j \in Known' : clients'[j].events \subseteq {x \in totals' : x.client = j}
  BY <1>3, <1>5, <1>7
<1>9. ForgottenLongestAgo'
  <2> SUFFICES ASSUME NEW x \in totals', x.client \notin Known', NEW j \in Known'
               PROVE  x.ts <= clients'[j].last + MaxLag
    BY DEF ForgottenLongestAgo
  <2>1. x \in totals
    BY <1>6
  <2>2. CASE j = k
    BY <2>1, <2>2, <1>2, <1>4, <1>5
  <2>3. CASE j # k /\ x.client \notin Known
    BY <2>1, <2>3, <1>7 DEF ClientsOK, ForgottenLongestAgo
  <2>4. CASE j # k /\ x.client \in Known
    <3>1. x.client \in Known \ K
      BY <2>4, <1>6
    <3>2. x.ts <= clients[x.client].last + MaxLag
      BY <2>1, <2>4 DEF ClientsOK, SeenLately
    <3> QED
      BY <2>1, <2>4, <3>1, <3>2, <1>2, <1>3, <1>4, <1>7
  <2> QED
    BY <2>2, <2>3, <2>4
<1>10. SeenLately'
  <2> SUFFICES ASSUME NEW x \in totals', x.client \in Known'
               PROVE  x.ts <= clients'[x.client].last + MaxLag
    BY DEF SeenLately
  <2>1. CASE x.client = k
    BY <2>1, <1>2, <1>4, <1>5
  <2>2. CASE x.client # k
    BY <2>2, <1>7 DEF ClientsOK, SeenLately
  <2> QED
    BY <2>1, <2>2
<1> QED
  BY <1>1, <1>5, <1>6, <1>8, <1>9, <1>10 DEF ClientsOK
-----------------------------------------------------------------------------
(* The invariant *)

LEMMA IInvSplit ==
  IInv <=> TypeOK /\ RingOK /\ ClientsOK /\ EventsPast
BY DEF IInv, TypeOK, RingOK, ClientsOK, CountersAgree

\* The age under which an entry is filed is counted for each list of a pass.
LEMMA FiledFinite ==
  ASSUME NEW evicted \in EvictedLists, NEW when, NEW a
  PROVE  Cardinality(FileEvicted(when, evicted, a)) \in Nat
<1>1. evicted \in Seq(Nat) /\ Len(evicted) \in Nat /\ DOMAIN evicted = 1 .. Len(evicted)
  BY AgesAssumption
<1>2. IsFiniteSet(DOMAIN evicted)
  BY <1>1, FS_Interval
<1>3. FileEvicted(when, evicted, a) \subseteq DOMAIN evicted
  BY DEF FileEvicted
<1> QED
  BY <1>2, <1>3, FS_Subset, FS_CardinalityType

LEMMA InitEstablishes == Init => IInv
<1> SUFFICES ASSUME Init PROVE IInv
  OBVIOUS
<1>1. Known = {} /\ IsFiniteSet(Known) /\ Cardinality(Known) = 0
  BY FS_EmptySet DEF Init, Known
<1>2. /\ history = <<>> /\ history \in Seq(Bucket) /\ Len(history) = 0
      /\ DOMAIN history = {}
  BY DEF Init
<1>3. TypeOK
  BY <1>1, <1>2, SizesAssumption, BoundsAssumption
  DEF Init, TypeOK, Time, Counters
<1> QED
  BY <1>1, <1>2, <1>3
  DEF Init, IInv, CountersAgree, NearlyOrdered, ForgottenLongestAgo,
      EventsPast, BucketsPast, SeenLately

\* A step that leaves the three tables and the clock to others.
LEMMA TablesKept ==
  ASSUME IInv, TypeOK', UNCHANGED tables, clock' \in Nat, clock <= clock'
  PROVE  IInv'
<1>1. clock \in Nat /\ Known' = Known
  BY BoundsAssumption DEF IInv, TypeOK, Time, tables, Known
<1>2. \A e \in totals : e.ts \in Nat
  BY BoundsAssumption DEF IInv, TypeOK, Counters, Event, Time
<1>3. ASSUME NEW i \in DOMAIN history PROVE history[i].ts \in Nat
  <2>1. history[i] \in Bucket
    BY DEF IInv, TypeOK
  <2> QED
    BY <2>1, BoundsAssumption DEF Bucket, Time
<1> QED
  BY <1>1, <1>2, <1>3
  DEF IInv, tables, CountersAgree, NearlyOrdered, ForgottenLongestAgo,
      EventsPast, BucketsPast, SeenLately

\* record_scan and record_host: a bucket and no event.
LEMMA GaugePreserves ==
  ASSUME IInv, history' = CurrentBucket(history, clock), clock' = clock,
         UNCHANGED <<recorded, totals, clients>>,
         latency' = latency, ages' \in [Ages -> Nat], evictions' \in Nat
  PROVE  IInv'
<1>1. /\ TypeOK /\ RingOK /\ ClientsOK /\ EventsPast
  BY IInvSplit
<1>2. clock \in Recent
  BY <1>1, BoundsAssumption DEF TypeOK, Recent, Time
<1>3. Pushed(history, history', clock, {})
  BY <1>1, CurrentBucketPushes DEF TypeOK
<1>4. RingOK'
  BY <1>1, <1>2, <1>3, PushPreserves DEF TypeOK
<1>5. ClientsOK' /\ EventsPast'
  BY <1>1 DEF ClientsOK, EventsPast, Known, ForgottenLongestAgo, SeenLately
<1>6. TypeOK'
  BY <1>1, <1>4, <1>5 DEF TypeOK, RingOK, ClientsOK
<1> QED
  BY <1>4, <1>5, <1>6 DEF IInv, RingOK, ClientsOK, CountersAgree

LEMMA RecordPreserves ==
  ASSUME IInv, NEW k \in Client, Record(k)
  PROVE  IInv'
<1>1. /\ TypeOK /\ RingOK /\ ClientsOK /\ EventsPast
  BY IInvSplit
<1>2. PICK t \in Recent :
        LET e == [no |-> recorded + 1, client |-> k, ts |-> t] IN
        /\ totals' = totals \cup {e}
        /\ history' = AddEvent(CurrentBucket(history, t), e)
        /\ \E T \in Room(k) : clients' = Seen(T, e)
  BY DEF Record
<1> DEFINE e == [no |-> recorded + 1, client |-> k, ts |-> t]
<1>3. /\ recorded \in Nat /\ recorded + 1 \in 1 .. MaxEvents
      /\ recorded' = recorded + 1 /\ clock' = clock
      /\ UNCHANGED <<latency, ages, evictions>>
  BY <1>1, BoundsAssumption DEF TypeOK, Record
<1>4. /\ e \in Event /\ e.client = k /\ e.ts = t /\ e.no = recorded + 1
      /\ t \in Time /\ t <= clock
  BY <1>3 DEF Event, Recent
<1>5. \A x \in totals : x.no \in Nat /\ x.no <= recorded
  BY <1>1, BoundsAssumption DEF EventsPast, TypeOK, Counters, Event
<1>6. e \notin totals
  BY <1>3, <1>4, <1>5
<1>7. PICK T \in Room(k) : clients' = Seen(T, e)
  BY <1>2
<1>8. totals' = totals \cup {e} /\ history' = AddEvent(CurrentBucket(history, t), e)
  BY <1>2
<1> HIDE DEF e
<1>9. Pushed(history, history', t, {e})
  BY <1>1, <1>4, <1>8, AddEventPushes DEF TypeOK
<1>10. RingOK'
  BY <1>1, <1>3, <1>4, <1>6, <1>8, <1>9, PushPreserves DEF TypeOK
<1>11. ClientsOK'
  BY <1>1, <1>4, <1>7, <1>8, SeenPreserves DEF TypeOK
<1>12. EventsPast'
  BY <1>1, <1>3, <1>4, <1>5, <1>8 DEF EventsPast
<1>13. TypeOK'
  BY <1>1, <1>3, <1>4, <1>8, <1>10, <1>11, BoundsAssumption
  DEF TypeOK, RingOK, ClientsOK, Counters
<1> QED
  BY <1>10, <1>11, <1>12, <1>13 DEF IInv, RingOK, ClientsOK, CountersAgree

LEMMA RecordLatencyPreserves ==
  ASSUME IInv, NEW r \in Timed, NEW d \in Duration, RecordLatency(r, d)
  PROVE  IInv'
<1>1. TypeOK /\ latency[r] \in Seq(Duration) /\ Len(latency[r]) <= LatencySamples
  BY DEF IInv, TypeOK
<1>2. LatencySamples \in Nat \ {0} /\ Len(latency[r]) \in Nat
  BY <1>1, SizesAssumption
<1>3. /\ PushSample(latency[r], d) \in Seq(Duration)
      /\ Len(PushSample(latency[r], d)) <= LatencySamples
  <2>1. CASE Len(latency[r]) = LatencySamples
    <3>1. /\ Tail(latency[r]) \in Seq(Duration)
          /\ Len(Tail(latency[r])) = LatencySamples - 1
      BY <2>1, <1>1, <1>2, latency[r] # <<>>
    <3>2. PushSample(latency[r], d) = Append(Tail(latency[r]), d)
      BY <2>1 DEF PushSample
    <3> QED
      BY <3>1, <3>2, <1>2
  <2>2. CASE Len(latency[r]) # LatencySamples
    <3>1. PushSample(latency[r], d) = Append(latency[r], d)
      BY <2>2 DEF PushSample
    <3> QED
      BY <2>2, <3>1, <1>1, <1>2
  <2> QED
    BY <2>1, <2>2
<1>4. /\ latency' \in [Timed -> Seq(Duration)]
      /\ \A q \in Timed : Len(latency'[q]) <= LatencySamples
  <2> HIDE DEF PushSample
  <2> QED
    BY <1>1, <1>3 DEF RecordLatency, TypeOK
<1>5. TypeOK' /\ UNCHANGED tables /\ clock' = clock /\ clock \in Nat
  BY <1>1, <1>4, BoundsAssumption
  DEF RecordLatency, TypeOK, tables, Time, Known
<1> QED
  BY <1>5, TablesKept

LEMMA NextPreserves == IInv /\ [Next]_vars => IInv'
<1> SUFFICES ASSUME IInv, [Next]_vars PROVE IInv'
  OBVIOUS
<1>1. TypeOK /\ clock \in Nat
  BY BoundsAssumption DEF IInv, TypeOK, Time
<1>2. ASSUME NEW k \in Client, Record(k) PROVE IInv'
  BY <1>2, RecordPreserves
<1>3. ASSUME NEW evicted \in EvictedLists, RecordScan(evicted) PROVE IInv'
  <2>1. PICK when \in Recent :
          ages' = [a \in Ages |->
                     ages[a] + Cardinality(FileEvicted(when, evicted, a))]
    BY <1>3 DEF RecordScan
  <2>2. ages' \in [Ages -> Nat]
    BY <2>1, <1>1, FiledFinite DEF TypeOK
  <2>3. evictions' \in Nat
    <3>1. evicted \in Seq(Nat)
      BY AgesAssumption
    <3> QED
      BY <3>1, <1>1, <1>3 DEF RecordScan, TypeOK
  <2> QED
    BY <1>3, <2>2, <2>3, GaugePreserves DEF RecordScan
<1>4. CASE RecordHost
  BY <1>1, <1>4, GaugePreserves DEF RecordHost, TypeOK
<1>5. ASSUME NEW r \in Timed, NEW d \in Duration, RecordLatency(r, d) PROVE IInv'
  BY <1>5, RecordLatencyPreserves
<1>6. CASE Tick
  <2>1. TypeOK' /\ UNCHANGED tables /\ clock' \in Nat /\ clock <= clock'
    BY <1>1, <1>6, BoundsAssumption DEF Tick, TypeOK, tables, Time, Known
  <2> QED
    BY <2>1, TablesKept
<1>7. CASE UNCHANGED vars
  <2>1. TypeOK' /\ UNCHANGED tables /\ clock' \in Nat /\ clock <= clock'
    BY <1>1, <1>7 DEF vars, TypeOK, tables, Known
  <2> QED
    BY <2>1, TablesKept
<1> QED
  BY <1>2, <1>3, <1>4, <1>5, <1>6, <1>7 DEF Next

THEOREM Invariance == Spec => []IInv
<1>1. Init => IInv
  BY InitEstablishes
<1>2. IInv /\ [Next]_vars => IInv'
  BY NextPreserves
<1> QED
  BY <1>1, <1>2, PTL DEF Spec
-----------------------------------------------------------------------------
(* What follows from it *)

\* The ring, the table of clients and the windows of latencies never outgrow
\* their limits, whatever is recorded.
THEOREM TypeCorrect == Spec => []TypeOK
<1>1. IInv => TypeOK
  BY DEF IInv
<1> QED
  BY <1>1, Invariance, PTL

\* Every event is counted in the totals, in one bucket and by one client at most.
THEOREM CountersStayInAgreement == Spec => []CountersAgree
<1>1. IInv => CountersAgree
  BY DEF IInv
<1> QED
  BY <1>1, Invariance, PTL

\* The ring is never further out of order than a call can lag behind.
THEOREM RingStaysNearlyOrdered == Spec => []NearlyOrdered
<1>1. IInv => NearlyOrdered
  BY DEF IInv
<1> QED
  BY <1>1, Invariance, PTL

\* The clients missing from the table were not seen later than those in it, but
\* for that lag.
THEOREM ForgottenWereSeenLongestAgo == Spec => []ForgottenLongestAgo
<1>1. IInv => ForgottenLongestAgo
  BY DEF IInv
<1> QED
  BY <1>1, Invariance, PTL

\* history returns every event of its window that the ring still holds.
THEOREM WindowStaysComplete == Spec => []WindowComplete
<1>1. IInv => WindowComplete
  <2> SUFFICES ASSUME IInv, NEW since \in 0 .. clock, NEW e \in Kept, e.ts >= since
               PROVE  \E i \in History(since) : e \in history[i].events
    BY DEF WindowComplete
  <2>1. PICK i \in DOMAIN history : e \in history[i].events
    BY DEF Kept
  <2>2. Start(e.ts) = history[i].ts /\ e.ts \in Time
    BY <2>1 DEF IInv, CountersAgree, TypeOK, Counters, Event
  <2>3. /\ since \in Int /\ e.ts \in Int /\ history[i].ts \in Int
        /\ BucketSeconds \in Int /\ e.ts < history[i].ts + BucketSeconds
    BY <2>2, StartBounds, SizesAssumption, BoundsAssumption DEF Time
  <2> QED
    BY <2>1, <2>3 DEF History
<1> QED
  BY <1>1, Invariance, PTL

\* The ring loses events of its oldest bucket only, and only when it is full.
THEOREM RingLosesTheOldest == Spec => RingForgetsOldest
<1>1. IInv /\ [Next]_vars =>
        [\A e \in Kept :
           e \notin Kept' => Len(history) = MaxBuckets /\ e \in history[1].events]_vars
  <2> SUFFICES ASSUME IInv, Next, NEW e \in Kept, e \notin Kept'
               PROVE  Len(history) = MaxBuckets /\ e \in history[1].events
    OBVIOUS
  <2>1. /\ RingOK /\ clock \in Time /\ history \in Seq(Bucket)
        /\ Len(history) <= MaxBuckets
    BY IInvSplit DEF IInv, TypeOK
  <2>2. ASSUME history' = history PROVE FALSE
    BY <2>2 DEF Kept
  <2>3. ASSUME history' = CurrentBucket(history, clock)
        PROVE  Len(history) = MaxBuckets /\ e \in history[1].events
    BY <2>1, <2>3, CurrentBucketPushes, PushForgetsOldest
  <2>4. ASSUME NEW k \in Client, Record(k)
        PROVE  Len(history) = MaxBuckets /\ e \in history[1].events
    <3>1. PICK t \in Recent :
            history' = AddEvent(CurrentBucket(history, t),
                                [no |-> recorded + 1, client |-> k, ts |-> t])
      BY <2>4 DEF Record
    <3>2. t \in Time /\ [no |-> recorded + 1, client |-> k, ts |-> t] \in Event
      BY <2>4, BoundsAssumption DEF Recent, Record, Event, IInv, TypeOK
    <3> QED
      BY <2>1, <3>1, <3>2, AddEventPushes, PushForgetsOldest
  <2> QED
    BY <2>2, <2>3, <2>4
    DEF Next, RecordScan, RecordHost, RecordLatency, Tick, tables
<1> QED
  BY <1>1, Invariance, PTL DEF Spec, RingForgetsOldest
-----------------------------------------------------------------------------
(* The histogram of the ages of evicted entries *)

LastAge == Len(AgeBounds) + 1

\* The running sum of g up to n, and the function it is.
SumsStep(n, g, f) == f = [a \in 0 .. n |-> IF a = 0 THEN 0 ELSE f[a - 1] + g[a]]

Sums(g) == CHOOSE f : SumsStep(LastAge, g, f)

LEMMA CumulativeIs == Cumulative = Sums(ages)
  BY DEF Cumulative, Sums, SumsStep, LastAge

LEMMA LastAgeType == LastAge \in Nat \ {0} /\ Ages = 1 .. LastAge
  BY AgesAssumption DEF LastAge, Ages

LEMMA SumsExist ==
  ASSUME NEW g
  PROVE  \A n \in Nat : \E f : SumsStep(n, g, f)
<1> DEFINE C == {n \in Nat : \E f : SumsStep(n, g, f)}
<1>1. 0 \in C
  <2>1. SumsStep(0, g, [a \in 0 .. 0 |-> 0])
    BY DEF SumsStep
  <2> QED
    BY <2>1
<1>2. ASSUME NEW n \in Nat, n \in C PROVE n + 1 \in C
  <2>1. PICK f : SumsStep(n, g, f)
    BY <1>2
  <2> DEFINE h == [a \in 0 .. n + 1 |-> IF a = n + 1 THEN f[n] + g[n + 1] ELSE f[a]]
  <2>2. SumsStep(n + 1, g, h)
    <3>1. ASSUME NEW a \in 0 .. n + 1
          PROVE  h[a] = IF a = 0 THEN 0 ELSE h[a - 1] + g[a]
      <4>1. CASE a = n + 1
        BY <4>1
      <4>2. CASE a # n + 1
        <5>1. a \in 0 .. n /\ h[a] = f[a]
          BY <4>2
        <5>2. f[a] = IF a = 0 THEN 0 ELSE f[a - 1] + g[a]
          BY <2>1, <5>1 DEF SumsStep
        <5>3. a # 0 => a - 1 \in 0 .. n + 1 /\ a - 1 # n + 1
          BY <5>1
        <5> QED
          BY <5>1, <5>2, <5>3
      <4> QED
        BY <4>1, <4>2
    <3> QED
      BY <3>1 DEF SumsStep
  <2> QED
    BY <2>2
<1> HIDE DEF C
<1>3. \A n \in Nat : n \in C
  BY <1>1, <1>2, AllNumbers
<1> QED
  BY <1>3 DEF C

\* What the recursion says of the running sums.
LEMMA SumsEquation ==
  ASSUME NEW g
  PROVE  /\ Sums(g)[0] = 0
         /\ \A a \in 1 .. LastAge : Sums(g)[a] = Sums(g)[a - 1] + g[a]
<1>1. SumsStep(LastAge, g, Sums(g))
  BY LastAgeType, SumsExist DEF Sums
<1> QED
  BY <1>1, LastAgeType DEF SumsStep

LEMMA SumsType ==
  ASSUME NEW g \in [Ages -> Nat]
  PROVE  \A a \in 0 .. LastAge : Sums(g)[a] \in Nat
<1> DEFINE C == {a \in Nat : a <= LastAge => Sums(g)[a] \in Nat}
<1>1. 0 \in C
  BY SumsEquation
<1>2. ASSUME NEW a \in Nat, a \in C PROVE a + 1 \in C
  <2>1. SUFFICES ASSUME a + 1 <= LastAge PROVE Sums(g)[a + 1] \in Nat
    OBVIOUS
  <2>2. a + 1 \in 1 .. LastAge /\ a <= LastAge /\ (a + 1) - 1 = a
    BY <2>1, LastAgeType
  <2>3. Sums(g)[a + 1] = Sums(g)[(a + 1) - 1] + g[a + 1]
    BY <2>2, SumsEquation
  <2>4. g[a + 1] \in Nat
    BY <2>2, LastAgeType
  <2>5. Sums(g)[a] \in Nat
    BY <1>2, <2>2
  <2> QED
    BY <2>2, <2>3, <2>4, <2>5
<1> HIDE DEF C
<1>3. \A a \in Nat : a \in C
  BY <1>1, <1>2, AllNumbers
<1> QED
  BY <1>3, LastAgeType DEF C

\* The entries filed under one of the first ages.
FiledBelow(when, evicted, a) ==
  {i \in DOMAIN evicted : \E b \in 1 .. a : i \in FileEvicted(when, evicted, b)}

\* Every entry evicted is filed under one age, and under no other.
LEMMA FiledOnce ==
  ASSUME NEW when \in Time, NEW evicted \in Seq(Nat)
  PROVE  /\ FiledBelow(when, evicted, LastAge) = DOMAIN evicted
         /\ \A a \in 1 .. LastAge :
              FileEvicted(when, evicted, a) \cap FiledBelow(when, evicted, a - 1) = {}
<1>1. when \in Nat /\ LastAge \in Nat \ {0} /\ LastAge = Len(AgeBounds) + 1
  BY LastAgeType, BoundsAssumption DEF Time, LastAge
<1>2. \A i \in DOMAIN evicted : Age(when, evicted[i]) \in Nat
  BY <1>1 DEF Age
<1>3. \A b \in 1 .. LastAge - 1 : AgeBounds[b] \in Nat
  BY <1>1, AgesAssumption
<1>4. ASSUME NEW i \in DOMAIN evicted
      PROVE  \E a \in 1 .. LastAge : i \in FileEvicted(when, evicted, a)
  <2> DEFINE above == {a \in 1 .. LastAge :
                        a = LastAge \/ Age(when, evicted[i]) < AgeBounds[a]}
  <2>1. above \in SUBSET Nat /\ LastAge \in above
    BY <1>1
  <2>2. PICK a \in above : \A b \in above : a <= b
    <3> HIDE DEF above
    <3> QED
      BY <2>1, LeastNumber
  <2>3. ASSUME NEW b \in 1 .. a - 1 PROVE Age(when, evicted[i]) >= AgeBounds[b]
    <3>1. b \in 1 .. LastAge - 1 /\ b \notin above
      BY <1>1, <2>2
    <3> QED
      BY <1>1, <1>2, <1>3, <3>1
  <2>4. i \in FileEvicted(when, evicted, a)
    BY <1>1, <2>2, <2>3 DEF FileEvicted
  <2> QED
    BY <2>2, <2>4
<1>5. ASSUME NEW a \in 1 .. LastAge, NEW b \in 1 .. a - 1, NEW i,
             i \in FileEvicted(when, evicted, a), i \in FileEvicted(when, evicted, b)
      PROVE  FALSE
  <2>1. i \in DOMAIN evicted /\ b \in 1 .. LastAge - 1 /\ b # LastAge
    BY <1>1, <1>5 DEF FileEvicted
  <2>2. Age(when, evicted[i]) >= AgeBounds[b] /\ Age(when, evicted[i]) < AgeBounds[b]
    BY <1>1, <1>5, <2>1 DEF FileEvicted
  <2> QED
    BY <1>2, <1>3, <2>1, <2>2
<1> QED
  BY <1>4, <1>5 DEF FiledBelow

\* Filing what has been evicted adds what is filed below an age to its running sum.
LEMMA FilingAdds ==
  ASSUME NEW g \in [Ages -> Nat], NEW when \in Time, NEW evicted \in Seq(Nat),
         NEW h, h = [a \in Ages |-> g[a] + Cardinality(FileEvicted(when, evicted, a))]
  PROVE  Sums(h)[LastAge] = Sums(g)[LastAge] + Len(evicted)
<1> DEFINE filed(a) == FileEvicted(when, evicted, a)
           below(a) == FiledBelow(when, evicted, a)
           C == {a \in Nat : a <= LastAge =>
                   Sums(h)[a] = Sums(g)[a] + Cardinality(below(a))}
<1>1. IsFiniteSet(DOMAIN evicted) /\ Cardinality(DOMAIN evicted) = Len(evicted)
  <2>1. DOMAIN evicted = 1 .. Len(evicted) /\ Len(evicted) \in Nat
    OBVIOUS
  <2> QED
    BY <2>1, FS_Interval
<1>2. ASSUME NEW a
      PROVE  /\ IsFiniteSet(filed(a)) /\ Cardinality(filed(a)) \in Nat
             /\ IsFiniteSet(below(a)) /\ Cardinality(below(a)) \in Nat
  <2>1. filed(a) \in SUBSET DOMAIN evicted /\ below(a) \in SUBSET DOMAIN evicted
    BY DEF FileEvicted, FiledBelow
  <2> HIDE DEF filed, below
  <2> QED
    BY <1>1, <2>1, FS_Subset, FS_CardinalityType
<1>3. h \in [Ages -> Nat]
  BY <1>2
<1>4. 0 \in C
  <2>1. below(0) = {}
    BY DEF FiledBelow
  <2>2. Cardinality(below(0)) = 0
    BY <2>1, FS_EmptySet
  <2> HIDE DEF below
  <2> QED
    BY <2>2, SumsEquation
<1>5. ASSUME NEW a \in Nat, a \in C PROVE a + 1 \in C
  <2>1. SUFFICES ASSUME a + 1 <= LastAge
                 PROVE  Sums(h)[a + 1] = Sums(g)[a + 1] + Cardinality(below(a + 1))
    OBVIOUS
  <2>2. /\ a + 1 \in 1 .. LastAge /\ a + 1 \in Ages /\ (a + 1) - 1 = a
        /\ a \in 0 .. LastAge /\ a <= LastAge
    BY <2>1, LastAgeType
  <2>3. /\ Sums(h)[a + 1] = Sums(h)[a] + h[a + 1]
        /\ Sums(g)[a + 1] = Sums(g)[a] + g[a + 1]
    BY <2>2, SumsEquation
  <2>4. Sums(h)[a] = Sums(g)[a] + Cardinality(below(a))
    BY <1>5, <2>2
  <2>5. h[a + 1] = g[a + 1] + Cardinality(filed(a + 1))
    BY <2>2
  <2>6. Cardinality(below(a + 1)) = Cardinality(below(a)) + Cardinality(filed(a + 1))
    <3>1. below(a + 1) = below(a) \cup filed(a + 1)
      <4>1. 1 .. a + 1 = (1 .. a) \cup {a + 1}
        OBVIOUS
      <4>2. filed(a + 1) \subseteq DOMAIN evicted
        BY DEF FileEvicted
      <4> QED
        BY <4>1, <4>2 DEF FiledBelow
    <3>2. below(a) \cap filed(a + 1) = {}
      BY <2>2, FiledOnce
    <3> HIDE DEF below, filed
    <3>3. Cardinality(below(a) \cap filed(a + 1)) = 0
      BY <3>2, FS_EmptySet
    <3>4. /\ IsFiniteSet(below(a)) /\ Cardinality(below(a)) \in Nat
          /\ IsFiniteSet(filed(a + 1)) /\ Cardinality(filed(a + 1)) \in Nat
      BY <1>2
    <3>5. Cardinality(below(a) \cup filed(a + 1)) =
            Cardinality(below(a)) + Cardinality(filed(a + 1))
            - Cardinality(below(a) \cap filed(a + 1))
      BY <3>4, FS_Union
    <3>6. Cardinality(below(a + 1)) = Cardinality(below(a) \cup filed(a + 1))
      BY <3>1
    <3> QED
      BY <3>3, <3>4, <3>5, <3>6
  <2>7. Sums(g)[a] \in Nat /\ g[a + 1] \in Nat
    BY <2>2, SumsType
  <2> HIDE DEF below, filed
  <2> QED
    BY <1>2, <2>3, <2>4, <2>5, <2>6, <2>7
<1> HIDE DEF C
<1>6. LastAge \in C
  BY <1>4, <1>5, AllNumbers, LastAgeType
<1>7. below(LastAge) = DOMAIN evicted
  BY FiledOnce
<1> QED
  BY <1>1, <1>6, <1>7, LastAgeType DEF C

\* The ages an eviction is filed under add up to the counter of evictions, however
\* far ahead of the server's clock an entry's last use may be.
THEOREM HistogramStaysRight == Spec => []HistogramAgrees
<1> DEFINE Inv == Sums(ages)[LastAge] = evictions
<1>1. Init => Inv
  <2> SUFFICES ASSUME Init PROVE Inv
    OBVIOUS
  <2>1. \A a \in 1 .. LastAge : ages[a] = 0
    BY LastAgeType DEF Init
  <2> DEFINE C == {a \in Nat : a <= LastAge => Sums(ages)[a] = 0}
  <2>2. 0 \in C
    BY SumsEquation
  <2>3. ASSUME NEW a \in Nat, a \in C PROVE a + 1 \in C
    <3>1. SUFFICES ASSUME a + 1 <= LastAge PROVE Sums(ages)[a + 1] = 0
      OBVIOUS
    <3>2. a + 1 \in 1 .. LastAge /\ a <= LastAge /\ (a + 1) - 1 = a
      BY <3>1, LastAgeType
    <3>3. Sums(ages)[a + 1] = Sums(ages)[a] + ages[a + 1]
      BY <3>2, SumsEquation
    <3> QED
      BY <2>1, <2>3, <3>2, <3>3
  <2> HIDE DEF C
  <2>4. LastAge \in C
    BY <2>2, <2>3, AllNumbers, LastAgeType
  <2> QED
    BY <2>4, LastAgeType DEF C, Init
<1>2. TypeOK /\ Inv /\ [Next]_vars => Inv'
  <2> SUFFICES ASSUME TypeOK, Inv, [Next]_vars PROVE Inv'
    OBVIOUS
  <2>1. ASSUME NEW evicted \in EvictedLists, RecordScan(evicted) PROVE Inv'
    <3>1. PICK when \in Recent :
            ages' = [a \in Ages |-> ages[a] + Cardinality(FileEvicted(when, evicted, a))]
      BY <2>1 DEF RecordScan
    <3>2. when \in Time /\ evicted \in Seq(Nat) /\ ages \in [Ages -> Nat]
      BY AgesAssumption DEF Recent, TypeOK
    <3>3. Sums(ages')[LastAge] = Sums(ages)[LastAge] + Len(evicted)
      BY <3>1, <3>2, FilingAdds
    <3> QED
      BY <2>1, <3>3 DEF RecordScan
  <2>2. CASE \/ \E k \in Client : Record(k)
             \/ RecordHost \/ Tick
             \/ \E r \in Timed, d \in Duration : RecordLatency(r, d)
             \/ UNCHANGED vars
    <3>1. ages' = ages /\ evictions' = evictions
      BY <2>2 DEF Record, RecordHost, Tick, RecordLatency, vars
    <3> QED
      BY <3>1
  <2> QED
    BY <2>1, <2>2 DEF Next
<1>3. Inv => HistogramAgrees
  BY CumulativeIs DEF HistogramAgrees, LastAge
<1> QED
  BY <1>1, <1>2, <1>3, TypeCorrect, PTL DEF Spec
-----------------------------------------------------------------------------
(* The summaries of the latencies *)

Below(s, d) == {i \in DOMAIN s : s[i] < d}
UpTo(s, d) == {i \in DOMAIN s : s[i] <= d}

LEMMA FirstNumbers ==
  ASSUME NEW n \in Nat
  PROVE  IsFiniteSet(1 .. n) /\ Cardinality(1 .. n) = n
<1>1. 1 > n <=> n = 0
  OBVIOUS
<1> QED
  BY <1>1, FS_Interval

LEMMA SamplesCounted ==
  ASSUME NEW s \in Seq(Nat), NEW T \in SUBSET DOMAIN s
  PROVE  /\ IsFiniteSet(T) /\ Cardinality(T) \in Nat
         /\ Cardinality(DOMAIN s \ T) = Len(s) - Cardinality(T)
<1>1. DOMAIN s = 1 .. Len(s) /\ Len(s) \in Nat
  OBVIOUS
<1>2. IsFiniteSet(DOMAIN s) /\ Cardinality(DOMAIN s) = Len(s)
  <2>1. IsFiniteSet(1 .. Len(s)) /\ Cardinality(1 .. Len(s)) = Len(s)
    BY <1>1, FirstNumbers
  <2> QED
    BY <1>1, <2>1
<1>3. IsFiniteSet(T) /\ Cardinality(T) \in Nat
  BY <1>2, FS_Subset, FS_CardinalityType
<1>4. (DOMAIN s) \cap T = T
  OBVIOUS
<1>5. Cardinality(DOMAIN s \ T) = Cardinality(DOMAIN s) - Cardinality((DOMAIN s) \cap T)
  BY <1>2, FS_Difference
<1> QED
  BY <1>2, <1>3, <1>4, <1>5

\* The samples have a bound.
LEMMA SamplesBounded ==
  ASSUME NEW s \in Seq(Nat)
  PROVE  \E d \in Nat : \A i \in DOMAIN s : s[i] <= d
<1> DEFINE C == {n \in Nat : n <= Len(s) =>
                   \E d \in Nat : \A i \in 1 .. n : s[i] <= d}
<1>1. 0 \in C
  OBVIOUS
<1>2. ASSUME NEW n \in Nat, n \in C PROVE n + 1 \in C
  <2>1. SUFFICES ASSUME n + 1 <= Len(s)
                 PROVE  \E d \in Nat : \A i \in 1 .. n + 1 : s[i] <= d
    OBVIOUS
  <2>2. PICK d \in Nat : \A i \in 1 .. n : s[i] <= d
    BY <1>2, <2>1
  <2>3. s[n + 1] \in Nat /\ \A i \in 1 .. n : s[i] \in Nat
    BY <2>1
  <2>4. \A i \in 1 .. n + 1 : s[i] <= d + s[n + 1]
    <3> TAKE i \in 1 .. n + 1
    <3>1. CASE i = n + 1
      BY <2>3, <3>1
    <3>2. CASE i \in 1 .. n
      BY <2>2, <2>3, <3>2
    <3> QED
      BY <3>1, <3>2
  <2>5. d + s[n + 1] \in Nat
    BY <2>3
  <2> QED
    BY <2>4, <2>5
<1> HIDE DEF C
<1>3. \A n \in Nat : n \in C
  BY <1>1, <1>2, AllNumbers
<1>4. Len(s) \in Nat /\ Len(s) <= Len(s) /\ DOMAIN s = 1 .. Len(s)
  OBVIOUS
<1> QED
  BY <1>3, <1>4 DEF C

\* The sample with k others below it exists: sorting the samples puts it at index k.
LEMMA OrderStatistic ==
  ASSUME NEW s \in Seq(Nat), NEW k \in Nat, k < Len(s)
  PROVE  \E d \in {s[i] : i \in DOMAIN s} :
           Cardinality(Below(s, d)) <= k /\ Cardinality(UpTo(s, d)) > k
<1> DEFINE C == {d \in Nat : Cardinality(UpTo(s, d)) > k}
<1>1. ASSUME NEW d
      PROVE  /\ IsFiniteSet(Below(s, d)) /\ Cardinality(Below(s, d)) \in Nat
             /\ IsFiniteSet(UpTo(s, d)) /\ Cardinality(UpTo(s, d)) \in Nat
  <2>1. Below(s, d) \in SUBSET DOMAIN s /\ UpTo(s, d) \in SUBSET DOMAIN s
    BY DEF Below, UpTo
  <2> QED
    BY <2>1, SamplesCounted
<1>2. C # {}
  <2>1. PICK d \in Nat : \A i \in DOMAIN s : s[i] <= d
    BY SamplesBounded
  <2>2. UpTo(s, d) = DOMAIN s
    BY <2>1 DEF UpTo
  <2>3. Cardinality(DOMAIN s) = Len(s)
    <3>1. DOMAIN s \ {} = DOMAIN s /\ Len(s) \in Nat
      OBVIOUS
    <3> QED
      BY <3>1, SamplesCounted, FS_EmptySet
  <2> QED
    BY <2>2, <2>3
<1>3. PICK d \in C : \A e \in C : d <= e
  <2>1. C \in SUBSET Nat
    OBVIOUS
  <2> HIDE DEF C
  <2> QED
    BY <1>2, <2>1, LeastNumber
<1>4. Cardinality(Below(s, d)) <= k
  <2>1. CASE d = 0
    <3>1. Below(s, d) = {}
      BY <2>1 DEF Below
    <3> QED
      BY <3>1, FS_EmptySet
  <2>2. CASE d # 0
    <3>1. d - 1 \in Nat /\ d - 1 \notin C
      BY <1>3, <2>2
    <3>2. Below(s, d) = UpTo(s, d - 1)
      BY <1>3 DEF Below, UpTo
    <3>3. ~(Cardinality(UpTo(s, d - 1)) > k)
      BY <3>1
    <3> QED
      BY <1>1, <3>2, <3>3
  <2> QED
    BY <2>1, <2>2
<1>5. d \in {s[i] : i \in DOMAIN s}
  <2>1. SUFFICES ASSUME \A i \in DOMAIN s : s[i] # d PROVE FALSE
    OBVIOUS
  <2>2. UpTo(s, d) = Below(s, d)
    BY <1>3, <2>1 DEF Below, UpTo
  <2>3. Cardinality(UpTo(s, d)) > k
    BY <1>3
  <2> QED
    BY <1>1, <1>4, <2>2, <2>3
<1> QED
  BY <1>3, <1>4, <1>5

\* A percentile is that sample, if its index is within the window.
LEMMA PercentileSplits ==
  ASSUME NEW s \in Seq(Nat), NEW percent,
         Rank(Len(s), percent) \in Nat, Rank(Len(s), percent) < Len(s)
  PROVE  LET d == Percentile(s, percent) IN
         /\ d \in Nat
         /\ Cardinality(Below(s, d)) <= Rank(Len(s), percent)
         /\ Cardinality(UpTo(s, d)) > Rank(Len(s), percent)
<1> DEFINE d == Percentile(s, percent)
<1>1. /\ d \in {s[i] : i \in DOMAIN s}
      /\ Cardinality(Below(s, d)) <= Rank(Len(s), percent)
      /\ Cardinality(UpTo(s, d)) > Rank(Len(s), percent)
  BY OrderStatistic DEF Percentile, Below, UpTo
<1> QED
  BY <1>1

\* The index of the median is half the number of samples, and that of the p95 is
\* at most a twentieth of it, rounded, from the end.
LEMMA Ranks ==
  ASSUME NEW n \in Nat \ {0}
  PROVE  /\ Rank(n, 50) \in Nat /\ Rank(n, 50) < n
         /\ 2 * Rank(n, 50) <= n /\ 2 * Rank(n, 50) + 1 >= n
         /\ Rank(n, 95) \in Nat /\ Rank(n, 95) < n
         /\ 20 * (n - 1 - Rank(n, 95)) <= n + 9
<1>1. /\ Rank(n, 50) = (100 * n) \div 200
      /\ Rank(n, 95) = (190 * n - 90) \div 200
  BY DEF Rank
<1>2. ASSUME NEW m \in Nat
      PROVE  /\ m \div 200 \in Nat /\ 200 * (m \div 200) <= m
             /\ m < 200 * (m \div 200) + 200
  OBVIOUS
<1>3. 100 * n \in Nat /\ 190 * n - 90 \in Nat
  OBVIOUS
<1> QED
  BY <1>1, <1>2, <1>3

\* The median halves the window of samples and at most one sample in twenty is
\* above the p95 (summarize, stats.rs), whatever is in the window.
THEOREM SummariesStayRight == Spec => []SummariesRight
<1>1. TypeOK => SummariesRight
  <2>1. SUFFICES ASSUME TypeOK, NEW r \in Timed, latency[r] # <<>>
                 PROVE  LET s == latency[r]
                            n == Len(s)
                            median == Percentile(s, 50)
                            p95 == Percentile(s, 95)
                        IN /\ 2 * Cardinality({i \in DOMAIN s : s[i] <= median}) >= n
                           /\ 2 * Cardinality({i \in DOMAIN s : s[i] >= median}) >= n
                           /\ 20 * Cardinality({i \in DOMAIN s : s[i] > p95}) <= n + 9
    BY DEF SummariesRight
  <2> DEFINE s == latency[r]
             n == Len(s)
             median == Percentile(s, 50)
             p95 == Percentile(s, 95)
  <2>2. s \in Seq(Nat) /\ n \in Nat \ {0} /\ \A i \in DOMAIN s : s[i] \in Nat
    <3>1. s \in Seq(Duration) /\ s # <<>>
      BY <2>1 DEF TypeOK
    <3> HIDE DEF s
    <3>2. Len(s) \in Nat \ {0} /\ DOMAIN s = 1 .. Len(s)
      BY <3>1
    <3>3. \A i \in 1 .. Len(s) : s[i] \in Nat
      <4>1. \A i \in 1 .. Len(s) : s[i] \in Duration
        BY <3>1
      <4> QED
        BY <4>1, DurationAssumption
    <3>4. s \in Seq(Nat)
      BY <3>1, <3>3
    <3> QED
      BY <3>2, <3>3, <3>4
  <2> HIDE DEF s
  <2>3. /\ median \in Nat /\ Cardinality(Below(s, median)) <= Rank(n, 50)
        /\ Cardinality(UpTo(s, median)) > Rank(n, 50)
    BY <2>2, Ranks, PercentileSplits
  <2>4. p95 \in Nat /\ Cardinality(UpTo(s, p95)) > Rank(n, 95)
    BY <2>2, Ranks, PercentileSplits
  <2> HIDE DEF median, p95
  <2>5. /\ {i \in DOMAIN s : s[i] <= median} = UpTo(s, median)
        /\ {i \in DOMAIN s : s[i] >= median} = DOMAIN s \ Below(s, median)
        /\ {i \in DOMAIN s : s[i] > p95} = DOMAIN s \ UpTo(s, p95)
    BY <2>2, <2>3, <2>4 DEF UpTo, Below
  <2>6. /\ Cardinality(UpTo(s, median)) \in Nat
        /\ Cardinality(Below(s, median)) \in Nat
        /\ Cardinality(UpTo(s, p95)) \in Nat
        /\ Cardinality(DOMAIN s \ Below(s, median)) = n - Cardinality(Below(s, median))
        /\ Cardinality(DOMAIN s \ UpTo(s, p95)) = n - Cardinality(UpTo(s, p95))
    <3>1. /\ UpTo(s, median) \in SUBSET DOMAIN s
          /\ Below(s, median) \in SUBSET DOMAIN s
          /\ UpTo(s, p95) \in SUBSET DOMAIN s
      BY DEF UpTo, Below
    <3> QED
      BY <2>2, <3>1, SamplesCounted
  <2>7. /\ Rank(n, 50) \in Nat /\ 2 * Rank(n, 50) <= n /\ 2 * Rank(n, 50) + 1 >= n
        /\ Rank(n, 95) \in Nat /\ 20 * (n - 1 - Rank(n, 95)) <= n + 9
    BY <2>2, Ranks
  <2> HIDE DEF n
  <2>8. /\ 2 * Cardinality(UpTo(s, median)) >= n
        /\ 2 * Cardinality(DOMAIN s \ Below(s, median)) >= n
        /\ 20 * Cardinality(DOMAIN s \ UpTo(s, p95)) <= n + 9
    <3>1. n \in Nat
      BY <2>2
    <3>2. 2 * Cardinality(UpTo(s, median)) >= n
      BY <2>3, <2>6, <2>7, <3>1
    <3>3. 2 * Cardinality(DOMAIN s \ Below(s, median)) >= n
      BY <2>3, <2>6, <2>7, <3>1
    <3>4. 20 * Cardinality(DOMAIN s \ UpTo(s, p95)) <= n + 9
      BY <2>4, <2>6, <2>7, <3>1
    <3> QED
      BY <3>2, <3>3, <3>4
  <2>9. /\ 2 * Cardinality({i \in DOMAIN s : s[i] <= median}) >= n
        /\ 2 * Cardinality({i \in DOMAIN s : s[i] >= median}) >= n
        /\ 20 * Cardinality({i \in DOMAIN s : s[i] > p95}) <= n + 9
    BY <2>5, <2>8, Zenon
  <2> QED
    BY <2>9 DEF s, n, median, p95
<1> QED
  BY <1>1, TypeCorrect, PTL
=============================================================================
