---------------------------- MODULE ServerProofs ----------------------------
(***************************************************************************)
(* Proofs about Server for every set of requests and addresses, every      *)
(* limit and every size of the pool: types, the exactness of the limit,    *)
(* what the counters say, that answers are current, and what evictions are *)
(* counted.                                                                *)
(***************************************************************************)
EXTENDS Server, FiniteSetTheorems, TLAPS

\* Where the task of a request is, and what the store knows of it.
TaskOK(r) ==
  /\ req[r].task = "none" <=> req[r].handler = "none"
  /\ req[r].task # "none" => req[r].addr \in Address
  /\ req[r].handler \in {"between", "answered"} => req[r].task = "done"
  /\ req[r].task # "done" => req[r].error = "none"
  /\ req[r].task = "reading" =>
       r \in Puts /\ want[r] = <<req[r].addr, r>> /\ req[r].count <= Limit
  /\ req[r].task # "reading" => want[r] = None
  /\ req[r].task \in {"none", "queued"} \/ r \in Puts => held[r] = None
  /\ req[r].task \in {"none", "queued"} => req[r].count = 0

\* How it has ended.
EndOK(r) ==
  /\ Stored(r) <=> r \in Puts /\ req[r].task = "done" /\ req[r].error = "none"
  /\ Stored(r) => req[r].count <= Limit
  /\ req[r].error = "large" => r \in Puts /\ req[r].count > Limit
  /\ req[r].error \in {"fbig", "panic"} => r \in Puts

\* What the metrics and the client have been told of it.
ToldOK(r) ==
  /\ req[r].handler \in {"none", "waiting", "dropped"} =>
       req[r].event = "none" /\ ~req[r].timed /\ req[r].status = 0
  /\ req[r].handler = "between" =>
       /\ req[r].status = 0 /\ req[r].error = "none"
       /\ IF r \in Puts
          THEN ~req[r].timed /\ req[r].event \in {"upload", "duplicate"}
          ELSE req[r].timed /\ req[r].event = "none"
  /\ req[r].handler = "answered" /\ req[r].error = "none" =>
       /\ req[r].timed
       /\ IF r \in Puts
          THEN req[r].event \in {"upload", "duplicate"} /\ req[r].status \in {200, 201}
          ELSE req[r].event \in {"hit", "miss"} /\ req[r].status \in {200, 404}
  /\ req[r].handler = "answered" /\ req[r].error # "none" =>
       /\ ~req[r].timed
       /\ \/ /\ req[r].error \in {"large", "fbig"}
             /\ req[r].event = "rejected" /\ req[r].status = 413
          \/ req[r].error = "broken" /\ req[r].event = "failed" /\ req[r].status = 400
          \/ req[r].event = "none" /\ req[r].status = 500

\* What it has seen, as far as it is going to tell.
SeenOK(r) ==
  req[r].handler \in {"waiting", "between"} =>
    /\ store[req[r].addr] \in seen[r]
    /\ req[r].task = "reading" =>
         IF req[r].existed THEN seen[r] \ {None, r} # {} ELSE None \in seen[r]
    /\ ret[r] = "created" => {None, r} \subseteq seen[r]
    /\ ret[r] = "replaced" => r \in seen[r] /\ seen[r] \ {None, r} # {}
    /\ r \notin Puts /\ req[r].task = "done" /\ req[r].error = "none" =>
         held[r] \in seen[r]

RequestOK(r) == TaskOK(r) /\ EndOK(r) /\ ToldOK(r) /\ SeenOK(r)

StoreOK == \A a \in Address : store[a] \in {Earlier, None} \/ Stored(store[a])

\* The inductive invariant of Server.
IInv == TypeOK /\ StoreOK /\ \A r \in Request : RequestOK(r)

\* The names are apart.
LEMMA NamesApart ==
  /\ None \notin Request /\ Earlier \notin Request /\ None # Earlier
  /\ Request \subseteq Blob /\ Earlier \in Blob
BY RequestAssumption DEF Blob
-----------------------------------------------------------------------------
\* A step that is none of r's leaves r as it was, but for what it sees.
Kept(r) ==
  /\ req'[r] = req[r] /\ want'[r] = want[r] /\ held'[r] = held[r]
  /\ ret'[r] = ret[r]

LEMMA KeptOK ==
  ASSUME TypeOK, TypeOK', Watch, NEW r \in Request, RequestOK(r), Kept(r)
  PROVE  RequestOK(r)'
<1>1. TaskOK(r)' /\ EndOK(r)' /\ ToldOK(r)'
  BY DEF RequestOK, Kept, TaskOK, EndOK, ToldOK, Stored
<1>2. ASSUME req[r].handler \in {"waiting", "between"}
      PROVE  seen'[r] = seen[r] \cup {store'[req'[r].addr]}
  BY <1>2 DEF Watch, Kept
<1>3. SeenOK(r)'
  BY <1>2 DEF RequestOK, SeenOK, Kept
<1> QED
  BY <1>1, <1>3 DEF RequestOK

\* A step of r that stores nothing and takes nothing back.
LEMMA OwnStep ==
  ASSUME IInv, TypeOK', Watch, NEW r \in Request, store' = store,
         \A q \in Request \ {r} : Kept(q),
         Stored(r) => Stored(r)', RequestOK(r)'
  PROVE  IInv'
<1>1. \A q \in Request : RequestOK(q)'
  BY KeptOK DEF IInv
<1>2. StoreOK'
  BY DEF IInv, StoreOK, Stored, Kept, TypeOK, Blob
<1> QED
  BY <1>1, <1>2 DEF IInv

\* A step of the evictor.
LEMMA EvictorStep ==
  ASSUME IInv, TypeOK', Watch, \A q \in Request : Kept(q),
         \A a \in Address : store'[a] \in {store[a], None}
  PROVE  IInv'
<1>1. \A q \in Request : RequestOK(q)'
  BY KeptOK DEF IInv
<1>2. StoreOK'
  BY DEF IInv, StoreOK, Stored, Kept, TypeOK, Blob
<1> QED
  BY <1>1, <1>2 DEF IInv
-----------------------------------------------------------------------------
\* A record of RequestState as a task changes it.
LEMMA TaskState ==
  ASSUME NEW s \in RequestState, NEW n \in 0 .. MaxLen,
         NEW t \in {"queued", "reading", "done"},
         NEW e \in {"none", "large", "fbig", "broken", "panic"}, NEW b \in BOOLEAN
  PROVE  [s EXCEPT !.count = n, !.task = t, !.error = e, !.existed = b]
         \in RequestState
<1> DEFINE s1 == [s EXCEPT !.count = n]
           s2 == [s1 EXCEPT !.task = t]
           s3 == [s2 EXCEPT !.error = e]
           s4 == [s3 EXCEPT !.existed = b]
<1>1. s1 \in RequestState
  BY DEF RequestState
<1>2. ASSUME NEW x \in RequestState PROVE [x EXCEPT !.task = t] \in RequestState
  BY DEF RequestState
<1>3. ASSUME NEW x \in RequestState PROVE [x EXCEPT !.error = e] \in RequestState
  BY DEF RequestState
<1>4. ASSUME NEW x \in RequestState PROVE [x EXCEPT !.existed = b] \in RequestState
  BY DEF RequestState
<1>5. s4 \in RequestState
  <2> HIDE DEF s1
  <2>1. s2 \in RequestState
    BY <1>1, <1>2
  <2> HIDE DEF s2
  <2>2. s3 \in RequestState
    BY <2>1, <1>3
  <2> HIDE DEF s3
  <2> QED
    BY <2>2, <1>4
<1>6. s4 = [s EXCEPT !.count = n, !.task = t, !.error = e, !.existed = b]
  OBVIOUS
<1> QED
  BY <1>5, <1>6

LEMMA SeenTyped ==
  ASSUME IInv, Watch, NEW r \in Request, \A q \in Request \ {r} : req'[q] = req[q],
         req'[r].addr \in Address, store' \in [Address -> Blob \cup {None}]
  PROVE  seen' \in [Request -> SUBSET (Blob \cup {None})]
<1>1. ASSUME NEW q \in Request, req'[q].handler \in {"waiting", "between"}
      PROVE  store'[req'[q].addr] \in Blob \cup {None}
  <2>1. req'[q].addr \in Address
    BY <1>1 DEF IInv, RequestOK, TaskOK
  <2> QED
    BY <2>1
<1>2. \A q \in Request : seen[q] \in SUBSET (Blob \cup {None})
  BY DEF IInv, TypeOK
<1>3. \A q \in Request :
        (IF req'[q].handler \in {"waiting", "between"}
         THEN seen[q] \cup {store'[req'[q].addr]} ELSE {})
        \in SUBSET (Blob \cup {None})
  BY <1>1, <1>2
<1> QED
  BY <1>3 DEF Watch

\* A step of r's that leaves the evictor alone.
LEMMA OwnTyped ==
  ASSUME IInv, Watch, NEW r \in Request, UNCHANGED evictor,
         req' \in [Request -> RequestState],
         \A q \in Request \ {r} : req'[q] = req[q],
         req'[r].addr \in Address,
         store' \in [Address -> Blob \cup {None}], saved' = saved,
         want' \in [Caller -> (Address \X Blob) \cup {None}],
         held' \in [Caller -> Blob \cup {None}],
         ret' \in [Caller -> {"none", "created", "replaced", "missing", "err"}]
  PROVE  TypeOK'
<1>1. seen' \in [Request -> SUBSET (Blob \cup {None})]
  BY SeenTyped
<1> QED
  BY <1>1 DEF IInv, TypeOK, evictor, Watch

\* A step of r's handler: the task and the store stay as they are.
LEMMA HandlerStep ==
  ASSUME IInv, Watch, NEW r \in Request, UNCHANGED <<blobs, evictor>>,
         req' \in [Request -> RequestState],
         \A q \in Request \ {r} : req'[q] = req[q],
         req'[r].addr = req[r].addr, req'[r].task = req[r].task,
         req'[r].count = req[r].count, req'[r].existed = req[r].existed,
         req'[r].error = req[r].error,
         req[r].handler \in {"waiting", "between"},
         \/ req'[r].handler = "dropped"
         \/ req[r].task = "done" /\ req'[r].handler \in {"between", "answered"},
         ToldOK(r)'
  PROVE  IInv'
<1>1. RequestOK(r) /\ req[r].addr \in Address
  BY DEF IInv, RequestOK, TaskOK
<1>2. TypeOK'
  BY <1>1, OwnTyped DEF IInv, TypeOK, blobs
<1>3. \A q \in Request \ {r} : Kept(q)
  BY DEF Kept, blobs
<1>4. TaskOK(r)'
  BY <1>1 DEF RequestOK, TaskOK, blobs
<1>5. EndOK(r)'
  BY <1>1 DEF RequestOK, EndOK, Stored, blobs
<1>6. SeenOK(r)'
  <2>1. ASSUME req'[r].handler \in {"waiting", "between"}
        PROVE  seen'[r] = seen[r] \cup {store[req[r].addr]}
    BY <2>1 DEF Watch, blobs
  <2> QED
    BY <1>1, <2>1 DEF RequestOK, SeenOK, blobs
<1>7. RequestOK(r)'
  BY <1>4, <1>5, <1>6 DEF RequestOK
<1> QED
  BY <1>2, <1>3, <1>7, OwnStep DEF blobs, Stored

\* A step of r's task that leaves the entries alone.
LEMMA TaskStep ==
  ASSUME IInv, Watch, NEW r \in Request, UNCHANGED <<store, saved, evictor>>,
         req' \in [Request -> RequestState],
         \A q \in Request \ {r} : req'[q] = req[q],
         req'[r].addr \in Address,
         want' \in [Caller -> (Address \X Blob) \cup {None}],
         held' \in [Caller -> Blob \cup {None}],
         ret' \in [Caller -> {"none", "created", "replaced", "missing", "err"}],
         \A q \in Request \ {r} :
           want'[q] = want[q] /\ held'[q] = held[q] /\ ret'[q] = ret[q],
         ~Stored(r), RequestOK(r)'
  PROVE  IInv'
<1>1. TypeOK'
  BY OwnTyped DEF IInv, TypeOK
<1>2. \A q \in Request \ {r} : Kept(q)
  BY DEF Kept
<1> QED
  BY <1>1, <1>2, OwnStep

LEMMA ArrivePreserves ==
  ASSUME IInv, NEW r \in Request, Arrive(r), Watch
  PROVE  IInv'
<1>1. PICK a \in Address :
        req' = [req EXCEPT ![r] = [NotYet EXCEPT
                 !.addr = a, !.handler = "waiting", !.task = "queued"]]
  BY DEF Arrive
<1>2. req'[r] = [addr |-> a, handler |-> "waiting", task |-> "queued", count |-> 0,
                 existed |-> FALSE, error |-> "none", event |-> "none",
                 timed |-> FALSE, status |-> 0]
  BY <1>1 DEF NotYet, IInv, TypeOK
<1>3. req'[r] \in RequestState
  BY <1>2, BoundsAssumption DEF RequestState, Events
<1>4. req' \in [Request -> RequestState] /\ \A q \in Request \ {r} : req'[q] = req[q]
  BY <1>1, <1>3 DEF IInv, TypeOK
<1>5. RequestOK(r) /\ req[r].handler = "none" /\ UNCHANGED <<blobs, evictor>>
  BY DEF IInv, Arrive
<1>6. RequestOK(r)'
  <2>1. TaskOK(r)'
    BY <1>2, <1>5 DEF RequestOK, TaskOK, blobs
  <2>2. EndOK(r)'
    BY <1>2, <1>5 DEF RequestOK, TaskOK, EndOK, Stored, blobs
  <2>3. ToldOK(r)'
    BY <1>2 DEF ToldOK
  <2>4. SeenOK(r)'
    BY <1>2, <1>5 DEF RequestOK, TaskOK, EndOK, SeenOK, Watch, Stored, blobs
  <2> QED
    BY <2>1, <2>2, <2>3, <2>4 DEF RequestOK
<1>7. ~Stored(r)
  BY <1>5 DEF RequestOK, TaskOK, EndOK
<1> QED
  BY <1>2, <1>4, <1>5, <1>6, <1>7, TaskStep DEF blobs, IInv, TypeOK

LEMMA GetOpenPreserves ==
  ASSUME IInv, NEW r \in Request \ Puts, GetOpen(r), Watch
  PROVE  IInv'
<1> DEFINE a == req[r].addr
<1>1. RequestOK(r) /\ req[r] \in RequestState /\ r \in Caller /\ a \in Address
  BY DEF IInv, TypeOK, Caller, RequestOK, TaskOK, GetOpen, Queued
<1>2. /\ req'[r] = [req[r] EXCEPT !.task = "done"]
      /\ \A q \in Request \ {r} : req'[q] = req[q]
      /\ req' \in [Request -> RequestState]
  <2>1. [req[r] EXCEPT !.task = "done"] \in RequestState
    BY <1>1 DEF RequestState
  <2> QED
    BY <2>1 DEF GetOpen, IInv, TypeOK
<1>3. /\ UNCHANGED <<store, saved, want>> /\ store[a] \in Blob \cup {None}
      /\ held' = [held EXCEPT ![r] = store[a]] \/ (held' = held /\ store[a] = None)
      /\ \E y \in {"none", "missing"} : ret' = [ret EXCEPT ![r] = y]
  BY <1>1 DEF GetOpen, Blobs!Get, Blobs!Miss, IInv, TypeOK
<1>4. /\ held' \in [Caller -> Blob \cup {None}]
      /\ ret' \in [Caller -> {"none", "created", "replaced", "missing", "err"}]
      /\ \A q \in Request \ {r} : held'[q] = held[q] /\ ret'[q] = ret[q]
  BY <1>1, <1>3 DEF IInv, TypeOK, Caller
<1>5. held'[r] = store[a] /\ ret'[r] \in {"none", "missing"}
  <2>1. held[r] = None
    BY DEF GetOpen, Blobs!Get, Blobs!Miss, Blobs!Resting
  <2> QED
    BY <1>1, <1>3, <2>1 DEF IInv, TypeOK
<1>6. RequestOK(r)'
  <2>1. TaskOK(r)'
    BY <1>1, <1>2, <1>3 DEF GetOpen, Queued, RequestOK, TaskOK, RequestState
  <2>2. EndOK(r)'
    BY <1>1, <1>2, <1>5 DEF GetOpen, Queued, RequestOK, TaskOK, EndOK, Stored, RequestState
  <2>3. ToldOK(r)'
    BY <1>1, <1>2 DEF GetOpen, Queued, RequestOK, TaskOK, ToldOK, RequestState
  <2>4. SeenOK(r)'
    BY <1>1, <1>2, <1>3, <1>5 DEF SeenOK, Watch, RequestState
  <2> QED
    BY <2>1, <2>2, <2>3, <2>4 DEF RequestOK
<1>7. ~Stored(r)
  BY <1>1 DEF RequestOK, EndOK
<1> QED
  BY <1>1, <1>2, <1>3, <1>4, <1>6, <1>7, TaskStep, SMTT(40)
  DEF GetOpen, IInv, TypeOK, RequestState

LEMMA GetFailsPreserves ==
  ASSUME IInv, NEW r \in Request \ Puts, GetFails(r), Watch
  PROVE  IInv'
<1>1. RequestOK(r) /\ req[r] \in RequestState /\ r \in Caller /\ req[r].addr \in Address
  BY DEF IInv, TypeOK, Caller, RequestOK, TaskOK, GetFails, Queued
<1>2. /\ req'[r] = [req[r] EXCEPT !.task = "done", !.error = "broken"]
      /\ \A q \in Request \ {r} : req'[q] = req[q]
      /\ req' \in [Request -> RequestState]
  <2>1. [req[r] EXCEPT !.task = "done", !.error = "broken"]
        = [req[r] EXCEPT !.count = req[r].count, !.task = "done",
                         !.error = "broken", !.existed = req[r].existed]
    BY <1>1, ZenonT(40) DEF RequestState
  <2>2. req[r].count \in 0 .. MaxLen /\ req[r].existed \in BOOLEAN
    BY <1>1 DEF RequestState
  <2>3. [req[r] EXCEPT !.count = req[r].count, !.task = "done",
                       !.error = "broken", !.existed = req[r].existed]
        \in RequestState
    BY <1>1, <2>2, TaskState, ZenonT(40)
  <2>4. [req[r] EXCEPT !.task = "done", !.error = "broken"] \in RequestState
    BY <2>1, <2>3
  <2> QED
    BY <2>4 DEF GetFails, IInv, TypeOK
<1>3. /\ UNCHANGED <<store, saved, want, held, evictor>>
      /\ ret' = [ret EXCEPT ![r] = "err"]
      /\ held[r] = None /\ req[r].task = "queued"
  BY DEF GetFails, Queued, Blobs!Refuse, Blobs!Resting
<1>4. /\ ret' \in [Caller -> {"none", "created", "replaced", "missing", "err"}]
      /\ ret'[r] = "err" /\ \A q \in Request \ {r} : ret'[q] = ret[q]
  BY <1>1, <1>3 DEF IInv, TypeOK, Caller
<1>f. /\ req'[r].addr = req[r].addr /\ req'[r].handler = req[r].handler
      /\ req'[r].event = req[r].event /\ req'[r].timed = req[r].timed
      /\ req'[r].status = req[r].status
      /\ req'[r].task = "done" /\ req'[r].error = "broken"
      /\ req'[r].count = req[r].count
  BY <1>1, <1>2 DEF RequestState
<1>s. req[r].handler \in {"waiting", "between"} =>
        seen'[r] = seen[r] \cup {store[req[r].addr]}
  BY <1>f, <1>1, <1>3 DEF Watch
<1>7. RequestOK(r)'
  <2>1. TaskOK(r)'
    BY <1>1, <1>f, <1>3 DEF RequestOK, TaskOK
  <2>2. EndOK(r)'
    BY <1>1, <1>f, <1>4 DEF RequestOK, EndOK, Stored
  <2>3. ToldOK(r)'
    BY <1>1, <1>f, <1>3 DEF RequestOK, TaskOK, ToldOK
  <2>4. SeenOK(r)'
    BY <1>1, <1>f, <1>3, <1>4, <1>s DEF SeenOK
  <2> QED
    BY <2>1, <2>2, <2>3, <2>4 DEF RequestOK
<1>8. ~Stored(r)
  BY <1>1 DEF RequestOK, EndOK
<1> QED
  BY <1>1, <1>2, <1>f, <1>3, <1>4, <1>7, <1>8, TaskStep, ZenonT(40)
  DEF IInv, TypeOK

LEMMA PutBeginPreserves ==
  ASSUME IInv, NEW r \in Puts, PutBegin(r), Watch
  PROVE  IInv'
<1> DEFINE a == req[r].addr
<1>1. r \in Request /\ r \in Caller
  BY RequestAssumption DEF Caller
<1>2. RequestOK(r) /\ req[r] \in RequestState /\ a \in Address /\ req[r].task = "queued"
  BY <1>1 DEF IInv, TypeOK, RequestOK, TaskOK, PutBegin, Queued
<1>3. /\ req'[r] = [req[r] EXCEPT !.task = "reading", !.existed = store[a] # None]
      /\ \A q \in Request \ {r} : req'[q] = req[q]
      /\ req' \in [Request -> RequestState]
  <2>1. [req[r] EXCEPT !.task = "reading", !.existed = store[a] # None]
        = [req[r] EXCEPT !.count = req[r].count, !.task = "reading",
                         !.error = req[r].error, !.existed = store[a] # None]
    BY <1>2, ZenonT(40) DEF RequestState
  <2>2. /\ req[r].count \in 0 .. MaxLen
        /\ req[r].error \in {"none", "large", "fbig", "broken", "panic"}
    BY <1>2 DEF RequestState
  <2>3. [req[r] EXCEPT !.count = req[r].count, !.task = "reading",
                       !.error = req[r].error, !.existed = store[a] # None]
        \in RequestState
    BY <1>2, <2>2, TaskState, ZenonT(40)
  <2>4. [req[r] EXCEPT !.task = "reading", !.existed = store[a] # None]
        \in RequestState
    BY <2>1, <2>3
  <2> QED
    BY <1>1, <2>4 DEF PutBegin, IInv, TypeOK
<1>4. /\ UNCHANGED <<store, saved, held, evictor>>
      /\ want' = [want EXCEPT ![r] = <<a, r>>]
      /\ ret' = [ret EXCEPT ![r] = "none"]
      /\ held[r] = None
  BY DEF PutBegin, Blobs!BeginPut, Blobs!Resting
<1>5. /\ ret' \in [Caller -> {"none", "created", "replaced", "missing", "err"}]
      /\ want' \in [Caller -> (Address \X Blob) \cup {None}]
      /\ ret'[r] = "none" /\ want'[r] = <<a, r>>
      /\ \A q \in Request \ {r} : ret'[q] = ret[q] /\ want'[q] = want[q]
  BY <1>1, <1>2, <1>4, NamesApart DEF IInv, TypeOK, Caller
<1>6. store[a] # r
  BY <1>1, <1>2, NamesApart DEF IInv, StoreOK, RequestOK, EndOK
<1>f. /\ req'[r].addr = req[r].addr /\ req'[r].handler = req[r].handler
      /\ req'[r].event = req[r].event /\ req'[r].timed = req[r].timed
      /\ req'[r].status = req[r].status
      /\ req'[r].task = "reading" /\ req'[r].error = req[r].error
      /\ req'[r].count = req[r].count
      /\ req'[r].existed = (store[a] # None)
  BY <1>2, <1>3 DEF RequestState
<1>s. req[r].handler \in {"waiting", "between"} =>
        seen'[r] = seen[r] \cup {store[req[r].addr]}
  BY <1>f, <1>1, <1>2, <1>4 DEF Watch
<1>9. RequestOK(r)'
  <2>1. TaskOK(r)'
    BY <1>1, <1>2, <1>f, <1>4, <1>5, BoundsAssumption
    DEF RequestOK, TaskOK
  <2>2. EndOK(r)'
    BY <1>2, <1>f, <1>5 DEF RequestOK, EndOK, Stored
  <2>3. ToldOK(r)'
    BY <1>2, <1>f DEF RequestOK, TaskOK, ToldOK
  <2>4. SeenOK(r)'
    BY <1>1, <1>2, <1>f, <1>4, <1>5, <1>6, <1>s DEF SeenOK
  <2> QED
    BY <2>1, <2>2, <2>3, <2>4 DEF RequestOK
<1>10. ~Stored(r)
  BY <1>2 DEF RequestOK, EndOK
<1> QED
  BY <1>1, <1>2, <1>3, <1>f, <1>4, <1>5, <1>9, <1>10, TaskStep, ZenonT(40)
  DEF IInv, TypeOK

\* What an upload that does not succeed leaves behind.
LEMMA UploadEnds ==
  ASSUME IInv, Watch, NEW r \in Puts, NEW e \in {"large", "fbig", "broken", "panic"},
         NEW n \in 0 .. MaxLen, req[r].task \in {"queued", "reading"},
         e = "large" <=> n > Limit,
         req' = [req EXCEPT ![r].count = n, ![r].task = "done", ![r].error = e,
                            ![r].existed = FALSE],
         want' = [want EXCEPT ![r] = None] \/ (want' = want /\ want[r] = None),
         ret' = [ret EXCEPT ![r] = "err"],
         UNCHANGED <<store, saved, held, evictor>>
  PROVE  IInv'
<1>1. r \in Request /\ r \in Caller
  BY RequestAssumption DEF Caller
<1>2. RequestOK(r) /\ req[r] \in RequestState /\ req[r].addr \in Address
  BY <1>1 DEF IInv, TypeOK, RequestOK, TaskOK
<1>3. /\ req'[r] = [req[r] EXCEPT !.count = n, !.task = "done", !.error = e,
                                  !.existed = FALSE]
      /\ \A q \in Request \ {r} : req'[q] = req[q]
      /\ req' \in [Request -> RequestState]
  <2>1. [req[r] EXCEPT !.count = n, !.task = "done", !.error = e, !.existed = FALSE]
        \in RequestState
    BY <1>2, TaskState
  <2> QED
    BY <1>1, <2>1 DEF IInv, TypeOK
<1>4. /\ ret' \in [Caller -> {"none", "created", "replaced", "missing", "err"}]
      /\ want' \in [Caller -> (Address \X Blob) \cup {None}]
      /\ ret'[r] = "err" /\ want'[r] = None
      /\ \A q \in Request \ {r} : ret'[q] = ret[q] /\ want'[q] = want[q]
  BY <1>1 DEF IInv, TypeOK, Caller
<1>f. /\ req'[r].addr = req[r].addr /\ req'[r].handler = req[r].handler
      /\ req'[r].event = req[r].event /\ req'[r].timed = req[r].timed
      /\ req'[r].status = req[r].status
      /\ req'[r].task = "done" /\ req'[r].error = e /\ req'[r].count = n
  BY <1>2, <1>3 DEF RequestState
<1>s. req[r].handler \in {"waiting", "between"} =>
        seen'[r] = seen[r] \cup {store[req[r].addr]}
  BY <1>f, <1>1, <1>2 DEF Watch
<1>7. RequestOK(r)'
  <2>1. TaskOK(r)'
    BY <1>1, <1>2, <1>f, <1>4 DEF RequestOK, TaskOK
  <2>2. EndOK(r)'
    BY <1>2, <1>f, <1>4 DEF RequestOK, EndOK, Stored
  <2>3. ToldOK(r)'
    BY <1>2, <1>f DEF RequestOK, TaskOK, ToldOK
  <2>4. SeenOK(r)'
    BY <1>1, <1>2, <1>f, <1>4, <1>s DEF SeenOK
  <2> QED
    BY <2>1, <2>2, <2>3, <2>4 DEF RequestOK
<1>8. ~Stored(r)
  BY <1>2 DEF RequestOK, EndOK
<1> QED
  BY <1>1, <1>2, <1>3, <1>f, <1>4, <1>7, <1>8, TaskStep DEF IInv, TypeOK

LEMMA PutReadPreserves ==
  ASSUME IInv, NEW r \in Puts, PutRead(r), Watch
  PROVE  IInv'
<1>1. r \in Request /\ r \in Caller
  BY RequestAssumption DEF Caller
<1>2. RequestOK(r) /\ req[r] \in RequestState /\ req[r].addr \in Address
  BY <1>1 DEF IInv, TypeOK, RequestOK, TaskOK, PutRead, Reading
<1>3. PICK n \in 1 .. MaxLen - req[r].count :
        LET count == req[r].count + n IN
        IF TooLarge(count)
        THEN /\ Blobs!FailPut(r)
             /\ req' = [req EXCEPT ![r].count = count, ![r].task = "done",
                                   ![r].error = "large", ![r].existed = FALSE]
        ELSE /\ UNCHANGED blobs
             /\ req' = [req EXCEPT ![r].count = count]
  BY DEF PutRead
<1> DEFINE count == req[r].count + n
<1>4. count \in 0 .. MaxLen /\ req[r].task = "reading"
  BY <1>2, <1>3, BoundsAssumption DEF RequestState, PutRead, Reading
<1> HIDE DEF count
<1>5. CASE count > Limit
  <2>1. /\ req' = [req EXCEPT ![r].count = count, ![r].task = "done",
                              ![r].error = "large", ![r].existed = FALSE]
        /\ UNCHANGED <<store, saved, held, evictor>>
        /\ want' = [want EXCEPT ![r] = None] /\ ret' = [ret EXCEPT ![r] = "err"]
    BY <1>3, <1>5 DEF count, TooLarge, Blobs!FailPut, PutRead
  <2> QED
    BY <1>4, <1>5, <2>1, UploadEnds
<1>6. CASE ~(count > Limit)
  <2>1. UNCHANGED <<blobs, evictor>> /\ req' = [req EXCEPT ![r].count = count]
    BY <1>3, <1>6 DEF count, TooLarge, PutRead
  <2>2. [req[r] EXCEPT !.count = count] \in RequestState
    BY <1>2, <1>4 DEF RequestState
  <2>3. /\ req'[r] = [req[r] EXCEPT !.count = count]
        /\ \A q \in Request \ {r} : req'[q] = req[q]
        /\ req' \in [Request -> RequestState]
    BY <1>1, <2>1, <2>2 DEF IInv, TypeOK
  <2>4. /\ req'[r].addr = req[r].addr /\ req'[r].handler = req[r].handler
        /\ req'[r].event = req[r].event /\ req'[r].timed = req[r].timed
        /\ req'[r].status = req[r].status /\ req'[r].task = req[r].task
        /\ req'[r].error = req[r].error /\ req'[r].existed = req[r].existed
        /\ req'[r].count = count
    BY <1>2, <2>3 DEF RequestState
  <2>5. count <= Limit
    BY <1>4, <1>6, BoundsAssumption
  <2>6. TaskOK(r)' /\ EndOK(r)' /\ ToldOK(r)'
    BY <1>2, <1>4, <2>1, <2>4, <2>5 DEF RequestOK, TaskOK, EndOK, ToldOK, Stored, blobs
  <2>7. req[r].handler \in {"waiting", "between"} =>
          seen'[r] = seen[r] \cup {store[req[r].addr]}
    BY <1>1, <2>1, <2>4 DEF Watch, blobs
  <2>8. SeenOK(r)'
    BY <1>2, <2>1, <2>4, <2>7 DEF RequestOK, SeenOK, blobs
  <2>9. ~Stored(r)
    BY <1>2, <1>4 DEF RequestOK, EndOK
  <2>10. RequestOK(r)'
    BY <2>6, <2>8 DEF RequestOK
  <2> QED
    BY <1>1, <1>2, <2>1, <2>3, <2>4, <2>9, <2>10, TaskStep DEF IInv, TypeOK, blobs
<1> QED
  BY <1>5, <1>6

LEMMA PutFailsPreserves ==
  ASSUME IInv, NEW r \in Puts, PutFails(r), Watch
  PROVE  IInv'
<1>1. PICK e \in {"fbig", "broken", "panic"} :
        /\ e = "fbig" => Reading(r)
        /\ req' = [req EXCEPT ![r].count = 0, ![r].task = "done",
                              ![r].error = e, ![r].existed = FALSE]
  BY DEF PutFails
<1>2. req[r].task \in {"queued", "reading"}
  BY DEF PutFails, Queued, Reading
<1>3. /\ want' = [want EXCEPT ![r] = None] \/ (want' = want /\ want[r] = None)
      /\ ret' = [ret EXCEPT ![r] = "err"]
      /\ UNCHANGED <<store, saved, held, evictor>>
  BY DEF PutFails, Blobs!FailPut, Blobs!Refuse, Blobs!Resting
<1>4. 0 \in 0 .. MaxLen /\ ~(0 > Limit)
  BY BoundsAssumption
<1> QED
  BY <1>1, <1>2, <1>3, <1>4, UploadEnds

LEMMA PutStorePreserves ==
  ASSUME IInv, NEW r \in Puts, PutStore(r), Watch
  PROVE  IInv'
<1> DEFINE a == req[r].addr
<1>1. r \in Request /\ r \in Caller /\ r # None
  BY RequestAssumption, NamesApart DEF Caller
<1>2. /\ RequestOK(r) /\ req[r] \in RequestState /\ a \in Address
      /\ req[r].task = "reading" /\ want[r] = <<a, r>> /\ ~Stored(r)
      /\ req[r].error = "none"
  BY <1>1 DEF IInv, TypeOK, RequestOK, TaskOK, EndOK, PutStore, Reading
<1>3. /\ req'[r] = [req[r] EXCEPT !.task = "done", !.existed = FALSE]
      /\ \A q \in Request \ {r} : req'[q] = req[q]
      /\ req' \in [Request -> RequestState]
  <2>1. [req[r] EXCEPT !.task = "done", !.existed = FALSE]
        = [req[r] EXCEPT !.count = req[r].count, !.task = "done",
                         !.error = req[r].error, !.existed = FALSE]
    BY <1>2, ZenonT(40) DEF RequestState
  <2>2. /\ req[r].count \in 0 .. MaxLen
        /\ req[r].error \in {"none", "large", "fbig", "broken", "panic"}
    BY <1>2 DEF RequestState
  <2>3. [req[r] EXCEPT !.count = req[r].count, !.task = "done",
                       !.error = req[r].error, !.existed = FALSE]
        \in RequestState
    BY <1>2, <2>2, TaskState, ZenonT(40)
  <2>4. [req[r] EXCEPT !.task = "done", !.existed = FALSE] \in RequestState
    BY <2>1, <2>3
  <2> QED
    BY <1>1, <2>4 DEF PutStore, IInv, TypeOK
<1>4. /\ req'[r].addr = req[r].addr /\ req'[r].handler = req[r].handler
      /\ req'[r].event = req[r].event /\ req'[r].timed = req[r].timed
      /\ req'[r].status = req[r].status /\ req'[r].task = "done"
      /\ req'[r].error = req[r].error /\ req'[r].count = req[r].count
  BY <1>2, <1>3 DEF RequestState
<1>5. PICK y \in {"created", "replaced"} : ret' = [ret EXCEPT ![r] = y]
  BY DEF PutStore, Blobs!Put
<1>6. /\ store' = [store EXCEPT ![a] = r] /\ want' = [want EXCEPT ![r] = None]
      /\ UNCHANGED <<saved, held, evictor>>
      /\ ret'[r] = IF req[r].existed THEN "replaced" ELSE "created"
  BY <1>2 DEF PutStore, Blobs!Put
<1>7. /\ store' \in [Address -> Blob \cup {None}]
      /\ want' \in [Caller -> (Address \X Blob) \cup {None}]
      /\ held' \in [Caller -> Blob \cup {None}]
      /\ ret' \in [Caller -> {"none", "created", "replaced", "missing", "err"}]
      /\ want'[r] = None /\ store'[a] = r
      /\ \A b \in Address \ {a} : store'[b] = store[b]
      /\ \A q \in Request \ {r} : ret'[q] = ret[q] /\ want'[q] = want[q]
  BY <1>1, <1>2, <1>5, <1>6, NamesApart DEF IInv, TypeOK, Caller
<1>8. TypeOK'
  BY <1>1, <1>2, <1>3, <1>4, <1>6, <1>7, OwnTyped
<1>9. RequestOK(r)'
  <2>1. TaskOK(r)'
    BY <1>1, <1>2, <1>4, <1>6, <1>7 DEF RequestOK, TaskOK
  <2>2. Stored(r)'
    BY <1>6 DEF Stored
  <2>3. EndOK(r)'
    BY <1>2, <1>4, <2>2 DEF RequestOK, TaskOK, EndOK
  <2>4. ToldOK(r)'
    BY <1>2, <1>4 DEF RequestOK, TaskOK, ToldOK
  <2>5. req[r].handler \in {"waiting", "between"} => seen'[r] = seen[r] \cup {r}
    BY <1>1, <1>4, <1>7 DEF Watch
  <2>6. SeenOK(r)'
    BY <1>2, <1>4, <1>6, <1>7, <2>5 DEF RequestOK, SeenOK
  <2> QED
    BY <2>1, <2>3, <2>4, <2>6 DEF RequestOK
<1>10. \A q \in Request \ {r} : Kept(q)
  BY <1>3, <1>6, <1>7 DEF Kept
<1>11. \A q \in Request : RequestOK(q)'
  BY <1>8, <1>9, <1>10, KeptOK DEF IInv
<1>12. StoreOK'
  <2> SUFFICES ASSUME NEW b \in Address, store'[b] \notin {Earlier, None}
               PROVE  ret'[store'[b]] \in {"created", "replaced"}
    BY DEF StoreOK, Stored
  <2>1. CASE b = a
    BY <1>6, <1>7, <2>1
  <2>2. CASE b # a
    <3>1. store'[b] = store[b] /\ store[b] \in Request /\ Stored(store[b])
      BY <1>7, <2>2 DEF IInv, StoreOK, TypeOK, Blob
    <3>2. store[b] # r
      BY <1>2, <3>1
    <3> QED
      BY <1>7, <3>1, <3>2 DEF Stored
  <2> QED
    BY <2>1, <2>2
<1> QED
  BY <1>8, <1>11, <1>12 DEF IInv

\* What a handler tells fits what has become of its request.
Fits(r, h, v, t, c) ==
  /\ h \in {"between", "answered", "dropped"} /\ v \in Events /\ t \in BOOLEAN
  /\ c \in {0, 200, 201, 400, 404, 413, 500}
  /\ req[r].handler \in {"waiting", "between"}
  /\ h = "dropped" => v = "none" /\ t = FALSE /\ c = 0
  /\ h # "dropped" => req[r].task = "done"
  /\ h = "between" =>
       /\ c = 0 /\ req[r].error = "none"
       /\ IF r \in Puts THEN t = FALSE /\ v \in {"upload", "duplicate"}
                        ELSE t = TRUE /\ v = "none"
  /\ h = "answered" /\ req[r].error = "none" =>
       /\ t = TRUE
       /\ IF r \in Puts THEN v \in {"upload", "duplicate"} /\ c \in {200, 201}
                        ELSE v \in {"hit", "miss"} /\ c \in {200, 404}
  /\ h = "answered" /\ req[r].error # "none" =>
       /\ t = FALSE
       /\ \/ req[r].error \in {"large", "fbig"} /\ v = "rejected" /\ c = 413
          \/ req[r].error = "broken" /\ v = "failed" /\ c = 400
          \/ v = "none" /\ c = 500

LEMMA TellPreserves ==
  ASSUME IInv, Watch, NEW r \in Request, NEW h, NEW v, NEW t, NEW c,
         Fits(r, h, v, t, c), Tell(r, h, v, t, c)
  PROVE  IInv'
<1> DEFINE s1 == [req[r] EXCEPT !.event = v]
           s2 == [s1 EXCEPT !.timed = t]
           s3 == [s2 EXCEPT !.status = c]
           s4 == [s3 EXCEPT !.handler = h]
<1>1. req[r] \in RequestState /\ r \in Request
  BY DEF IInv, TypeOK
<1>2. s4 \in RequestState
  <2>1. s1 \in RequestState
    BY <1>1 DEF RequestState, Fits
  <2> HIDE DEF s1
  <2>2. s2 \in RequestState
    BY <2>1 DEF RequestState, Fits
  <2> HIDE DEF s2
  <2>3. s3 \in RequestState
    BY <2>2 DEF RequestState, Fits
  <2> HIDE DEF s3
  <2> QED
    BY <2>3 DEF RequestState, Fits
<1>3. /\ req'[r] = s4
      /\ \A q \in Request \ {r} : req'[q] = req[q]
      /\ req' \in [Request -> RequestState]
  <2>1. s4 = [req[r] EXCEPT !.event = v, !.timed = t, !.status = c, !.handler = h]
    OBVIOUS
  <2>2. req' = [req EXCEPT ![r] =
                  [req[r] EXCEPT !.event = v, !.timed = t, !.status = c, !.handler = h]]
    BY DEF Tell
  <2>3. req' = [req EXCEPT ![r] = s4]
    BY <2>1, <2>2
  <2> HIDE DEF s4
  <2> QED
    BY <1>1, <1>2, <2>3 DEF IInv, TypeOK
<1>4. /\ req'[r].addr = req[r].addr /\ req'[r].task = req[r].task
      /\ req'[r].count = req[r].count /\ req'[r].existed = req[r].existed
      /\ req'[r].error = req[r].error /\ req'[r].handler = h
      /\ req'[r].event = v /\ req'[r].timed = t /\ req'[r].status = c
  BY <1>1, <1>3 DEF RequestState
<1>5. ToldOK(r)'
  BY <1>4 DEF ToldOK, Fits
<1>6. UNCHANGED <<blobs, evictor>>
  BY DEF Tell
<1>7. /\ req[r].handler \in {"waiting", "between"}
      /\ \/ req'[r].handler = "dropped"
         \/ req[r].task = "done" /\ req'[r].handler \in {"between", "answered"}
  BY <1>4 DEF Fits
<1> QED
  BY <1>3, <1>4, <1>5, <1>6, <1>7, HandlerStep

LEMMA AnswersPreserve ==
  ASSUME IInv, NEW r \in Request, Answers(r), Watch
  PROVE  IInv'
<1>1. RequestOK(r)
  BY DEF IInv
<1>2. CASE r \in Puts
  <2>1. CASE PutCount(r)
    <3> DEFINE v == IF ret[r] = "created" THEN "upload" ELSE "duplicate"
    <3>1. v \in Events /\ v \in {"upload", "duplicate"}
      BY DEF Events
    <3>2. /\ req[r].handler = "waiting" /\ req[r].task = "done"
          /\ req[r].error = "none" /\ Tell(r, "between", v, FALSE, 0)
      BY <2>1 DEF PutCount, Awake
    <3> HIDE DEF v
    <3>3. Fits(r, "between", v, FALSE, 0)
      BY <1>2, <3>1, <3>2 DEF Fits
    <3> QED
      BY <3>2, <3>3, TellPreserves, ZenonT(40)
  <2>2. CASE PutAnswer(r)
    <3> DEFINE c == IF ret[r] = "created" THEN 201 ELSE 200
    <3>1. c \in {0, 200, 201, 400, 404, 413, 500} /\ c \in {200, 201}
      OBVIOUS
    <3>2. /\ req[r].handler = "between" /\ req[r].task = "done"
          /\ req[r].error = "none" /\ req[r].event \in {"upload", "duplicate"}
          /\ Tell(r, "answered", req[r].event, TRUE, c)
      BY <1>1, <1>2, <2>2 DEF PutAnswer, Answer, RequestOK, TaskOK, ToldOK
    <3>3. req[r].event \in Events
      BY <3>2 DEF Events
    <3> HIDE DEF c
    <3>4. Fits(r, "answered", req[r].event, TRUE, c)
      BY <1>2, <3>1, <3>2, <3>3 DEF Fits
    <3> QED
      BY <3>2, <3>4, TellPreserves, ZenonT(40)
  <2>3. CASE PutRejected(r)
    <3>1. "rejected" \in Events
      BY DEF Events
    <3>2. /\ req[r].handler = "waiting" /\ req[r].task = "done"
          /\ req[r].error \in {"large", "fbig"}
          /\ Tell(r, "answered", "rejected", FALSE, 413)
      BY <2>3 DEF PutRejected, Awake, Answer
    <3>3. Fits(r, "answered", "rejected", FALSE, 413)
      BY <3>1, <3>2 DEF Fits
    <3> QED
      BY <3>2, <3>3, TellPreserves, ZenonT(40)
  <2>4. CASE PutFailed(r)
    <3>1. "failed" \in Events
      BY DEF Events
    <3>2. /\ req[r].handler = "waiting" /\ req[r].task = "done"
          /\ req[r].error = "broken" /\ Tell(r, "answered", "failed", FALSE, 400)
      BY <2>4 DEF PutFailed, Awake, Answer
    <3>3. Fits(r, "answered", "failed", FALSE, 400)
      BY <3>1, <3>2 DEF Fits
    <3> QED
      BY <3>2, <3>3, TellPreserves, ZenonT(40)
  <2>5. CASE PutError(r)
    <3>1. "none" \in Events
      BY DEF Events
    <3>2. /\ req[r].handler = "waiting" /\ req[r].task = "done"
          /\ req[r].error = "panic" /\ Tell(r, "answered", "none", FALSE, 500)
      BY <2>5 DEF PutError, Awake, Answer
    <3>3. Fits(r, "answered", "none", FALSE, 500)
      BY <3>1, <3>2 DEF Fits
    <3> QED
      BY <3>2, <3>3, TellPreserves, ZenonT(40)
  <2> QED
    BY <1>2, <2>1, <2>2, <2>3, <2>4, <2>5 DEF Answers
<1>3. CASE r \notin Puts
  <2>1. {"none", "hit", "miss"} \subseteq Events
    BY DEF Events
  <2>2. CASE GetTime(r)
    <3>1. /\ req[r].handler = "waiting" /\ req[r].task = "done"
          /\ req[r].error = "none" /\ Tell(r, "between", "none", TRUE, 0)
      BY <2>2 DEF GetTime, Awake
    <3>2. Fits(r, "between", "none", TRUE, 0)
      BY <1>3, <2>1, <3>1 DEF Fits
    <3> QED
      BY <3>1, <3>2, TellPreserves, ZenonT(40)
  <2>3. CASE GetAnswer(r)
    <3>1. /\ req[r].handler = "between" /\ req[r].task = "done" /\ req[r].error = "none"
      BY <1>1, <2>3 DEF GetAnswer, RequestOK, TaskOK, ToldOK
    <3>2. Tell(r, "answered", "hit", TRUE, 200) \/ Tell(r, "answered", "miss", TRUE, 404)
      BY <2>3 DEF GetAnswer, Answer
    <3>3. CASE Tell(r, "answered", "hit", TRUE, 200)
      <4>1. Fits(r, "answered", "hit", TRUE, 200)
        BY <1>3, <2>1, <3>1 DEF Fits
      <4> QED
        BY <3>3, <4>1, TellPreserves, ZenonT(40)
    <3>4. CASE Tell(r, "answered", "miss", TRUE, 404)
      <4>1. Fits(r, "answered", "miss", TRUE, 404)
        BY <1>3, <2>1, <3>1 DEF Fits
      <4> QED
        BY <3>4, <4>1, TellPreserves, ZenonT(40)
    <3> QED
      BY <3>2, <3>3, <3>4
  <2>4. CASE GetError(r)
    <3>1. /\ req[r].handler = "waiting" /\ req[r].task = "done"
          /\ req[r].error # "none" /\ Tell(r, "answered", "none", FALSE, 500)
      BY <2>4 DEF GetError, Awake, Answer
    <3>2. Fits(r, "answered", "none", FALSE, 500)
      BY <2>1, <3>1 DEF Fits
    <3> QED
      BY <3>1, <3>2, TellPreserves, ZenonT(40)
  <2> QED
    BY <1>3, <2>2, <2>3, <2>4 DEF Answers
<1> QED
  BY <1>2, <1>3

LEMMA DropPreserves ==
  ASSUME IInv, NEW r \in Request, Drop(r), Watch
  PROVE  IInv'
<1>1. "none" \in Events
  BY DEF Events
<1>2. req[r].handler = "waiting" /\ Tell(r, "dropped", "none", FALSE, 0)
  BY DEF Drop
<1>3. Fits(r, "dropped", "none", FALSE, 0)
  BY <1>1, <1>2 DEF Fits
<1> QED
  BY <1>2, <1>3, TellPreserves, ZenonT(40)
-----------------------------------------------------------------------------
LEMMA PassStep ==
  ASSUME IInv, Watch, UNCHANGED <<blobs, req>>,
         pass' \in {"idle", "evicting", "report"},
         listing' \in SUBSET Address, evicted' \in SUBSET Address,
         evictions' \in Nat, passes' \in 0 .. MaxPasses
  PROVE  IInv'
<1>1. \A r \in Request : Kept(r)
  BY DEF Kept, blobs
<1>2. seen' \in [Request -> SUBSET (Blob \cup {None})]
  <2>1. ASSUME NEW q \in Request, req[q].handler \in {"waiting", "between"}
        PROVE  store[req[q].addr] \in Blob \cup {None}
    <3>1. req[q].addr \in Address
      BY <2>1 DEF IInv, RequestOK, TaskOK
    <3> QED
      BY <3>1 DEF IInv, TypeOK
  <2> QED
    BY <2>1 DEF Watch, blobs, IInv, TypeOK
<1>3. TypeOK'
  BY <1>2 DEF IInv, TypeOK, blobs, Watch
<1> QED
  BY <1>1, <1>3, EvictorStep DEF blobs

LEMMA PassRemovePreserves ==
  ASSUME IInv, PassRemove, Watch
  PROVE  IInv'
<1>1. PICK a \in listing : /\ Blobs!Remove(Evictor, a)
                           /\ listing' = listing \ {a}
                           /\ evicted' = evicted \cup {a}
  BY DEF PassRemove
<1>2. a \in Address /\ Evictor \in Caller /\ Evictor \notin Request
  BY RequestAssumption DEF IInv, TypeOK, Caller
<1>3. /\ store' = [store EXCEPT ![a] = None] /\ ret' = [ret EXCEPT ![Evictor] = "none"]
      /\ UNCHANGED <<saved, want, held, req, pass, evictions, passes>>
  BY <1>1 DEF Blobs!Remove, PassRemove
<1>4. /\ store' \in [Address -> Blob \cup {None}]
      /\ ret' \in [Caller -> {"none", "created", "replaced", "missing", "err"}]
      /\ \A b \in Address : store'[b] \in {store[b], None}
  BY <1>2, <1>3 DEF IInv, TypeOK
<1>5. \A r \in Request : Kept(r)
  BY <1>2, <1>3 DEF Kept, Caller, IInv, TypeOK
<1>6. seen' \in [Request -> SUBSET (Blob \cup {None})]
  <2>1. ASSUME NEW q \in Request, req[q].handler \in {"waiting", "between"}
        PROVE  store'[req[q].addr] \in Blob \cup {None}
    <3>1. req[q].addr \in Address
      BY <2>1 DEF IInv, RequestOK, TaskOK
    <3> QED
      BY <1>4, <3>1
  <2> QED
    BY <1>3, <2>1 DEF Watch, IInv, TypeOK
<1>7. TypeOK'
  BY <1>1, <1>2, <1>3, <1>4, <1>6 DEF IInv, TypeOK, Watch
<1> QED
  BY <1>4, <1>5, <1>7, EvictorStep

LEMMA PassesPreserve ==
  ASSUME IInv, PassBegin \/ PassKeep \/ PassEnd \/ PassReport \/ PassFails, Watch
  PROVE  IInv'
<1>1. TypeOK
  BY DEF IInv
<1>2. CASE PassBegin
  BY <1>1, <1>2, BoundsAssumption, PassStep DEF PassBegin, TypeOK
<1>3. CASE PassKeep
  BY <1>1, <1>3, PassStep DEF PassKeep, TypeOK
<1>4. CASE PassEnd
  BY <1>1, <1>4, PassStep DEF PassEnd, TypeOK
<1>5. CASE PassReport
  <2>1. Cardinality(evicted) \in Nat
    <3>1. IsFiniteSet(evicted)
      BY <1>1, RequestAssumption, FS_Subset DEF TypeOK
    <3> QED
      BY <3>1, FS_CardinalityType
  <2> QED
    BY <1>1, <1>5, <2>1, PassStep DEF PassReport, TypeOK
<1>6. CASE PassFails
  BY <1>1, <1>6, PassStep DEF PassFails, TypeOK
<1> QED
  BY <1>2, <1>3, <1>4, <1>5, <1>6
-----------------------------------------------------------------------------
LEMMA InitEstablishes == Init => IInv
<1> SUFFICES ASSUME Init PROVE IInv
  OBVIOUS
<1>1. NotYet \in RequestState
  BY BoundsAssumption DEF NotYet, RequestState, Events
<1>2. TypeOK
  BY <1>1, BoundsAssumption DEF Init, TypeOK, Blob
<1>3. StoreOK
  BY DEF StoreOK, Init
<1>4. ASSUME NEW r \in Request PROVE RequestOK(r)
  <2>1. /\ req[r] = NotYet /\ want[r] = None /\ held[r] = None /\ ret[r] = "none"
    BY DEF Init, Caller
  <2> QED
    BY <2>1, BoundsAssumption
    DEF RequestOK, TaskOK, EndOK, ToldOK, SeenOK, Stored, NotYet
<1> QED
  BY <1>2, <1>3, <1>4 DEF IInv

LEMMA NextPreserves == IInv /\ [Next]_vars => IInv'
<1> SUFFICES ASSUME IInv, [Next]_vars PROVE IInv'
  OBVIOUS
<1>1. CASE UNCHANGED vars
  BY <1>1 DEF vars, blobs, evictor, IInv, TypeOK, StoreOK, RequestOK, TaskOK, EndOK,
              ToldOK, SeenOK, Stored
<1>2. CASE Next
  <2>1. Watch
    BY <1>2 DEF Next
  <2>2. ASSUME NEW r \in Request,
               Arrive(r) \/ Starts(r) \/ Uploads(r) \/ Answers(r) \/ Drop(r)
        PROVE  IInv'
    <3>1. CASE Arrive(r)
      BY <2>1, <3>1, ArrivePreserves
    <3>2. CASE Starts(r)
      BY <2>1, <3>2, PutBeginPreserves, GetOpenPreserves, GetFailsPreserves DEF Starts
    <3>3. CASE Uploads(r)
      BY <2>1, <3>3, PutReadPreserves, PutStorePreserves, PutFailsPreserves DEF Uploads
    <3>4. CASE Answers(r)
      BY <2>1, <3>4, AnswersPreserve
    <3>5. CASE Drop(r)
      BY <2>1, <3>5, DropPreserves
    <3> QED
      BY <2>2, <3>1, <3>2, <3>3, <3>4, <3>5
  <2>3. CASE PassBegin \/ Pass
    BY <2>1, <2>3, PassRemovePreserves, PassesPreserve DEF Pass
  <2> QED
    BY <1>2, <2>2, <2>3 DEF Next
<1> QED
  BY <1>1, <1>2
-----------------------------------------------------------------------------
\* The invariant holds for every set of requests and addresses, every limit and
\* every size of the pool.
THEOREM Invariance == Spec => []IInv
<1>1. Init => IInv
  BY InitEstablishes
<1>2. IInv /\ [Next]_vars => IInv'
  BY NextPreserves
<1> QED
  BY <1>1, <1>2, PTL DEF Spec

\* The limit is exact: 413 for the larger bodies and only for them, and nothing
\* larger is stored or acknowledged (CountingReader, blobs.rs).
THEOREM LimitStaysExact == Spec => []LimitExact
<1>1. IInv => LimitExact
  <2> SUFFICES ASSUME IInv, NEW r \in Request
               PROVE  /\ req[r].status = 413 => req[r].count > Limit \/ req[r].error = "fbig"
                      /\ req[r].status = 400 => req[r].error = "broken"
                      /\ (\E a \in Address : store[a] = r) \/ Stored(r) =>
                           req[r].count <= Limit /\ req[r].error = "none"
    BY DEF LimitExact
  <2>1. RequestOK(r) /\ r \notin {Earlier, None}
    BY NamesApart DEF IInv
  <2>2. (\E a \in Address : store[a] = r) => Stored(r)
    BY <2>1 DEF IInv, StoreOK
  <2>3. req[r].status = 413 => req[r].error \in {"large", "fbig"}
    BY <2>1 DEF RequestOK, TaskOK, ToldOK, IInv, TypeOK, RequestState
  <2>4. req[r].status = 400 => req[r].error = "broken"
    BY <2>1 DEF RequestOK, TaskOK, ToldOK, IInv, TypeOK, RequestState
  <2> QED
    BY <2>1, <2>2, <2>3, <2>4 DEF RequestOK, EndOK
<1> QED
  BY <1>1, Invariance, PTL

\* What the metrics tell of a request is what became of it (get and put, blobs.rs).
THEOREM CountersStayFollowing == Spec => []CountersFollow
<1>1. IInv => CountersFollow
  <2> SUFFICES ASSUME IInv, NEW r \in Request
               PROVE  /\ req[r].event \in {"upload", "duplicate"} => Stored(r)
                      /\ Stored(r) /\ req[r].event = "none" =>
                           req[r].handler \in {"waiting", "dropped"}
                      /\ req[r].timed #
                           (req[r].event \in {"hit", "miss", "upload", "duplicate"}) =>
                             req[r].handler = "between"
                      /\ req[r].event \in {"rejected", "failed"} =>
                           ~Stored(r) /\ \A a \in Address : store[a] # r
    BY DEF CountersFollow
  <2>1. RequestOK(r) /\ r \notin {Earlier, None} /\ req[r] \in RequestState
    BY NamesApart DEF IInv, TypeOK
  <2>2. (\E a \in Address : store[a] = r) => Stored(r)
    BY <2>1 DEF IInv, StoreOK
  <2>3. req[r].handler \in {"none", "waiting", "between", "answered", "dropped"}
        /\ req[r].timed \in BOOLEAN
    BY <2>1 DEF RequestState
  <2>4. req[r].event \in {"rejected", "failed"} => req[r].error # "none"
    BY <2>1, <2>3 DEF RequestOK, ToldOK
  <2>5. req[r].event \in {"upload", "duplicate"} =>
          r \in Puts /\ req[r].task = "done" /\ req[r].error = "none"
    BY <2>1, <2>3 DEF RequestOK, TaskOK, ToldOK
  <2>6. Stored(r) /\ req[r].event = "none" => req[r].handler \in {"waiting", "dropped"}
    BY <2>1, <2>3 DEF RequestOK, TaskOK, EndOK, ToldOK
  <2>7. req[r].timed # (req[r].event \in {"hit", "miss", "upload", "duplicate"}) =>
          req[r].handler = "between"
    BY <2>1, <2>3 DEF RequestOK, ToldOK
  <2>8. /\ req[r].event \in {"upload", "duplicate"} => Stored(r)
        /\ req[r].event \in {"rejected", "failed"} => ~Stored(r)
    BY <2>1, <2>4, <2>5 DEF RequestOK, EndOK
  <2> QED
    BY <2>2, <2>6, <2>7, <2>8
<1> QED
  BY <1>1, Invariance, PTL
-----------------------------------------------------------------------------
\* Only one action of a request's handler answers it from "between".
LEMMA Answering ==
  ASSUME IInv, Next, NEW r \in Request,
         req[r].handler = "between", req'[r].handler = "answered"
  PROVE  IF r \in Puts THEN PutAnswer(r) ELSE GetAnswer(r)
<1>1. RequestOK(r) /\ req \in [Request -> RequestState]
  BY DEF IInv, TypeOK
<1>2. req[r].task = "done"
  BY <1>1 DEF RequestOK, TaskOK
<1>3. req' # req
  OBVIOUS
<1>4. PICK q \in Request :
        Arrive(q) \/ Starts(q) \/ Uploads(q) \/ Answers(q) \/ Drop(q)
  BY <1>3 DEF Next, Pass, PassBegin, PassRemove, PassKeep, PassEnd, PassReport, PassFails
<1>5. q = r
  <2> SUFFICES ASSUME q # r PROVE req'[r] = req[r]
    OBVIOUS
  <2>1. CASE Arrive(q) \/ Starts(q)
    BY <1>1, <2>1 DEF Arrive, Starts, PutBegin, GetOpen, GetFails
  <2>2. CASE Uploads(q)
    BY <1>1, <2>2 DEF Uploads, PutRead, PutStore, PutFails
  <2>3. CASE Answers(q) \/ Drop(q)
    BY <1>1, <2>3 DEF Answers, PutCount, PutAnswer, PutRejected, PutFailed, PutError,
                      GetTime, GetAnswer, GetError, Drop, Answer, Tell
  <2> QED
    BY <1>4, <2>1, <2>2, <2>3
<1>6. Answers(r)
  BY <1>2, <1>4, <1>5 DEF Arrive, Starts, PutBegin, GetOpen, GetFails, Queued, Uploads,
                          PutRead, PutStore, PutFails, Reading, Drop
<1> QED
  BY <1>6 DEF Answers, PutCount, PutRejected, PutFailed, PutError, GetTime, GetError,
              Awake

\* Every answer was true of the address at some moment since the request arrived,
\* whatever other uploads and eviction passes did (get and put, blobs.rs).
THEOREM AnswersStayCurrent == Spec => AnswersCurrent
<1> DEFINE Current(r) ==
      req[r].handler = "between" /\ req'[r].handler = "answered" =>
         /\ req'[r].status = 404 => None \in seen[r]
         /\ req'[r].status = 201 => {None, r} \subseteq seen[r]
         /\ req'[r].status = 200 =>
              IF r \in Puts THEN r \in seen[r] /\ seen[r] \ {None, r} # {}
                           ELSE held[r] \in seen[r]
<1>1. ASSUME IInv, [Next]_vars, NEW r \in Request PROVE Current(r)
  <2> SUFFICES ASSUME req[r].handler = "between", req'[r].handler = "answered"
               PROVE  /\ req'[r].status = 404 => None \in seen[r]
                      /\ req'[r].status = 201 => {None, r} \subseteq seen[r]
                      /\ req'[r].status = 200 =>
                           IF r \in Puts THEN r \in seen[r] /\ seen[r] \ {None, r} # {}
                                        ELSE held[r] \in seen[r]
    OBVIOUS
  <2>1. RequestOK(r) /\ req \in [Request -> RequestState]
    BY <1>1 DEF IInv, TypeOK
  <2>2. IF r \in Puts THEN PutAnswer(r) ELSE GetAnswer(r)
    BY <1>1, Answering DEF vars
  <2>3. req[r].task = "done" /\ req[r].error = "none"
    BY <2>1 DEF RequestOK, TaskOK, ToldOK
  <2>4. CASE r \in Puts
    <3>1. req'[r].status = IF ret[r] = "created" THEN 201 ELSE 200
      BY <2>1, <2>2, <2>4 DEF PutAnswer, Answer, Tell, RequestState
    <3>2. ret[r] \in {"created", "replaced"}
      BY <2>1, <2>3, <2>4 DEF RequestOK, EndOK, Stored
    <3> QED
      BY <2>1, <2>4, <3>1, <3>2 DEF RequestOK, SeenOK
  <2>5. CASE r \notin Puts
    <3>1. req'[r].status = IF held[r] # None THEN 200 ELSE 404
      BY <2>1, <2>2, <2>5 DEF GetAnswer, Answer, Tell, RequestState
    <3>2. held[r] \in seen[r]
      BY <2>1, <2>3, <2>5 DEF RequestOK, SeenOK
    <3> QED
      BY <2>5, <3>1, <3>2
  <2> QED
    BY <2>4, <2>5
<1>2. IInv /\ [Next]_vars => [\A r \in Request : Current(r)]_vars
  BY <1>1
<1> QED
  BY <1>2, Invariance, PTL DEF Spec, AnswersCurrent
-----------------------------------------------------------------------------
\* What a pass lists stays occupied until the pass removes it.
CoverInv ==
  /\ IInv
  /\ \A a \in listing : store[a] # None
  /\ evictions + Cardinality(evicted) + Cardinality(Occupied)
       <= Cardinality(Uploaded) + Cardinality(found)

LEMMA CoverFinite ==
  ASSUME TypeOK
  PROVE  /\ IsFiniteSet(Occupied) /\ Cardinality(Occupied) \in Nat
         /\ IsFiniteSet(Uploaded) /\ Cardinality(Uploaded) \in Nat
         /\ IsFiniteSet(evicted) /\ Cardinality(evicted) \in Nat
         /\ Cardinality(found) \in Nat
<1>1. /\ Occupied \subseteq Address /\ Uploaded \subseteq Request
      /\ evicted \subseteq Address /\ found \subseteq Address
  BY DEF Occupied, Uploaded, TypeOK
<1>2. /\ IsFiniteSet(Occupied) /\ IsFiniteSet(Uploaded)
      /\ IsFiniteSet(evicted) /\ IsFiniteSet(found)
  BY <1>1, RequestAssumption, FS_Subset
<1> QED
  BY <1>2, FS_CardinalityType

\* A step that changes no entry, and takes nothing back that was stored.
LEMMA CoverStep ==
  ASSUME CoverInv, IInv', found' = found, store' = store,
         \A q \in Request : Stored(q) => Stored(q)',
         listing' \in SUBSET Occupied,
         evictions' + Cardinality(evicted') <= evictions + Cardinality(evicted)
  PROVE  CoverInv'
<1>1. Occupied' = Occupied /\ Uploaded \subseteq Uploaded'
  BY DEF Occupied, Uploaded
<1>2. /\ IsFiniteSet(Uploaded') /\ Cardinality(Uploaded') \in Nat
      /\ Cardinality(evicted') \in Nat
  <2>1. Uploaded' \subseteq Request /\ evicted' \subseteq Address
    BY DEF Uploaded, IInv, TypeOK
  <2>2. IsFiniteSet(Uploaded') /\ IsFiniteSet(evicted')
    BY <2>1, RequestAssumption, FS_Subset
  <2> QED
    BY <2>2, FS_CardinalityType
<1>3. Cardinality(Uploaded) <= Cardinality(Uploaded')
  BY <1>1, <1>2, FS_Subset
<1>4. \A a \in listing' : store'[a] # None
  BY DEF Occupied
<1>5. /\ Cardinality(Occupied) \in Nat /\ Cardinality(Uploaded) \in Nat
      /\ Cardinality(evicted) \in Nat /\ evictions \in Nat /\ evictions' \in Nat
      /\ Cardinality(found) \in Nat
  BY CoverFinite DEF CoverInv, IInv, TypeOK
<1>6. evictions' + Cardinality(evicted') + Cardinality(Occupied')
        <= Cardinality(Uploaded') + Cardinality(found')
  BY <1>1, <1>2, <1>3, <1>5 DEF CoverInv
<1> QED
  BY <1>4, <1>6 DEF CoverInv

LEMMA CoverStore ==
  ASSUME CoverInv, IInv', found' = found, NEW r \in Puts, PutStore(r)
  PROVE  CoverInv'
<1> DEFINE a == req[r].addr
<1>1. r \in Request /\ r \in Caller /\ r # None
  BY RequestAssumption, NamesApart DEF Caller
<1>2. a \in Address /\ want[r] = <<a, r>> /\ ~Stored(r) /\ TypeOK
  BY <1>1 DEF CoverInv, IInv, RequestOK, TaskOK, EndOK, PutStore, Reading
<1>y. PICK y \in {"created", "replaced"} : ret' = [ret EXCEPT ![r] = y]
  BY DEF PutStore, Blobs!Put
<1>4. store' = [store EXCEPT ![a] = r] /\ UNCHANGED evictor
  BY <1>2 DEF PutStore, Blobs!Put
<1>5. Occupied' = Occupied \cup {a}
  BY <1>1, <1>2, <1>4 DEF Occupied, TypeOK
<1>6. Uploaded' = Uploaded \cup {r} /\ r \notin Uploaded
  BY <1>1, <1>2, <1>y DEF Uploaded, Stored, TypeOK
<1>7. /\ IsFiniteSet(Occupied) /\ Cardinality(Occupied) \in Nat
      /\ IsFiniteSet(Uploaded) /\ Cardinality(Uploaded) \in Nat
      /\ Cardinality(evicted) \in Nat /\ evictions \in Nat
      /\ Cardinality(found) \in Nat
  BY <1>2, CoverFinite DEF TypeOK
<1>8. Cardinality(Occupied') <= Cardinality(Occupied) + 1 /\ Cardinality(Occupied') \in Nat
  <2>1. CASE a \in Occupied
    <3>1. Occupied' = Occupied
      BY <1>5, <2>1
    <3> QED
      BY <1>7, <3>1
  <2>2. CASE a \notin Occupied
    <3>1. Cardinality(Occupied') = Cardinality(Occupied) + 1
      BY <1>5, <1>7, <2>2, FS_AddElement
    <3> QED
      BY <1>7, <3>1
  <2> QED
    BY <2>1, <2>2
<1>9. Cardinality(Uploaded') = Cardinality(Uploaded) + 1
  BY <1>6, <1>7, FS_AddElement
<1>10. \A b \in listing' : store'[b] # None
  BY <1>1, <1>2, <1>4 DEF CoverInv, TypeOK, evictor
<1>11. evictions' + Cardinality(evicted') + Cardinality(Occupied')
        <= Cardinality(Uploaded') + Cardinality(found')
  <2>1. evictions' = evictions /\ evicted' = evicted
    BY <1>4 DEF evictor
  <2> QED
    BY <1>7, <1>8, <1>9, <2>1 DEF CoverInv
<1> QED
  BY <1>10, <1>11 DEF CoverInv

LEMMA CoverRemove ==
  ASSUME CoverInv, IInv', found' = found, PassRemove
  PROVE  CoverInv'
<1>1. PICK a \in listing : /\ Blobs!Remove(Evictor, a)
                           /\ listing' = listing \ {a}
                           /\ evicted' = evicted \cup {a}
  BY DEF PassRemove
<1>2. a \in Address /\ TypeOK /\ a \in Occupied /\ listing \subseteq Address
  BY DEF CoverInv, IInv, TypeOK, Occupied
<1>3. /\ store' = [store EXCEPT ![a] = None] /\ ret' = [ret EXCEPT ![Evictor] = "none"]
      /\ evictions' = evictions
  BY <1>1 DEF Blobs!Remove, PassRemove
<1>4. Occupied' = Occupied \ {a}
  BY <1>2, <1>3 DEF Occupied, TypeOK
<1>5. Uploaded' = Uploaded
  BY <1>2, <1>3, RequestAssumption DEF Uploaded, Stored, TypeOK, Caller
<1>6. /\ IsFiniteSet(Occupied) /\ Cardinality(Occupied) \in Nat
      /\ IsFiniteSet(evicted) /\ Cardinality(evicted) \in Nat /\ evictions \in Nat
      /\ Cardinality(found) \in Nat /\ Cardinality(Uploaded) \in Nat
  BY <1>2, CoverFinite DEF TypeOK
<1>7. Cardinality(Occupied') = Cardinality(Occupied) - 1
  BY <1>2, <1>4, <1>6, FS_RemoveElement
<1>8. Cardinality(evicted') <= Cardinality(evicted) + 1 /\ Cardinality(evicted') \in Nat
  <2>1. CASE a \in evicted
    <3>1. evicted' = evicted
      BY <1>1, <2>1
    <3> QED
      BY <1>6, <3>1
  <2>2. CASE a \notin evicted
    <3>1. Cardinality(evicted') = Cardinality(evicted) + 1
      BY <1>1, <1>6, <2>2, FS_AddElement
    <3> QED
      BY <1>6, <3>1
  <2> QED
    BY <2>1, <2>2
<1>9. \A b \in listing' : store'[b] # None
  BY <1>1, <1>2, <1>3 DEF CoverInv, TypeOK
<1>10. evictions' + Cardinality(evicted') + Cardinality(Occupied')
        <= Cardinality(Uploaded') + Cardinality(found')
  BY <1>3, <1>5, <1>6, <1>7, <1>8 DEF CoverInv
<1> QED
  BY <1>9, <1>10 DEF CoverInv

LEMMA CoverNext == CoverInv /\ [Next]_vars => CoverInv'
<1> SUFFICES ASSUME CoverInv, [Next]_vars PROVE CoverInv'
  OBVIOUS
<1>1. IInv' /\ TypeOK
  BY NextPreserves DEF CoverInv, IInv
<1>2. /\ listing \in SUBSET Occupied /\ evictions \in Nat
      /\ Cardinality(evicted) \in Nat
  BY <1>1, CoverFinite DEF CoverInv, Occupied, TypeOK
<1>f. found' = found
  BY DEF vars, Next, Watch
<1>3. ASSUME UNCHANGED <<store, evictor>>, \A q \in Request : Stored(q) => Stored(q)'
      PROVE  CoverInv'
  BY <1>1, <1>2, <1>3, <1>f, CoverStep DEF evictor
<1>4. CASE UNCHANGED vars
  BY <1>3, <1>4 DEF vars, blobs, Stored
<1>5. ASSUME NEW r \in Request,
             Arrive(r) \/ Starts(r) \/ Uploads(r) \/ Answers(r) \/ Drop(r)
      PROVE  CoverInv'
  <2>1. RequestOK(r) /\ ret \in [Caller -> {"none", "created", "replaced", "missing", "err"}]
    BY <1>1 DEF CoverInv, IInv, TypeOK
  <2>2. CASE Arrive(r) \/ Answers(r) \/ Drop(r)
    <3>1. UNCHANGED <<blobs, evictor>>
      BY <2>2 DEF Arrive, Answers, PutCount, PutAnswer, PutRejected, PutFailed, PutError,
                  GetTime, GetAnswer, GetError, Drop, Answer, Tell
    <3> QED
      BY <1>3, <3>1 DEF blobs, Stored
  <2>3. CASE Starts(r)
    <3>1. ~Stored(r)
      BY <2>1, <2>3 DEF RequestOK, EndOK, Starts, PutBegin, GetOpen, GetFails, Queued
    <3>2. UNCHANGED <<store, evictor>> /\ \E y : ret' = [ret EXCEPT ![r] = y]
      BY <2>3 DEF Starts, PutBegin, GetOpen, GetFails, Blobs!BeginPut, Blobs!Get,
                  Blobs!Miss, Blobs!Refuse
    <3>3. \A q \in Request \ {r} : ret'[q] = ret[q]
      BY <2>1, <3>2
    <3> QED
      BY <1>3, <3>1, <3>2, <3>3 DEF Stored
  <2>4. CASE Uploads(r)
    <3>1. CASE PutStore(r)
      BY <1>1, <2>4, <3>1, <1>f, CoverStore DEF Uploads
    <3>2. CASE PutRead(r) \/ PutFails(r)
      <4>1. ~Stored(r)
        BY <2>1, <3>2 DEF RequestOK, EndOK, PutRead, PutFails, Queued, Reading
      <4>2. /\ UNCHANGED <<store, evictor>>
            /\ ret' = ret \/ ret' = [ret EXCEPT ![r] = "err"]
        BY <3>2 DEF PutRead, PutFails, Blobs!FailPut, Blobs!Refuse, blobs
      <4>3. \A q \in Request \ {r} : ret'[q] = ret[q]
        BY <2>1, <4>2 DEF Caller
      <4> QED
        BY <1>3, <4>1, <4>2, <4>3 DEF Stored
    <3> QED
      BY <2>4, <3>1, <3>2 DEF Uploads
  <2> QED
    BY <1>5, <2>2, <2>3, <2>4
<1>6. CASE PassRemove
  BY <1>1, <1>6, <1>f, CoverRemove
<1>7. Cardinality({}) = 0
  BY FS_EmptySet
<1>8. ASSUME UNCHANGED blobs, listing' \in SUBSET Occupied,
             evictions' + Cardinality(evicted') <= evictions + Cardinality(evicted)
      PROVE  CoverInv'
  BY <1>1, <1>8, <1>f, CoverStep DEF blobs, Stored
<1>9. CASE PassBegin
  BY <1>2, <1>8, <1>9 DEF PassBegin, Occupied
<1>10. CASE PassKeep \/ PassEnd
  BY <1>2, <1>8, <1>10 DEF PassKeep, PassEnd
<1>11. CASE PassReport \/ PassFails
  BY <1>2, <1>7, <1>8, <1>11 DEF PassReport, PassFails
<1> QED
  BY <1>4, <1>5, <1>6, <1>9, <1>10, <1>11 DEF Next, Pass

\* No eviction is counted that no stored upload and no entry found at the start
\* accounts for, although uploads replace entries under a pass (eviction_loop and
\* record_scan, on a --data-dir that may hold entries already).
THEOREM EvictionsStayCovered == Spec => []EvictionsCovered
<1>1. Init => CoverInv
  <2> SUFFICES ASSUME Init PROVE CoverInv
    OBVIOUS
  <2>1. IInv
    BY InitEstablishes
  <2>2. Occupied = found /\ evicted = {} /\ evictions = 0 /\ listing = {}
    BY DEF Init, Occupied
  <2>3. /\ Cardinality({}) = 0 /\ Cardinality(Uploaded) \in Nat
        /\ Cardinality(found) \in Nat
    BY <2>1, CoverFinite, FS_EmptySet DEF IInv
  <2> QED
    BY <2>1, <2>2, <2>3 DEF CoverInv
<1>2. CoverInv /\ [Next]_vars => CoverInv'
  BY CoverNext
<1>3. CoverInv => EvictionsCovered
  BY DEF CoverInv, EvictionsCovered
<1> QED
  BY <1>1, <1>2, <1>3, PTL DEF Spec
=============================================================================
