------------------------------- MODULE Server -------------------------------
(***************************************************************************)
(* The blob routes and the eviction loop of halide-cache-server            *)
(* (blobs.rs, eviction.rs).  A request has two parts that run side by      *)
(* side: a handler, which waits, counts and answers, and a task on a       *)
(* thread of the blocking pool, which works on the store.  The handler of  *)
(* a connection that closes is dropped where it waits; its task goes on.   *)
(*                                                                         *)
(* The store is BlobStore, each of whose steps is one of Lager's; a blob   *)
(* is named by the request that uploads it, or is one of an earlier run of *)
(* the server on the same --data-dir.  How the counters are kept is in     *)
(* Metrics.tla, which entries a pass picks in LRU.tla.                     *)
(***************************************************************************)
EXTENDS Integers, FiniteSets

CONSTANTS
  Address,
  Request,    \* the requests; each arrives once
  Puts,       \* those that are uploads; the others are lookups
  Evictor,    \* the caller of the store that eviction_loop is
  Earlier,    \* a blob that an earlier run of the server has stored
  Limit,      \* --max-blob-size
  Pool,       \* the threads of the blocking pool
  MaxLen,     \* bound: the length of a body
  MaxPasses,  \* bound: eviction passes
  MaxFaults,  \* bound: requests that fail or whose client goes away
  None        \* no address, no blob

Caller == Request \cup {Evictor}
Blob == Request \cup {Earlier}

ASSUME RequestAssumption ==
  /\ IsFiniteSet(Request) /\ IsFiniteSet(Address) /\ Puts \subseteq Request
  /\ Evictor \notin Request /\ Earlier \notin Request
  /\ None \notin Blob \cup Address \cup (Address \X Blob)
ASSUME BoundsAssumption == {Limit, Pool, MaxLen, MaxPasses, MaxFaults} \subseteq Nat

VARIABLES
  store, saved, want, held, ret,  \* BlobStore's
  req,        \* the requests
  seen,       \* what the address of each has held while it was in flight
  found,      \* the addresses that were occupied when the server started
  pass,       \* where eviction_loop is
  listing,    \*   the addresses it may still remove
  evicted,    \*   those it has removed
  evictions,  \* the counter of record_scan
  passes

blobs == <<store, saved, want, held, ret>>
evictor == <<pass, listing, evicted, evictions, passes>>
vars == <<blobs, req, seen, found, evictor>>

Blobs == INSTANCE BlobStore WITH
  Thread <- Caller,
  Process <- {"server"}, ProcessOf <- [t \in Caller |-> "server"]

Events == {"none", "hit", "miss", "upload", "duplicate", "rejected", "failed"}

\* One request: its handler and its task, the bytes of its body that
\* CountingReader has counted, whether the address existed when the task began,
\* why the task failed, and what the metrics and the client have been told.
RequestState ==
  [addr : Address \cup {None},
   handler : {"none", "waiting", "between", "answered", "dropped"},
   task : {"none", "queued", "reading", "done"},
   count : 0 .. MaxLen, existed : BOOLEAN,
   error : {"none", "large", "fbig", "broken", "panic"},
   event : Events, timed : BOOLEAN, status : {0, 200, 201, 400, 404, 413, 500}]

TypeOK ==
  /\ store \in [Address -> Blob \cup {None}]
  /\ saved \in [Address -> {Earlier, None}]
  /\ want \in [Caller -> (Address \X Blob) \cup {None}]
  /\ held \in [Caller -> Blob \cup {None}]
  /\ ret \in [Caller -> {"none", "created", "replaced", "missing", "err"}]
  /\ req \in [Request -> RequestState]
  /\ seen \in [Request -> SUBSET (Blob \cup {None})]
  /\ found \in SUBSET Address
  /\ pass \in {"idle", "evicting", "report"}
  /\ listing \in SUBSET Address
  /\ evicted \in SUBSET Address
  /\ evictions \in Nat
  /\ passes \in 0 .. MaxPasses

NotYet ==
  [addr |-> None, handler |-> "none",
   task |-> "none", count |-> 0, existed |-> FALSE, error |-> "none",
   event |-> "none", timed |-> FALSE, status |-> 0]

\* Lager::new opens whatever --data-dir holds; a server that has just started
\* has no call of the store in flight.
Init ==
  /\ store \in [Address -> {Earlier, None}]
  /\ saved = store
  /\ want = [t \in Caller |-> None]
  /\ held = [t \in Caller |-> None]
  /\ ret = [t \in Caller |-> "none"]
  /\ found = {a \in Address : store[a] # None}
  /\ req = [r \in Request |-> NotYet]
  /\ seen = [r \in Request |-> {}]
  /\ pass = "idle" /\ listing = {} /\ evicted = {}
  /\ evictions = 0 /\ passes = 0

-----------------------------------------------------------------------------
(* Mutants: definitions below with one plausible mistake in them.  The      *)
(* specification does not use them.                                         *)

\* The limit itself is too large.
TooLargeAtLimit(count) == count >= Limit

\* Whether the entry existed is asked after the rename.
PutStoreAsksLate(r) ==
  /\ req[r].task = "reading"
  /\ Blobs!Put(r)
  /\ ret'[r] = IF store'[req[r].addr] # None THEN "replaced" ELSE "created"
  /\ req' = [req EXCEPT ![r].task = "done", ![r].existed = FALSE]
  /\ UNCHANGED evictor

\* An upload that is too large is given up, but not what the store has of it.
PutReadLeavesPut(r) ==
  /\ req[r].task = "reading"
  /\ \E n \in 1 .. MaxLen - req[r].count :
       LET count == req[r].count + n IN
       req' = IF count > Limit
              THEN [req EXCEPT ![r].count = count, ![r].task = "done",
                               ![r].error = "large", ![r].existed = FALSE]
              ELSE [req EXCEPT ![r].count = count]
  /\ UNCHANGED <<blobs, evictor>>

\* An upload that breaks is tried again, although its body is gone.
PutFailsRetries(r) ==
  /\ req[r].task = "reading"
  /\ Blobs!FailPut(r)
  /\ req' = [req EXCEPT ![r].task = "queued", ![r].count = 0,
                        ![r].existed = FALSE]
  /\ UNCHANGED evictor

\* The latency of a lookup that failed is recorded too.
GetErrorTimed(r) ==
  /\ req[r].task = "done" /\ req[r].handler = "waiting" /\ req[r].error # "none"
  /\ req' = [req EXCEPT ![r].timed = TRUE, ![r].status = 500,
                        ![r].handler = "answered"]
  /\ UNCHANGED <<blobs, evictor>>

\* An entry in use is not removed, but reported as evicted.
PassKeepReported ==
  /\ pass = "evicting"
  /\ \E a \in listing : /\ listing' = listing \ {a}
                        /\ evicted' = evicted \cup {a}
  /\ UNCHANGED <<blobs, req, pass, evictions, passes>>

-----------------------------------------------------------------------------
\* The threads of the pool in use: one for each upload that is being read, one
\* for a pass.  (A lookup takes one for an instant.)
Busy ==
  Cardinality({r \in Puts : req[r].task = "reading"})
    + IF pass = "evicting" THEN 1 ELSE 0

Queued(r) == req[r].task = "queued" /\ Busy < Pool

Reading(r) == req[r].task = "reading"

Awake(r) == req[r].task = "done" /\ req[r].handler = "waiting"

\* The bound on what goes wrong: whether r may be (again) one of those harmed.
MayHarm(r) ==
  Cardinality({q \in Request \ {r} : \/ req[q].handler = "dropped"
                                     \/ req[q].error \in {"fbig", "broken", "panic"}})
    < MaxFaults

-----------------------------------------------------------------------------
(* The tasks *)

\* A request arrives, for an address and from a client that could be parsed;
\* the first thing its handler does is to spawn the task.
Arrive(r) ==
  /\ req[r].handler = "none"
  /\ \E a \in Address :
       req' = [req EXCEPT ![r] = [NotYet EXCEPT
                 !.addr = a, !.handler = "waiting", !.task = "queued"]]
  /\ UNCHANGED <<blobs, evictor>>

\* open_blob: retrieve, and the length of what it has opened.
GetOpen(r) ==
  /\ Queued(r)
  /\ Blobs!Get(r, req[r].addr) \/ Blobs!Miss(r, req[r].addr)
  /\ req' = [req EXCEPT ![r].task = "done"]
  /\ UNCHANGED evictor

\* Another error than an absent entry, or a panic.
GetFails(r) ==
  /\ Queued(r) /\ MayHarm(r)
  /\ Blobs!Refuse(r)
  /\ req' = [req EXCEPT ![r].task = "done", ![r].error = "broken"]
  /\ UNCHANGED evictor

\* store_at, up to the call of the closure.
PutBegin(r) ==
  /\ Queued(r)
  /\ Blobs!BeginPut(r, req[r].addr, r)
  /\ req' = [req EXCEPT ![r].task = "reading",
                        ![r].existed = store[req[r].addr] # None]
  /\ UNCHANGED evictor

TooLarge(count) == count > Limit

\* CountingReader::read: n more bytes; too many are an error, and one of store_at.
PutRead(r) ==
  /\ Reading(r)
  /\ \E n \in 1 .. MaxLen - req[r].count :
       LET count == req[r].count + n IN
       IF TooLarge(count)
       THEN /\ Blobs!FailPut(r)
            /\ req' = [req EXCEPT ![r].count = count, ![r].task = "done",
                                  ![r].error = "large", ![r].existed = FALSE]
       ELSE /\ UNCHANGED blobs
            /\ req' = [req EXCEPT ![r].count = count]
  /\ UNCHANGED evictor

\* The body has ended: the rest of store_at.
PutStore(r) ==
  /\ Reading(r)
  /\ Blobs!Put(r)
  /\ ret'[r] = IF req[r].existed THEN "replaced" ELSE "created"
  /\ req' = [req EXCEPT ![r].task = "done", ![r].existed = FALSE]
  /\ UNCHANGED evictor

\* The body breaks off, a call of store_at fails, or the task panics; "fbig" is a
\* write that the file system refuses for the size of the file (EFBIG).
PutFails(r) ==
  /\ Queued(r) \/ Reading(r)
  /\ MayHarm(r)
  /\ IF Reading(r) THEN Blobs!FailPut(r) ELSE Blobs!Refuse(r)
  /\ \E e \in {"broken", "panic"} \cup (IF Reading(r) THEN {"fbig"} ELSE {}) :
       req' = [req EXCEPT ![r].count = 0, ![r].task = "done",
                          ![r].error = e, ![r].existed = FALSE]
  /\ UNCHANGED evictor

-----------------------------------------------------------------------------
(* The handlers *)

\* The metrics have been told event and latency, the client status.
Tell(r, handler, event, timed, status) ==
  /\ req' = [req EXCEPT ![r].event = event, ![r].timed = timed,
                        ![r].status = status, ![r].handler = handler]
  /\ UNCHANGED <<blobs, evictor>>

Answer(r, event, timed, status) == Tell(r, "answered", event, timed, status)

\* get: the latency of a lookup that gave an answer ...
GetTime(r) ==
  /\ Awake(r) /\ req[r].error = "none"
  /\ Tell(r, "between", "none", TRUE, 0)

\* ... and then the event and the answer, whose body is read from the file.
GetAnswer(r) ==
  /\ req[r].handler = "between"
  /\ IF held[r] # None THEN Answer(r, "hit", TRUE, 200)
                       ELSE Answer(r, "miss", TRUE, 404)

GetError(r) ==
  /\ Awake(r) /\ req[r].error # "none"
  /\ Answer(r, "none", FALSE, 500)

\* put: the event, and then the latency and the answer.
PutCount(r) ==
  /\ Awake(r) /\ req[r].error = "none"
  /\ Tell(r, "between",
          IF ret[r] = "created" THEN "upload" ELSE "duplicate", FALSE, 0)

PutAnswer(r) ==
  /\ req[r].handler = "between"
  /\ Answer(r, req[r].event, TRUE, IF ret[r] = "created" THEN 201 ELSE 200)

\* Both are of kind FileTooLarge.
PutRejected(r) ==
  /\ Awake(r) /\ req[r].error \in {"large", "fbig"}
  /\ Answer(r, "rejected", FALSE, 413)

PutFailed(r) ==
  /\ Awake(r) /\ req[r].error = "broken"
  /\ Answer(r, "failed", FALSE, 400)

PutError(r) ==
  /\ Awake(r) /\ req[r].error = "panic"
  /\ Answer(r, "none", FALSE, 500)

\* The connection closes: the handler ends where it waits.
Drop(r) ==
  /\ req[r].handler = "waiting" /\ MayHarm(r)
  /\ Tell(r, "dropped", "none", FALSE, 0)

-----------------------------------------------------------------------------
(* eviction_loop *)

\* evict: the task scans, and picks what it is going to remove, if anything.
PassBegin ==
  /\ pass = "idle" /\ Busy < Pool /\ passes < MaxPasses
  /\ passes' = passes + 1
  /\ pass' = "evicting"
  /\ listing' \in SUBSET {a \in Address : store[a] # None}
  /\ UNCHANGED <<blobs, req, evicted, evictions>>

PassRemove ==
  /\ pass = "evicting"
  /\ \E a \in listing :
       /\ Blobs!Remove(Evictor, a)
       /\ listing' = listing \ {a}
       /\ evicted' = evicted \cup {a}
  /\ UNCHANGED <<req, pass, evictions, passes>>

\* An entry that has been used since the scan is kept.
PassKeep ==
  /\ pass = "evicting"
  /\ \E a \in listing : listing' = listing \ {a}
  /\ UNCHANGED <<blobs, req, pass, evicted, evictions, passes>>

PassEnd ==
  /\ pass = "evicting" /\ listing = {}
  /\ pass' = "report"
  /\ UNCHANGED <<blobs, req, listing, evicted, evictions, passes>>

\* record_scan, once the loop is awake again.
PassReport ==
  /\ pass = "report"
  /\ pass' = "idle"
  /\ evictions' = evictions + Cardinality(evicted)
  /\ evicted' = {}
  /\ UNCHANGED <<blobs, req, listing, passes>>

\* An error of the scan, or of the removal of an entry: it is logged, and what
\* was removed before it is not counted.
PassFails ==
  /\ pass = "evicting"
  /\ listing # {} \/ evicted = {}
  /\ pass' = "idle" /\ listing' = {} /\ evicted' = {}
  /\ UNCHANGED <<blobs, req, evictions, passes>>

-----------------------------------------------------------------------------
Starts(r) == IF r \in Puts THEN PutBegin(r) ELSE GetOpen(r) \/ GetFails(r)

Uploads(r) == r \in Puts /\ (PutRead(r) \/ PutStore(r) \/ PutFails(r))

Answers(r) ==
  IF r \in Puts
  THEN \/ PutCount(r) \/ PutAnswer(r)
       \/ PutRejected(r) \/ PutFailed(r) \/ PutError(r)
  ELSE GetTime(r) \/ GetAnswer(r) \/ GetError(r)

Pass == PassRemove \/ PassKeep \/ PassEnd \/ PassReport \/ PassFails

\* What is seen of an address from the arrival of a request to its answer.
Watch ==
  /\ seen' = [r \in Request |->
                IF req'[r].handler \in {"waiting", "between"}
                THEN seen[r] \cup {store'[req'[r].addr]} ELSE {}]
  /\ UNCHANGED found

Next ==
  /\ \/ \E r \in Request :
          Arrive(r) \/ Starts(r) \/ Uploads(r) \/ Answers(r) \/ Drop(r)
     \/ PassBegin
     \/ Pass
  /\ Watch

Spec == Init /\ [][Next]_vars

\* Handlers that are awake go on; a thread that is free takes a task that is
\* queued; a pass ends (PassEnds of LRU.tla).  Nothing is assumed of Uploads: the
\* server sets no limit on the time a body may take.
FairSpec ==
  /\ Spec
  /\ SF_vars((\E r \in Request : Starts(r)) /\ Watch)
  /\ WF_vars((\E r \in Request : Answers(r)) /\ Watch)
  /\ WF_vars(Pass /\ Watch)

-----------------------------------------------------------------------------
(* Properties *)

Stored(r) == ret[r] \in {"created", "replaced"}

\* --max-blob-size is exact, although it is enforced chunk by chunk while the
\* body streams (blobs.rs:151-163): an upload is answered 413 only if it is
\* larger (or the file system itself takes no file of its size), 400 only if
\* something broke, and what is stored or acknowledged is the whole of a body
\* that is not larger.
LimitExact ==
  \A r \in Request :
    /\ req[r].status = 413 => req[r].count > Limit \/ req[r].error = "fbig"
    /\ req[r].status = 400 => req[r].error = "broken"
    /\ (\E a \in Address : store[a] = r) \/ Stored(r) =>
         req[r].count <= Limit /\ req[r].error = "none"

\* Every answer was true of the address at some moment between the arrival of
\* the request and the answer, whatever other uploads and passes did meanwhile:
\* 404 of an absent entry, a body that was the entry, 201 of an absent and 200
\* of a present one; and an acknowledged upload had been the entry by then.
AnswersCurrent ==
  [][\A r \in Request :
       req[r].handler = "between" /\ req'[r].handler = "answered" =>
         /\ req'[r].status = 404 => None \in seen[r]
         /\ req'[r].status = 201 => {None, r} \subseteq seen[r]
         /\ req'[r].status = 200 =>
              IF r \in Puts THEN r \in seen[r] /\ seen[r] \ {None, r} # {}
                           ELSE held[r] \in seen[r]]_vars

\* What the metrics tell of the requests is what became of them: each answer is
\* counted as what it was; an error of the server is not; and an upload that was
\* stored but not counted is one whose client has gone, or is about to be.
CountersFollow ==
  \A r \in Request :
    /\ req[r].event \in {"upload", "duplicate"} => Stored(r)
    /\ Stored(r) /\ req[r].event = "none" => req[r].handler \in {"waiting", "dropped"}
    /\ req[r].timed # (req[r].event \in {"hit", "miss", "upload", "duplicate"}) =>
         req[r].handler = "between"
    /\ req[r].event \in {"rejected", "failed"} =>
         ~Stored(r) /\ \A a \in Address : store[a] # r

Occupied == {a \in Address : store[a] # None}
Uploaded == {r \in Request : Stored(r)}

\* No eviction is counted, or about to be, that no stored upload and no entry of
\* an earlier run accounts for, although entries are replaced and kept behind the
\* back of a pass and a pass that fails half-way counts nothing.
EvictionsCovered ==
  evictions + Cardinality(evicted) + Cardinality(Occupied)
    <= Cardinality(Uploaded) + Cardinality(found)

\* As long as the uploads whose bodies stall do not hold every thread of the pool
\* for ever, every request is answered or its client leaves, but for one whose own
\* body stalls: uploads and passes that compete for the threads keep nobody waiting,
\* and an upload that has failed is over.  (Requests are finitely many, and each
\* arrives once.)
RequestsAnswered ==
  []<>(Cardinality({r \in Puts : Reading(r)}) < Pool) =>
    <>[](\A r \in Request : req[r].handler \in {"waiting", "between"} => Reading(r))
=============================================================================
