# Halide cache: a verification project

`halide-cache` wraps the build of a Halide kernel. It hashes everything the
build depends on, and restores the two outputs (object and header) from a
cache when the key is known, locally or on a `halide-cache-server`. This
directory holds TLA+ models of the program, the TLC configurations that check
them on small instances, and proofs that TLAPS checks for all instances.
Paths are relative to `src/`; `lager.rs` and `lru.rs` are those of
`lager/src/`, `main.rs` and the rest of the client those of
`halide-cache/src/`.

`blobs.rs`, `metrics.rs` and the like are those of `halide-cache-server/src/`.

Run a configuration with `tlc -config <MCx_y>.cfg <MCx>`, and the proofs of a
module with `tlapm <X>Proofs.tla`.

## The system

### Components, their state and their operations

| Component | State | Operations | Correct when |
|---|---|---|---|
| Store (`lager.rs`) | a directory: one file per entry, in a directory per shard, and temporary files; `TEMP_SEQ` per process | `store_at` (write a temporary file, sync, rename), `retrieve` (open, touch), `remove` | every entry, at any moment and after any crash, is one whole blob; a reader keeps what it opened; failed stores leave nothing |
| Eviction (`lru.rs`) | modification times (recency); per pass: heap, size | `scan`, `evict_until`, `remove_if_unused_since` | the least recently used goes first, not more than needed; what is in use stays; passes end; usage gets below the limit; temporary files of the dead go, those of the living stay |
| Client (`main.rs`, `archive.rs`, `remote.rs`) | the outputs in the checkout; the machine's store; the named lock | key, `lookup` (local, then remote), build, `archive::store`, `upload_from`, `clean_up` | outputs are those of the inputs hashed; a bad server never fails a build; every run ends |
| Cache key (`KeyInputs`, `hash_package`, `PathStripper` in `main.rs`) | none | `address` | different inputs have different keys, different checkouts of equal inputs the same key |
| Server blobs (`blobs.rs`) | the server's store; per request: handler, blocking task, bytes read | `GET`, `PUT` with a size limit and created/replaced | every answer is true; limits hold; the events are counted right; every request is answered |
| Server eviction (`eviction.rs`) | none of its own | a pass every interval, in the blocking pool | see eviction; the counters it reports are right |
| Metrics (`metrics.rs`) | totals, minute buckets, clients, latencies, ages, under one mutex | `record`, `record_scan`, `record_host`, `record_latency`, `history`, `latencies` | the tables stay bounded and tell one story, whatever order the calls come in; what is computed from them is right |
| Statistics, Prometheus (`stats.rs`) | none | formatting; the running sums of the histogram | the histogram's count is that of the evictions |
| Extract, dashboard, host samples | none | parsing, showing, reading `/proc` | - |

### Interaction

Processes meet in three places. Several clients of one machine, each with its
own threads of control, share one store directory **without any lock**: the
file system's atomic `rename` and `create_new` and the naming of temporary
files are all there is. Their clean-ups are serialised by the named lock
`lager_lock`, which the operations of the store do not take. The server uses
the same store with many threads of one process, and runs its passes beside
them. Client and server exchange whole blobs over HTTP.

The hard behaviours are therefore interleavings of file-system calls of
different processes; kills between two of these calls, and power failures; the
gap between what a pass or a client has read (a time, a listing, the inputs)
and what it does with it; an entry that is replaced, discarded or evicted
while another client uses it; a network that fails at any point; a handler
that is dropped while its blocking task goes on; times read before a mutex is
taken; waiting for a lock or for a thread of the pool; and
file contents that are hashed without being escaped. `PROJECT.json` lists each
of these hazards at the line where it bites, with the property that would catch
it.

## The modules

| Module | Models |
|---|---|
| `BlobStore` | what the store promises: a map of whole blobs on which put, get and remove take effect at one instant, with failing calls, kills and power failures |
| `Lager` | `lager.rs`, one action per file-system call |
| `LagerProofs` | the inductive invariant of `Lager`, and the proof that it implements `BlobStore` |
| `LRU` | `lru.rs`, `remove_if_unused_since`, and the two callers' passes, one action per file-system call, beside users of the store |
| `LRUProofs` | the order of evictions and the safety of temporary files, for any instance |
| `LRUCountersProofs` | that a pass counts right and evicts no more than it has to |
| `HalideCache` | one run of the client after the other, on several machines, with a server |
| `HalideCacheProofs` | that entries and outputs are those of their key, that corrupt entries are discarded, and when bad entries fail no run |
| `Server` | the handlers and blocking tasks of `blobs.rs` and the eviction loop, over `BlobStore` |
| `ServerProofs` | the invariant of `Server`: limits, counters, answers, evictions |
| `Metrics` | the tables of `metrics.rs` and what `stats.rs` computes from them |
| `MetricsProofs` | the bounds and the agreement of the tables, the running sums and the order statistics |
| `KeyInputs` | the cache key: framing of the fields, stripping of the checkout |
| `KeyInputsProofs` | that a key can be read back as far as it can, and does not depend on the checkout |
| `Minima` | least numbers and minimal sets, for the proofs about recursion |
| `MCLager`, `MCLRU`, `MCHalideCache`, `MCServer`, `MCMetrics`, `MCKeyInputs` | instances for TLC |

A model that is used by another one is used through what it promises:
`Lager` implements `BlobStore`; `Server` is composed with an instance of
`BlobStore`, whose actions are its calls of the store; and `HalideCache` takes a
store, local or on the server, for a map of whole entries on which an operation
takes effect at one instant. `Server` counts what becomes of requests; how the
counters are kept is in `Metrics`, and which entries a pass picks in `LRU`. `LRU` knows of entries only their size and time. Each module has
a section "Mutants": actions with one plausible mistake in them. The
specifications do not use them; substituted for the action they vary, they
show that a property is not empty, since TLC then finds it violated.

### Lager

The file system is a set of names (`dest` for entries, `temp` for temporary
files) linked to inodes (`file`), with handles (`fd`) that outlive names.
`jdest` and `jtemp` are the names as of the last commit of the journal;
`PowerLoss` falls back to them and may cut every inode never synced.
`store_at` is `StoreBegin` (existence test, draw of the sequence number),
`StoreCreate` (`create_new`), any number of `StoreWrite`, `StoreSync`,
`StoreRename`; each can fail (`StoreFails`), which leads to `StoreCleanup`.
`retrieve` is `RetrieveOpen` and, when the caller is done, `RetrieveClose`.
`remove` is `Remove`, also when an eviction calls it. `RemoveStaleTemp` is the
call of `LRU::scan` on temporary files; here it may happen to any of them at
any time, which is more than the code does, so that no result depends on how
long an hour is. `Kill` ends a process in the middle of anything and starts
another one *with the same pid*, whose counter is back at 0: the case in which
a new store finds a leftover under its temporary name.

Two simplifications. The touch in `retrieve` changes a time, which `Lager`
does not have, and its failure is a choice of `RetrieveClose`. Creation of
shard directories is part of `StoreBegin`; the code never removes one.

### LRU

A pass reads the names of one shard directory at a time (`ScanDir`), then
stats each listed file (`ScanEntry`, `ScanTemp`, `ScanOld`), which may be gone
by then (`ScanFails`: the whole pass is given up). For a temporary file, the
file's time (`ScanTemp`), the clock (`ScanAge`) and the unlink
(`ScanRemoveTemp`) are three steps. `EvictPop` takes one of the oldest items
of the heap; the stat of `remove_if_unused_since` finds the entry gone
(`EvictGone`), used since (`EvictInUse`) or unused (`EvictUnused`), and only
then comes `EvictUnlink`, which removes whatever has that name by now. Users
open and touch, store in four steps, and remove meanwhile. A heap is a set, and
`Oldest` all that `BinaryHeap` may pop given `Item::cmp`.

Times are instants of one clock, `STALE_TEMP_AGE` is `StaleAge` instants.
`MaxStall` and `MaxLag` bound how long a store pauses between two writes and a
scan between reading a time and reading the clock; `PromptStoresSucceed` says
what has to hold of these for a live store to be safe. A store draws a name that
no file has and that nobody knows any more (`Known`): names are few in an instance,
and such a one stands for the next of them.

Passes hold the lock from `ScanBegin` to their end. The server's pass takes no
lock, and there is one at a time; both are covered by passes that exclude each
other. The client's pass has `Target = MaxSize`, the server's a target of
half; the instances use the server's, in which more is evicted.

### HalideCache

One client is one checkout that is built again and again; a run is the path
through `main`: `Hash`, then `lookup` (`LocalOpen` or `LocalMiss`, `Fetch...`,
`FetchedOpen`, the restore of one output after the other), then the build,
`Store`, upload and clean-up. The distinction the code makes between the two
calls of `restore_outputs` (main.rs:261 and 275) is kept: an error of the first
is main's, an error of the second a warning and a `Discard`. An entry says at
which of three places `unpack` stops on it, so that a restore can fail before,
between and after the outputs. A version of the sources is a value, the key is
the version that was hashed, and the outputs are those of the version the
builder read. `builder` records that a builder failed: main returns Ok then
too. The rest of the world edits sources, evicts entries, damages one on the
server, and kills clients. The builder of a client in `Detached` outlives its
client (`OrphanWrites`, `OrphanEnds`), that of another one dies with it, as
after a signal to the process group. A restore that stops, by an error or a kill,
leaves the output it was at as it was or cut short (`Stops`). The state of a run (`key`, `held`,
`builder`) ends with it, so `OutputsMatchKey` is about the step that ends a
run.

A damaged blob is always one `unpack` notices: zstd frames of
this encoder carry no checksum, so a damaged byte that decodes would go
unnoticed, and nothing in the code is there to notice it.

### Server

A request has two halves that run side by side. Its *handler* is `waiting` for
its task, `between` the two calls that record its event and its latency,
`answered`, or `dropped` when the connection closes, which happens only where
the handler waits. Its *task*, on a thread of the blocking pool, is `queued`,
`reading` the body (uploads) or `done`; it is not cancelled with its handler.
`store_at` is `PutBegin` (the existence test), any number of `PutRead` (the
chunks `CountingReader` counts), and `PutStore` or `PutFails`. Each step on the
store is a step of `BlobStore`, by the request as the calling thread. An upload
is named by its request, so the content of an entry tells who wrote it; an entry
that an earlier run of the server has left in `--data-dir` is `Earlier`, and a
server may start with any number of them (`found`). An upload that fails may do
so with an error of the kind the limit has, if the file system takes no file of
that size; it is then answered 413 like one above the limit.
The eviction loop is `PassBegin`, any number of `PassRemove` and `PassKeep` in
any order, which covers every choice of `LRU`, and `PassEnd` with `PassReport`,
or `PassFails`. A pass takes a thread of the pool like every other task.
`seen` is an observer: what the address of a request has held since it
arrived. `AnswersCurrent` compares answers with it.

A handler holds no state between requests, so each request arrives once.

### Metrics

An action is what one call does under the mutex. What is read before it is
the time (`now()` in `record`, `SystemTime::now()` in `record_scan`), so a call
may work with a time up to `MaxLag` seconds old. Every `Counters` (the totals,
one per bucket, one per client) is the set of the events added to it: two of
them agree on every field if the sets agree, and a field that is added to the
wrong line shows. Which fields of a line an event of a kind adds to, and how
much, is not modelled. `Room` picks any of the clients seen longest ago, as
`min_by_key` over a `HashMap` may. Gauges, that is, sizes, load and host names,
are stored and shown, and left out.

### KeyInputs

Strings and contents are sequences of symbols; the hash is the identity on
sequences, since blake3 is taken to be injective. Runs are given inputs, each in
a checkout of its own or in `/`; `In` renders an argument that has the checkout
in it, `Strip` takes it out as `str::replace` does, left to right, without a
second look. `Frame` is `field`, called on each field, and `Group` puts the empty
field `GROUP_END` behind a group. Contents of files may have the byte 0 (`Nul`)
in them, as executables and libraries always do; arguments, variables and the
names of files cannot, because the system passes none.

`KeysPortable` says that the same meaning in different checkouts has the same
key, `KeysDistinct` that different meanings have different keys. The latter
cannot hold as it stands, since a content with a 0 in it looks like several
fields. It holds with two exceptions, which the code's framing really has:

* `Clash`: a content of one run (its builder, its library of a name, its
  dependency at a place) is the other's for it, cut short in front of a 0;
* `Confusable`: the command of one run stands between 0s in a dependency of the
  other, or is one of its variables. A dependency without a 0 is one piece: then
  it is the command word for word.

Nothing else collides, wherever the 0s are. An empty field ends a group, and an
empty dependency is an empty field too. What nevertheless tells the groups apart
is order: the libraries come in pairs of which the first is a name, there are two
outputs, variables are never empty, and the command, the first field of the last
group, is not empty either and does not occur before it.

## Runs

| Run | Checks | Bounds, and why they are enough |
|---|---|---|
| `lager_race` | `ReadsIntact`, `WritersAlone`, `NoTempLeak`, `LagerBlobStore` | two threads of one process and one of another, one address, blobs of no and of one write, two stores per process, three inodes. Stores of different addresses share nothing but the counter; three threads give a writer, a writer in its way and a reader. |
| `lager_crash` | `IInv`, `EntriesIntact`, `LagerBlobStore` | two processes of one thread, any two faults; each may draw the same sequence number before and after its kill |
| `lru_pass` | `TypeOK`, `LeastRecentFirst`, `CountersAgree`, `NoOverEviction` | two entries of sizes 1 or 2, limit 2, target 1: one or both are evicted, in an order and a number that depend on times and sizes; two users; two evictors that share the lock; one kill or failed call; three instants, so that times can be equal, before and after one another; stores that pause for an instant |
| `lru_quiet` | `PromptStoresSucceed`, `PassEnds`, `EventuallyLimited`, `StaleTempsGo` | two entries, one user, one fault; four instants, stores and scans that pause for one each, and `STALE_TEMP_AGE` of two: a live store's file gets as old as that, while that of a killed one gets older and is removed |
| `lru_touch` | `TouchedSurvive`, violated | three entries, one user |
| `cache_machines` | `TypeOK`, `EntriesMatchKeys`, `OutputsMatchKey`, `FailOpen`, `CorruptDiscarded` | two machines of one client, two versions, one damaged blob |
| `cache_live` | `EntriesMatchKeys`, `OutputsMatchKey`, `RunsEnd` | two clients of one machine, one without `--remote`, whose builder outlives it; one version (how a run ends does not depend on another one), any two of a kill, a damaged blob and an I/O error (`MaxFaults`) |
| `cache_failopen` | `FailOpen`, violated | two clients of one machine, one damaged blob |
| `server_requests` | `IInv`, `LimitExact`, `CountersFollow`, `EvictionsCovered`, `AnswersCurrent`, `RequestsAnswered` | two uploads and a lookup of one address (addresses share only the pool), with an entry there at the start or none, bodies of up to one more than the limit in chunks of any size, two threads for up to four tasks, one pass, one fault. Two uploads give a first, a second in its way, and a duplicate; both threads can be taken by bodies, by a body and a pass, or by none. The proofs take any number of everything. |
| `metrics_ring` | `TypeOK`, `CountersAgree`, `NearlyOrdered`, `WindowComplete`, `ForgottenLongestAgo`, `HistogramAgrees`, `SummariesRight` | four events of three clients over a table of two, so that a client is dropped and comes back; three minutes of two seconds over a ring of two; a lag of a second, so that minutes alternate; two samples of two latencies; ages below, on and above the bounds and negative |
| `metrics_minutes` | `OneBucketPerMinute`, violated | the same with a ring of three |
| `keys_builds` | `KeysPortable`, `KeysDistinct` | two runs, as a property of pairs needs; three checkouts, one of them `/`; 320 inputs: with empty files and arguments, a dependency whose content is that of a variable, an argument with two paths, one that is all stripped away, one that names the checkout itself, and a dependency whose content is the command; with 0s in a builder that looks like builder and library, in a library that looks like two, in dependencies that look like several or have the command in them. Without groups' ends, any one disjunct of `Clash`, or the 0s of `Piece`, TLC finds a pair that collides |

Symmetry is used where the permuted values differ in nothing, and never with a
liveness property. (`LagerBlobStore` is a safety property; the abstract
specification is as symmetric as the detailed one.) The deadlock check is off
in the runs of `Server` and `KeyInputs`, where each request and each run happens
once and then there is nothing left to do.

### What the violated runs show

* `lru_touch`: between the stat and the unlink of `remove_if_unused_since` an
  entry can be touched, or replaced, and is removed all the same. A reader keeps
  its open file (`ReadsIntact`), so this costs a hit, not a build.
* `cache_failopen`: `fetch_into` stores what it receives before anything has
  looked at it. A second client of the machine that needs the key before the
  first has discarded it meets the corrupt entry in its *first*
  `restore_outputs`, and fails.
* `metrics_minutes`: `record` reads the time, then waits for the mutex. An event
  of the minute that has just ended finds the bucket of the next one at the
  back, and adds a second bucket of its own minute behind it; the next event
  adds another bucket of the new minute. The dashboard keys buckets by their
  time and shows one of them. `NearlyOrdered` and `WindowComplete` bound the
  harm: a query still returns every event of its window.

### Conditions without which the properties fail

These are conditions the code relies on without having them checked. The
theorems carry them as assumptions, and the models show what happens when they
are dropped.

* Distinct pids (`UniquePids`). A temporary name is unique only among processes
  with different ids. Give two processes of `MCLager` one pid (two containers or
  hosts on one cache directory), and one publishes the other's half-written file.
* Builders end with their clients. Nothing ends the builder of a client that is
  killed alone. It goes on to write the outputs in place while the next run
  of the checkout builds them once more, and packs whatever is in the files.
  `EntriesMatchKeys` therefore speaks of states in which no builder has
  outlived its client; `cache_live` has one that does.
* No dependency has the command in it. The command `python` with two empty
  dependencies and one that holds the word `python` has the key of the command
  `python "" "" python` with no dependency: contents are not escaped and groups
  not counted. The same goes for a dependency with the word between 0s.
  `KeysDistinct` excludes exactly this (`Confusable`); drop the condition,
  and TLC finds such a pair in `keys_builds`.
* No content is another one, cut short in front of a 0 (`Clash`). The builder that
  is another builder followed by a 0, the name of a library, a 0 and that
  library's content has the key of both together; so has a library that goes on
  as the key does. One dependency `x 0 x` has the key of two dependencies `x`.
  Without any one part of the condition TLC finds a pair in `keys_builds`.
* The path of a checkout stands in arguments only for the checkout
  (`SymbolAssumption`). `PathStripper` replaces text, so with the base directory
  `/work` the argument `/opt/work/x` becomes `/optx`, as would `/optx`
  itself.
* No edits under a running build (`EditsWhileBusy = FALSE`). Inputs are hashed
  before the builder reads them. An edit in between stores the outputs of
  the new inputs under the key of the old.

### Fairness

`Lager`, `Metrics` and `KeyInputs` need none: their properties are safety
properties. `LiveSpec` of `LRU`
has weak fairness of each evictor's steps (a pass is a loop of system calls
that nothing blocks but the lock; the server starts the next pass an interval
after the last, main.rs a pass per build) and of the clock; users
are under no obligation. `EventuallyLimited` is therefore about the time after
the users have paused: a scan gives up when a file it has listed is gone, and
nothing excludes that this happens to every scan while they go on.

`FairSpec` of `HalideCache` has weak fairness of a
client's next step (the builder ends, and remote.rs:26-31 bounds every request
with a timeout), and strong fairness of `CleanUp`: a client that waits for
the lock gets it in the end. No document of the operating system promises this
of `flock`; without it, a client may wait for ever while others come and go,
so `RunsEnd` has to be read with it: it says that nothing but the lock itself can
keep a client for ever. No fairness is assumed of evictions, edits or faults.

`FairSpec` of `Server` has weak fairness of a handler that is awake, a future the
runtime polls; strong fairness of the start of queued tasks (not of each one),
because a thread of tokio's blocking pool that gets free takes the next one; and
weak fairness of a pass, which `PassEnds` of `LRU` justifies. It has none of an upload that reads its body:
the server has no timeout, and a half-open connection can hold its thread for
ever. `RequestsAnswered` therefore says what the code can promise: as long as such
bodies do not hold every thread of the pool for ever, every request is answered
or dropped but for those whose own body stalls. No fairness makes requests arrive,
passes begin or clients stay. Since requests are finitely many and each arrives
once, to be answered is to be in the end neither waiting nor between.

## Proofs

Each `...Proofs` module states an inductive invariant, shows that it holds at
first and is kept by every action, one lemma or one step per action, and derives
the properties from it. They hold for every value of the constants that meets
the assumptions the modules name.

| Theorem | States |
|---|---|
| `LagerProofs!InvariantHolds` | `UniquePids => (Spec => []IInv)` |
| `LagerProofs!EntriesStayIntact` | `UniquePids => (Spec => []EntriesIntact)` |
| `LagerProofs!ReadsStayIntact` | `UniquePids => (Spec => []ReadsIntact)` |
| `LagerProofs!WritersStayAlone` | `UniquePids => (Spec => []WritersAlone)` |
| `LagerProofs!StoresLeakNoTemp` | `Spec => []NoTempLeak` |
| `LagerProofs!LagerImplementsBlobStore` | `UniquePids => (Spec => LagerBlobStore)` |
| `LRUProofs!LeastRecentStaysFirst` | `Spec => []LeastRecentFirst` |
| `LRUProofs!PromptStoresStaySafe` | `Spec => []PromptStoresSucceed` |
| `LRUCountersProofs!TypesStayCorrect` | `Spec => []TypeOK` |
| `LRUCountersProofs!CountersStayRight` | `Spec => []CountersAgree` |
| `LRUCountersProofs!NoPassEvictsTooMuch` | `Spec => []NoOverEviction` |
| `HalideCacheProofs!TypeCorrect` | `Spec => []TypeOK` |
| `HalideCacheProofs!EntriesStayTrue` | `Spec => []EntriesMatchKeys`, assuming `~EditsWhileBusy` |
| `HalideCacheProofs!OutputsStayTrue` | `Spec => OutputsMatchKey`, assuming `~EditsWhileBusy` |
| `HalideCacheProofs!CorruptStaysTracked` | `Spec => []CorruptDiscarded` |
| `HalideCacheProofs!FailOpenUndamaged` | `Spec => [](damage = 0 => FailOpen)` |
| `HalideCacheProofs!FailOpenAlone` | `Alone => (Spec => [](kills = 0 => FailOpen))` |
| `ServerProofs!Invariance` | `Spec => []IInv` |
| `ServerProofs!LimitStaysExact` | `Spec => []LimitExact` |
| `ServerProofs!CountersStayFollowing` | `Spec => []CountersFollow` |
| `ServerProofs!AnswersStayCurrent` | `Spec => AnswersCurrent` |
| `ServerProofs!EvictionsStayCovered` | `Spec => []EvictionsCovered` |
| `MetricsProofs!TypeCorrect` | `Spec => []TypeOK`, with the bounds of all tables |
| `MetricsProofs!CountersStayInAgreement` | `Spec => []CountersAgree` |
| `MetricsProofs!RingStaysNearlyOrdered` | `Spec => []NearlyOrdered` |
| `MetricsProofs!WindowStaysComplete` | `Spec => []WindowComplete` |
| `MetricsProofs!ForgottenWereSeenLongestAgo` | `Spec => []ForgottenLongestAgo` |
| `MetricsProofs!RingLosesTheOldest` | `Spec => RingForgetsOldest` |
| `MetricsProofs!HistogramStaysRight` | `Spec => []HistogramAgrees` |
| `MetricsProofs!SummariesStayRight` | `Spec => []SummariesRight` |
| `KeyInputsProofs!KeysArePortable` | `Spec => []KeysPortable` |
| `KeyInputsProofs!KeysAreDistinct` | `Spec => []KeysDistinct` |

### Lager

`EntriesIntact` is not inductive: nothing in it says that the file about to be
renamed is whole. The strengthening `IInv` says of each store in flight that
its temporary name carries its process's id and a number already
drawn (`StoringOK`), that its inode is linked to this name or, after a scan has
taken it for stale, to none, and neither to another name nor to an entry
(`NameOK`), and that the inode holds only its own blob, all of it and synced
before the rename (`DataOK`). `WritersAlone` is part of it: the two threads of
one process by distinct numbers, those of two by distinct pids. A leftover of a
killed process may well carry the name a new store draws; then
`create_new` fails, which is why `StoreCreate` preserves `NameOK`.

Most actions only let go of names and handles; the lemma
`LettingGoPreserves` covers all of these at once (`Remove`, `StoreCleanup`,
`Kill`, ...), and five lemmas cover the actions that do more. For the
implementation, `IInv` makes every entry and open handle stand for one blob
(`ShownIntact`), a step that leaves names and handles alone leaves what they
stand for alone (`ShownKept`), and `StepMaps` takes each action of `Lager` to
the action of `BlobStore` it implements, or to a stutter: the rename to `Put`,
the open to `Get`, and so on. TLC checks `IInv` itself as an invariant of
`lager_crash`. `NoTempLeak` is inductive with no more than the types
(`TempTypes`), and holds whatever the pids are.

### Recursion

The provers cannot instantiate an induction principle. `Minima` therefore
states induction for sets: a set of numbers that has 0, and with each number the
next, has all of them, since there is no least number it lacks; and a
collection of finite sets likewise, since there is no minimal one.
The proofs apply it to the set of the numbers, sets or sequences for which a
claim holds. What an operator of the community modules computes is unfolded in
the same way: the recursive function behind it exists (`SumStep`, `FlatStep`,
`RestStep`), so `CHOOSE` picks it, and its value at one argument follows from
that at a smaller one.

### LRU

`LeastRecentFirst` compares what has been evicted with what is on the heap, and
says nothing of the entry in hand, which is in neither set; `Ordered` puts it
between the two. What has been put aside is left out of the comparison in the
end only, when it is back on the heap. `PromptStoresSucceed` needs that
temporary files are not shared, that a store's file shows the time of its last
write, and that a file a scan holds for stale is nobody's (`Orphaned`): the time
it read was at most `MaxStall` old if a store was using it, the clock at
most `MaxLag` later, so the age cannot exceed the sum (`Owned`).

A fold over a set takes its elements in an order nobody chooses, so
`LRUCountersProofs` first shows that a sum does not depend on it: taking any
element off the set takes its size off the sum. `CountInv` then says of each pass
that `size` is the sum over what it has seen and neither evicted nor found gone,
and that what it has in hand, on the heap and put aside does not
overlap (`Apart`), so that an entry is subtracted once. That the size on the
disk is above the target at an unlink follows, since the entries the pass counts
are there and no smaller, and a sum over more entries is no smaller.

### HalideCache

`EntriesMatchKeys` needs what is in the hands of clients (`HandsGood`) and in
their checkouts (`OutputsGood`): after `RestoreObject` one output is right, after
`RestoreHeader` both, and from the build to the clean-up both unless the builder
failed. That the builder reads what was hashed is `SrcKept`, and holds only
while nobody edits under a run. `CorruptDiscarded` has an invariant of its own
(`Passed`, `Tracked`): a corrupt entry is found by the client that fetched it,
on its way to `discard`.

`FailOpen` does not hold of every configuration: `cache_failopen` shows two clients
of one machine and one damaged blob that break it. The two theorems say what
else is needed. Before the first damage every entry and whatever is on its way
is whole (`AllWhole`), so no restore fails on what it reads. And a client that
shares its store with nobody (`Alone`) opens no corrupt entry at its first
lookup (`AloneOpen`), since the run that fetched it has discarded it
(`CorruptDiscarded`), unless it was killed in between.

### Server

`RequestOK` has four parts: what the task has done and what the store
knows of it (`TaskOK`), how it has ended (`EndOK`), what has been told (`ToldOK`),
and what has been seen (`SeenOK`: an existence test that found nothing means the
address was empty at some moment of the request, though no longer when the
answer goes out). TLC checks `IInv` in `server_requests`. `EvictionsCovered` is a
statement about cardinalities, with an invariant of its own (`CoverInv`): a pass
that removes an entry takes one stored upload, or one entry found at the start,
out of the addresses and into its count. It is a bound from above: what a pass
removes before it fails is in no count (lru.rs:101-105).

### Metrics

`IInv` conjoins the properties themselves with `EventsPast`, `BucketsPast` and
`SeenLately`: nothing recorded is ahead of the clock, and `last_seen` trails
the client's latest event by no more than `MaxLag`, which is what makes dropping
the smallest `last_seen` safe. `RingOK` and `ClientsOK` say what one call may
do to the ring and to the table.

The running sums of the histogram end at the sum of its buckets, and adding 1 to a
bucket adds 1 to every sum from there on. The median and the p95 are given by the
number of samples above and below them, so the proof counts: in a sorted sequence,
those before a place and those behind it.

### KeyInputs

What is hashed is a sequence, and `KeysDistinct` means that it can be taken apart.
That goes in three steps. The builders and libraries are compared field by field
(`FieldsAgree`): where two sequences agree and the fields before agree, a field is
the other's or cut short from it, and by `Clash` it is the other's. In a pair the
name has no 0, so `BeginsAlike` needs the condition for contents only, and the end
of the group is at an even place, where a name would be (`BeginsSame`). Behind it
only the dependencies have 0s, and whatever they are, what is hashed of them is
hashed of their pieces between the 0s (`Pieces`), of which none is the command of
the other run. Fields without a 0 can be found (`FrameUnique`: the last one begins
behind the last 0 but one), and `ReadBack` finds the ends of their groups: the
outputs because there are two, `ArgumentsBegin` because the command of one run is
not among the pieces and variables of the other, and `DependenciesEnd` because no
variable is empty. The pieces are then the same, hence what is hashed of the
dependencies, and by `Clash` again the dependencies are (`DependenciesSame`).
Within a group, libraries and variables are blocks that begin with their names
(`BlocksUnique`).

For `KeysPortable`, `StripIn` shows that stripping what an
argument becomes in a checkout leaves what the argument means: `RestIn` walks both
from the back, where a match of the one is a match of the other, because no
symbol is the path of a checkout.

### Only model-checked

Liveness: `PassEnds`, `EventuallyLimited` and `StaleTempsGo` of `LRU`, `RunsEnd` of
`HalideCache`, `RequestsAnswered` of `Server`. Fairness and `ENABLED` are not
within the prover's reach. And what the violated runs show, since a
counterexample is not something to prove.

## Not modelled

* Formatting (statistics, Prometheus, addresses), parsing (`extract.rs`,
  `from_hex`), the dashboard, host samples, the
  systemd unit, CI: no state of their own, or pure I/O.
* Where the client finds its inputs: `find_repo_root`, `locate_halide`.
* How the body of a hit is streamed, and a graceful shutdown, which lets the
  requests in flight end.
* Windows: a file that is open cannot be unlinked or renamed over there; the
  models have the semantics of POSIX. A failing unlink is a failing call, which
  the models have. `normalize_separators` does nothing on Unix.
* File systems on which `rename` is not atomic or `create_new` not exclusive.
* Links inside the cache directory, and addresses as strings: each address is
  a value with a directory of its own.
* A system clock that is set back. `LRU` has one clock, and `Metrics` takes
  times that lag behind it by a bounded amount.

## Plan

Done, in this order: the store with its proofs (`BlobStore`, `Lager`,
`LagerProofs`), the eviction (`LRU`, `LRUProofs`), the client (`HalideCache`,
`HalideCacheProofs`), the server (`Server`, `ServerProofs`), its metrics
(`Metrics`, `MetricsProofs`), the key (`KeyInputs`, `KeyInputsProofs`), and the
sums of `LRU` and `Metrics` with lemmas about recursion (`LRUCountersProofs`,
`Minima`). What would come next:

1. An abstract specification of a cached build ("a build with a cache ends with
   the outputs a build without one has"), which `HalideCache` is shown to
   implement.
2. `HalideCache` over two instances of `BlobStore` instead of maps, and over
   `KeyInputs` instead of an injective key.
