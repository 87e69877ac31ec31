-------------------------------- MODULE LRU --------------------------------
(***************************************************************************)
(* The eviction pass: LRU::scan lists and stats the store's directory,     *)
(* LRU::evict_until unlinks the least recently used entries until a target *)
(* is met (lager/src/lru.rs).  A pass is run by clean_up of every client   *)
(* under a lock between processes, and by the server's eviction loop; it   *)
(* runs while users of the same directory store, read and remove entries   *)
(* without any lock.  One action per file-system call of the pass, so that *)
(* everything a pass saw may be out of date when it acts on it.            *)
(*                                                                         *)
(* Recency is a file's modification time: set by writing, reset to now by  *)
(* `touch` after an entry was opened.  Contents are Lager's business.      *)
(***************************************************************************)
EXTENDS Integers, FiniteSets, FiniteSetsExt

CONSTANTS
  Address,    \* the addresses; each has a shard directory of its own
  Temp,       \* names of temporary files
  User,       \* threads that store, read and remove entries
  Evictor,    \* processes that run passes
  Sizes,      \* sizes an entry can have
  MaxSize,    \* usage that starts an eviction
  Target,     \* usage an eviction aims at
  StaleAge,   \* STALE_TEMP_AGE
  MaxStall,   \* bound: how long a store waits between two writes
  MaxLag,     \* bound: how long a scan takes from a file's time to now()
  MaxClock,   \* bound: the last instant
  MaxFaults,  \* bound: kills and I/O errors
  None

ASSUME SizesAssumption ==
  Sizes \subseteq Nat /\ MaxSize \in Nat /\ Target \in Nat /\ Target <= MaxSize
ASSUME TimesAssumption ==
  {StaleAge, MaxStall, MaxLag, MaxClock, MaxFaults} \subseteq Nat
\* An address is a hash of 32 bytes.
ASSUME AddressAssumption == IsFiniteSet(Address)

Time == 0 .. MaxClock

\* The metadata of an entry's file, and of a temporary one.
Meta == [mtime : Time, size : Sizes]
TempMeta == [addr : Address, mtime : Time]

\* What a shard directory holds: the entry, temporary files, and a file of an
\* older format, whose name is no address.
Item == ({"entry"} \X Address) \cup ({"temp"} \X Temp) \cup ({"old"} \X Address)

\* A temporary file the scan is at: its time, and when the scan read it.
TempItem == [name : Temp, mtime : Time, at : Time]

ASSUME NoneAssumption ==
  None \notin Address \cup Temp \cup User \cup Evictor \cup Meta \cup TempMeta

VARIABLES
  clock,      \* SystemTime::now()
  entry,      \* the entry of each address, or None
  temp,       \* each temporary file, or None
  old,        \* the addresses whose shard holds a file of an older format
  upc,        \* the next call of each user, and its locals: the address,
  uaddr,      \*   the temporary file,
  utmp,
  uwrote,     \*   the time of its last write
  lock,       \* the holder of "lager_lock", or None
  epc,        \* the next call of each pass, and its locals: the directories
  todo,       \*   not read yet,
  listed,     \*   the files listed but not yet looked at,
  item,       \*   the file being dealt with,
  seen,       \*   the metadata scan found,
  heap,       \*   the addresses in LRU::heap, in `in_use`, and in `evicted`,
  inuse,
  evicted,
  size,       \*   LRU::size
  faults

files == <<entry, temp, old>>
user == <<upc, uaddr, utmp, uwrote>>
pass == <<epc, todo, listed, item, seen, heap, inuse, evicted, size>>
vars == <<clock, files, user, lock, pass, faults>>

Sum(f, S) == MapThenSumSet(LAMBDA a : f[a].size, S)
Present == {a \in Address : entry[a] # None}
Usage == Sum(entry, Present)

TypeOK ==
  /\ clock \in Time
  /\ entry \in [Address -> Meta \cup {None}]
  /\ temp \in [Temp -> TempMeta \cup {None}]
  /\ old \in SUBSET Address
  /\ upc \in [User -> {"idle", "touch", "write", "rename"}]
  /\ uaddr \in [User -> Address \cup {None}]
  /\ utmp \in [User -> Temp \cup {None}]
  /\ uwrote \in [User -> Time]
  /\ lock \in Evictor \cup {None}
  /\ epc \in [Evictor -> {"idle", "scan", "age", "removeTemp", "evict",
                      "stat", "unlink", "report"}]
  /\ todo \in [Evictor -> SUBSET Address]
  /\ listed \in [Evictor -> SUBSET Item]
  /\ item \in [Evictor -> TempItem \cup Address \cup {None}]
  /\ seen \in [Evictor -> [Address -> Meta \cup {None}]]
  /\ heap \in [Evictor -> SUBSET Address]
  /\ inuse \in [Evictor -> SUBSET Address]
  /\ evicted \in [Evictor -> SUBSET Address]
  /\ size \in [Evictor -> Nat]
  /\ faults \in 0 .. MaxFaults

\* A directory with any entries in it, left by earlier runs.
Init ==
  /\ clock \in {0, 1} \cap Time
  /\ entry \in [Address -> [mtime : 0 .. clock, size : Sizes] \cup {None}]
  /\ temp = [n \in Temp |-> None]
  /\ old \in {{}, Address}
  /\ upc = [u \in User |-> "idle"]
  /\ uaddr = [u \in User |-> None]
  /\ utmp = [u \in User |-> None]
  /\ uwrote = [u \in User |-> 0]
  /\ lock = None
  /\ epc = [e \in Evictor |-> "idle"]
  /\ todo = [e \in Evictor |-> {}]
  /\ listed = [e \in Evictor |-> {}]
  /\ item = [e \in Evictor |-> None]
  /\ seen = [e \in Evictor |-> [a \in Address |-> None]]
  /\ heap = [e \in Evictor |-> {}]
  /\ inuse = [e \in Evictor |-> {}]
  /\ evicted = [e \in Evictor |-> {}]
  /\ size = [e \in Evictor |-> 0]
  /\ faults = 0

-----------------------------------------------------------------------------
(* Users of the store *)

\* The operation of u ends; its locals go out of scope.
Done(u) ==
  /\ upc' = [upc EXCEPT ![u] = "idle"]
  /\ uaddr' = [uaddr EXCEPT ![u] = None]
  /\ utmp' = [utmp EXCEPT ![u] = None]
  /\ uwrote' = [uwrote EXCEPT ![u] = 0]

\* retrieve opens an entry ...
Open(u, a) ==
  /\ upc[u] = "idle"
  /\ entry[a] # None
  /\ upc' = [upc EXCEPT ![u] = "touch"]
  /\ uaddr' = [uaddr EXCEPT ![u] = a]
  /\ UNCHANGED <<clock, files, utmp, uwrote, lock, pass, faults>>

\* ... and touches whatever entry has that name by now, if any.
Touch(u) ==
  /\ upc[u] = "touch"
  /\ IF entry[uaddr[u]] = None
     THEN UNCHANGED entry
     ELSE entry' = [entry EXCEPT ![uaddr[u]].mtime = clock]
  /\ Done(u)
  /\ UNCHANGED <<clock, temp, old, lock, pass, faults>>

\* A temporary file has this name, or a store or a pass knows it.
Known(n) ==
  \/ temp[n] # None
  \/ \E u \in User : utmp[u] = n
  \/ \E e \in Evictor :
       \/ <<"temp", n>> \in listed[e]
       \/ epc[e] \in {"age", "removeTemp"} /\ item[e].name = n

\* store_at creates a temporary file, under a name nobody has had: the names are
\* few here, and one that nobody knows any more stands for the next of them ...
StoreBegin(u, a, n) ==
  /\ upc[u] = "idle"
  /\ ~Known(n)
  /\ temp' = [temp EXCEPT ![n] = [addr |-> a, mtime |-> clock]]
  /\ upc' = [upc EXCEPT ![u] = "write"]
  /\ uaddr' = [uaddr EXCEPT ![u] = a]
  /\ utmp' = [utmp EXCEPT ![u] = n]
  /\ uwrote' = [uwrote EXCEPT ![u] = clock]
  /\ UNCHANGED <<clock, entry, old, lock, pass, faults>>

\* ... writes to it, which an unlinked file does not show ...
StoreWrite(u) ==
  /\ upc[u] = "write"
  /\ IF temp[utmp[u]] = None
     THEN UNCHANGED temp
     ELSE temp' = [temp EXCEPT ![utmp[u]].mtime = clock]
  /\ uwrote' = [uwrote EXCEPT ![u] = clock]
  /\ upc' \in {upc, [upc EXCEPT ![u] = "rename"]}
  /\ UNCHANGED <<clock, entry, old, uaddr, utmp, lock, pass, faults>>

\* ... and renames it: the entry's time is that of the last write.
StoreRename(u) ==
  /\ upc[u] = "rename"
  /\ temp[utmp[u]] # None
  /\ \E s \in Sizes :
       entry' = [entry EXCEPT ![uaddr[u]] =
                   [mtime |-> temp[utmp[u]].mtime, size |-> s]]
  /\ temp' = [temp EXCEPT ![utmp[u]] = None]
  /\ Done(u)
  /\ UNCHANGED <<clock, old, lock, pass, faults>>

\* The source of the bytes fails, or the temporary file is gone: the store
\* fails and removes what there is of it.
StoreFails(u) ==
  /\ upc[u] \in {"write", "rename"}
  /\ temp' = [temp EXCEPT ![utmp[u]] = None]
  /\ Done(u)
  /\ UNCHANGED <<clock, entry, old, lock, pass, faults>>

\* remove: what a client does to a corrupt entry.
Remove(u, a) ==
  /\ upc[u] = "idle"
  /\ entry[a] # None
  /\ entry' = [entry EXCEPT ![a] = None]
  /\ UNCHANGED <<clock, temp, old, user, lock, pass, faults>>

\* The user's process dies and leaves its temporary file behind.
KillUser(u) ==
  /\ upc[u] # "idle"
  /\ faults < MaxFaults
  /\ faults' = faults + 1
  /\ Done(u)
  /\ UNCHANGED <<clock, files, lock, pass>>

UserStep(u) ==
  \/ \E a \in Address : Open(u, a) \/ Remove(u, a)
  \/ \E a \in Address, n \in Temp : StoreBegin(u, a, n)
  \/ Touch(u) \/ StoreWrite(u) \/ StoreRename(u) \/ StoreFails(u)

-----------------------------------------------------------------------------
(* Mutants: steps of the pass below with one plausible mistake in them.    *)
(* The specification does not use them.                                    *)

\* The time of an entry is rounded up.
ScanEntryRoundedUp(e, a) ==
  /\ epc[e] = "scan"
  /\ <<"entry", a>> \in listed[e]
  /\ entry[a] # None
  /\ listed' = [listed EXCEPT ![e] = @ \ {<<"entry", a>>}]
  /\ seen' = [seen EXCEPT ![e][a] = [entry[a] EXCEPT !.mtime = @ + 1]]
  /\ heap' = [heap EXCEPT ![e] = @ \cup {a}]
  /\ size' = [size EXCEPT ![e] = @ + entry[a].size]
  /\ UNCHANGED <<clock, files, user, lock, epc, todo, item, inuse, evicted,
                 faults>>

\* A temporary file is stale a moment too early.
ScanAgeEarly(e) ==
  /\ epc[e] = "age"
  /\ IF clock - item[e].mtime >= StaleAge
     THEN epc' = [epc EXCEPT ![e] = "removeTemp"] /\ UNCHANGED item
     ELSE epc' = [epc EXCEPT ![e] = "scan"] /\ item' = [item EXCEPT ![e] = None]
  /\ UNCHANGED <<clock, files, user, lock, todo, listed, seen, heap, inuse,
                 evicted, size, faults>>

\* The age is computed the wrong way round.
ScanAgeNever(e) ==
  /\ epc[e] = "age"
  /\ IF item[e].mtime - clock > StaleAge
     THEN epc' = [epc EXCEPT ![e] = "removeTemp"] /\ UNCHANGED item
     ELSE epc' = [epc EXCEPT ![e] = "scan"] /\ item' = [item EXCEPT ![e] = None]
  /\ UNCHANGED <<clock, files, user, lock, todo, listed, seen, heap, inuse,
                 evicted, size, faults>>

\* The comparison with the limit is the wrong way round.
ScanEndReversed(e) ==
  /\ epc[e] = "scan"
  /\ listed[e] = {}
  /\ todo[e] = {}
  /\ epc' = [epc EXCEPT ![e] = IF size[e] < MaxSize THEN "evict" ELSE "report"]
  /\ UNCHANGED <<clock, files, user, lock, todo, listed, item, seen, heap,
                 inuse, evicted, size, faults>>

\* Item::cmp without the reversal.
Youngest(e) ==
  {a \in heap[e] : \A b \in heap[e] : seen[e][a].mtime >= seen[e][b].mtime}

\* The loop runs while the size is the target.
EvictPopOneMore(e) ==
  /\ epc[e] = "evict"
  /\ size[e] >= Target
  /\ \E a \in heap[e] :
       /\ \A b \in heap[e] : seen[e][a].mtime <= seen[e][b].mtime
       /\ heap' = [heap EXCEPT ![e] = @ \ {a}]
       /\ item' = [item EXCEPT ![e] = a]
  /\ epc' = [epc EXCEPT ![e] = "stat"]
  /\ UNCHANGED <<clock, files, user, lock, todo, listed, seen, inuse, evicted,
                 size, faults>>

\* An entry in use goes straight back on the heap.
EvictInUsePush(e) ==
  LET a == item[e] IN
  /\ epc[e] = "stat"
  /\ entry[a] # None
  /\ entry[a].mtime > seen[e][a].mtime
  /\ heap' = [heap EXCEPT ![e] = @ \cup {a}]
  /\ item' = [item EXCEPT ![e] = None]
  /\ epc' = [epc EXCEPT ![e] = "evict"]
  /\ UNCHANGED <<clock, files, user, lock, todo, listed, seen, inuse, evicted,
                 size, faults>>

\* `self.heap.extend(in_use)` is left out.
EvictEndNoExtend(e) ==
  /\ epc[e] = "evict"
  /\ size[e] <= Target \/ heap[e] = {}
  /\ epc' = [epc EXCEPT ![e] = "report"]
  /\ UNCHANGED <<clock, files, user, lock, todo, listed, item, seen, heap,
                 inuse, evicted, size, faults>>

-----------------------------------------------------------------------------
(* The pass *)

\* The pass of e returns, LRU is dropped and so is the lock's guard.
EndPass(e) ==
  /\ epc' = [epc EXCEPT ![e] = "idle"]
  /\ todo' = [todo EXCEPT ![e] = {}]
  /\ listed' = [listed EXCEPT ![e] = {}]
  /\ item' = [item EXCEPT ![e] = None]
  /\ seen' = [seen EXCEPT ![e] = [a \in Address |-> None]]
  /\ heap' = [heap EXCEPT ![e] = {}]
  /\ inuse' = [inuse EXCEPT ![e] = {}]
  /\ evicted' = [evicted EXCEPT ![e] = {}]
  /\ size' = [size EXCEPT ![e] = 0]
  /\ lock' = None

\* lock(), LRU::new and the start of WalkDir.
ScanBegin(e) ==
  /\ epc[e] = "idle"
  /\ lock = None
  /\ lock' = e
  /\ epc' = [epc EXCEPT ![e] = "scan"]
  /\ todo' = [todo EXCEPT ![e] = Address]
  /\ UNCHANGED <<clock, files, user, listed, item, seen, heap, inuse, evicted,
                 size, faults>>

Listing(a) ==
  {<<"entry", a>> : x \in {a} \cap Present} \cup
  {<<"old", a>> : x \in {a} \cap old} \cup
  {<<"temp", n>> : n \in {m \in Temp : temp[m] # None /\ temp[m].addr = a}}

\* WalkDir reads the names in the next shard directory.
ScanDir(e, a) ==
  /\ epc[e] = "scan"
  /\ listed[e] = {}
  /\ a \in todo[e]
  /\ todo' = [todo EXCEPT ![e] = @ \ {a}]
  /\ listed' = [listed EXCEPT ![e] = Listing(a)]
  /\ UNCHANGED <<clock, files, user, lock, epc, item, seen, heap, inuse,
                 evicted, size, faults>>

\* entry.metadata() finds an entry, which is counted and pushed on the heap.
ScanEntry(e, a) ==
  /\ epc[e] = "scan"
  /\ <<"entry", a>> \in listed[e]
  /\ entry[a] # None
  /\ listed' = [listed EXCEPT ![e] = @ \ {<<"entry", a>>}]
  /\ seen' = [seen EXCEPT ![e][a] = entry[a]]
  /\ heap' = [heap EXCEPT ![e] = @ \cup {a}]
  /\ size' = [size EXCEPT ![e] = @ + entry[a].size]
  /\ UNCHANGED <<clock, files, user, lock, epc, todo, item, inuse, evicted,
                 faults>>

\* entry.metadata() finds a temporary file, ...
ScanTemp(e, n) ==
  /\ epc[e] = "scan"
  /\ <<"temp", n>> \in listed[e]
  /\ temp[n] # None
  /\ listed' = [listed EXCEPT ![e] = @ \ {<<"temp", n>>}]
  /\ item' = [item EXCEPT ![e] =
                [name |-> n, mtime |-> temp[n].mtime, at |-> clock]]
  /\ epc' = [epc EXCEPT ![e] = "age"]
  /\ UNCHANGED <<clock, files, user, lock, todo, seen, heap, inuse, evicted,
                 size, faults>>

\* ... whose age, as of now(), is that of its last write before: it is to be
\* removed if it is stale.
ScanAge(e) ==
  /\ epc[e] = "age"
  /\ IF clock - item[e].mtime > StaleAge
     THEN epc' = [epc EXCEPT ![e] = "removeTemp"] /\ UNCHANGED item
     ELSE epc' = [epc EXCEPT ![e] = "scan"] /\ item' = [item EXCEPT ![e] = None]
  /\ UNCHANGED <<clock, files, user, lock, todo, listed, seen, heap, inuse,
                 evicted, size, faults>>

\* remove_file of the stale temporary file, its result ignored.
ScanRemoveTemp(e) ==
  /\ epc[e] = "removeTemp"
  /\ temp' = [temp EXCEPT ![item[e].name] = None]
  /\ epc' = [epc EXCEPT ![e] = "scan"]
  /\ item' = [item EXCEPT ![e] = None]
  /\ UNCHANGED <<clock, entry, old, user, lock, todo, listed, seen, heap, inuse,
                 evicted, size, faults>>

\* The name is no address: remove_file.
ScanOld(e, a) ==
  /\ epc[e] = "scan"
  /\ <<"old", a>> \in listed[e]
  /\ listed' = [listed EXCEPT ![e] = @ \ {<<"old", a>>}]
  /\ old' = old \ {a}
  /\ UNCHANGED <<clock, entry, temp, user, lock, epc, todo, item, seen, heap,
                 inuse, evicted, size, faults>>

\* entry.metadata() fails, for a file that has vanished since it was listed:
\* `?` ends the scan, and with it the pass.
ScanFails(e) ==
  /\ epc[e] = "scan"
  /\ \/ \E a \in Address : <<"entry", a>> \in listed[e] /\ entry[a] = None
     \/ \E n \in Temp : <<"temp", n>> \in listed[e] /\ temp[n] = None
  /\ EndPass(e)
  /\ UNCHANGED <<clock, files, user, faults>>

\* The scan is over: evict if there is more than MaxSize.
ScanEnd(e) ==
  /\ epc[e] = "scan"
  /\ listed[e] = {}
  /\ todo[e] = {}
  /\ epc' = [epc EXCEPT ![e] = IF size[e] > MaxSize THEN "evict" ELSE "report"]
  /\ UNCHANGED <<clock, files, user, lock, todo, listed, item, seen, heap,
                 inuse, evicted, size, faults>>

\* heap.pop(): one of the items with the oldest time.
Oldest(e) ==
  {a \in heap[e] : \A b \in heap[e] : seen[e][a].mtime <= seen[e][b].mtime}

EvictPop(e) ==
  /\ epc[e] = "evict"
  /\ size[e] > Target
  /\ \E a \in Oldest(e) :
       /\ heap' = [heap EXCEPT ![e] = @ \ {a}]
       /\ item' = [item EXCEPT ![e] = a]
  /\ epc' = [epc EXCEPT ![e] = "stat"]
  /\ UNCHANGED <<clock, files, user, lock, todo, listed, seen, inuse, evicted,
                 size, faults>>

\* `self.size -= item.size` and the record of the eviction.
CountEvicted(e, a) ==
  /\ size' = [size EXCEPT ![e] = @ - seen[e][a].size]
  /\ evicted' = [evicted EXCEPT ![e] = @ \cup {a}]
  /\ item' = [item EXCEPT ![e] = None]
  /\ epc' = [epc EXCEPT ![e] = "evict"]

\* metadata() in remove_if_unused_since: gone, so it counts as evicted ...
EvictGone(e) ==
  /\ epc[e] = "stat"
  /\ entry[item[e]] = None
  /\ CountEvicted(e, item[e])
  /\ UNCHANGED <<clock, files, user, lock, todo, listed, seen, heap, inuse,
                 faults>>

\* ... used since the scan, so it is put aside ...
EvictInUse(e) ==
  LET a == item[e] IN
  /\ epc[e] = "stat"
  /\ entry[a] # None
  /\ entry[a].mtime > seen[e][a].mtime
  /\ inuse' = [inuse EXCEPT ![e] = @ \cup {a}]
  /\ item' = [item EXCEPT ![e] = None]
  /\ epc' = [epc EXCEPT ![e] = "evict"]
  /\ UNCHANGED <<clock, files, user, lock, todo, listed, seen, heap, evicted,
                 size, faults>>

\* ... or still as it was, so it is going to be removed.
EvictUnused(e) ==
  LET a == item[e] IN
  /\ epc[e] = "stat"
  /\ entry[a] # None
  /\ entry[a].mtime <= seen[e][a].mtime
  /\ epc' = [epc EXCEPT ![e] = "unlink"]
  /\ UNCHANGED <<clock, files, user, lock, todo, listed, item, seen, heap,
                 inuse, evicted, size, faults>>

\* remove_file, of whatever has the name by now; an absent file is no error.
EvictUnlink(e) ==
  /\ epc[e] = "unlink"
  /\ entry' = [entry EXCEPT ![item[e]] = None]
  /\ CountEvicted(e, item[e])
  /\ UNCHANGED <<clock, temp, old, user, lock, todo, listed, seen, heap, inuse,
                 faults>>

\* The loop is over, and what was put aside goes back on the heap.
EvictEnd(e) ==
  /\ epc[e] = "evict"
  /\ size[e] <= Target \/ heap[e] = {}
  /\ heap' = [heap EXCEPT ![e] = @ \cup inuse[e]]
  /\ epc' = [epc EXCEPT ![e] = "report"]
  /\ UNCHANGED <<clock, files, user, lock, todo, listed, item, seen, inuse,
                 evicted, size, faults>>

\* The caller has read the counters, and drops the LRU and the lock.
PassEnd(e) ==
  /\ epc[e] = "report"
  /\ EndPass(e)
  /\ UNCHANGED <<clock, files, user, faults>>

\* Any call of a pass fails, or its process is killed.
PassFails(e) ==
  /\ epc[e] # "idle"
  /\ faults < MaxFaults
  /\ faults' = faults + 1
  /\ EndPass(e)
  /\ UNCHANGED <<clock, files, user>>

PassStep(e) ==
  \/ ScanBegin(e) \/ ScanFails(e) \/ ScanAge(e) \/ ScanRemoveTemp(e) \/ ScanEnd(e)
  \/ \E a \in Address : ScanDir(e, a) \/ ScanEntry(e, a) \/ ScanOld(e, a)
  \/ \E n \in Temp : ScanTemp(e, n)
  \/ EvictPop(e) \/ EvictGone(e) \/ EvictInUse(e) \/ EvictUnused(e)
  \/ EvictUnlink(e) \/ EvictEnd(e) \/ PassEnd(e)

\* Time goes on, while no store waits longer than MaxStall for its next write
\* and no scan takes longer than MaxLag to compute an age.
Tick ==
  /\ clock < MaxClock
  /\ \A u \in User :
       upc[u] \in {"write", "rename"} => clock + 1 - uwrote[u] <= MaxStall
  /\ \A e \in Evictor : epc[e] = "age" => clock + 1 - item[e].at <= MaxLag
  /\ clock' = clock + 1
  /\ UNCHANGED <<files, user, lock, pass, faults>>

Next ==
  \/ \E u \in User : UserStep(u) \/ KillUser(u)
  \/ \E e \in Evictor : PassStep(e) \/ PassFails(e)
  \/ Tick

Spec == Init /\ [][Next]_vars

\* The passes go on for ever, and so does time: the server's eviction_loop
\* starts the next pass an interval after the last, a client one per build.
LiveSpec ==
  Spec /\ (\A e \in Evictor : WF_vars(PassStep(e))) /\ WF_vars(Tick)

-----------------------------------------------------------------------------
(* Properties *)

\* What is left to evict was used no earlier, when it was scanned, than all
\* that has been evicted (Item::cmp, lru.rs:22-28): the pass throws out the
\* least recently used entries although the order is reversed for BinaryHeap.
LeastRecentFirst ==
  \A e \in Evictor : \A a \in evicted[e], b \in heap[e] \ inuse[e] :
    seen[e][a].mtime <= seen[e][b].mtime

\* What the pass still counts: on the heap, put aside, or in hand; in the end,
\* everything is back on the heap.
Counted(e) ==
  CASE epc[e] = "report" -> heap[e]
    [] epc[e] \in {"stat", "unlink"} -> heap[e] \cup inuse[e] \cup {item[e]}
    [] OTHER -> heap[e] \cup inuse[e]

\* The counters the callers report and decide by: LRU::size is the size of
\* the entries the pass has seen and not evicted, those in use included, and
\* nothing is counted both as evicted and as there (lru.rs:94-118).
CountersAgree ==
  \A e \in Evictor :
    /\ size[e] = Sum(seen[e], Counted(e))
    /\ evicted[e] \cap Counted(e) = {}

\* A pass evicts no more than it has to: as long as the users have not removed
\* or shrunk any entry it counts, there is more than the target on the disk
\* whenever it unlinks an entry, whatever else was stored or evicted.
NoOverEviction ==
  \A e \in Evictor :
    /\ epc[e] = "unlink"
    /\ \A a \in Counted(e) : entry[a] # None /\ entry[a].size >= seen[e][a].size
    => Usage > Target

\* A store never loses its temporary file to a scan (lru.rs:64-74), however the
\* two interleave, as long as its pauses between two writes and the scan's
\* between reading the file's time and the clock are no longer, together, than
\* STALE_TEMP_AGE.
PromptStoresSucceed ==
  MaxStall + MaxLag <= StaleAge =>
    \A u \in User : upc[u] \in {"write", "rename"} => temp[utmp[u]] # None

\* "The touched entry survives" (lru.rs:182): an entry used after the scan is
\* not removed by the pass.
TouchedSurvive ==
  \A e \in Evictor :
    epc[e] = "unlink" /\ entry[item[e]] # None =>
      entry[item[e]].mtime <= seen[e][item[e]].mtime

\* A pass that has begun comes to an end, whatever the users do meanwhile.
PassEnds == \A e \in Evictor : epc[e] # "idle" ~> epc[e] = "idle"

UsersAct == \E u \in User : UserStep(u)

\* "The cache must be able to limit its disk space usage"
\* (halide-cache/doc/requirements.md:38): once the users are quiet, however
\* many passes failed before, usage gets and stays below the limit.
EventuallyLimited ==
  <>[][~UsersAct]_vars => <>[](Usage <= MaxSize)

\* A temporary file left by a killed process is removed once it is stale.
StaleTempsGo ==
  <>[][~UsersAct]_vars =>
    \A n \in Temp :
      /\ temp[n] # None
      /\ temp[n].mtime + StaleAge < MaxClock
      /\ \A u \in User : utmp[u] # n
      ~> temp[n] = None
=============================================================================
