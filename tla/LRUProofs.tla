----------------------------- MODULE LRUProofs -----------------------------
(***************************************************************************)
(* Proofs about LRU for every number of addresses, users and passes: that  *)
(* a pass evicts the least recently used entries first, and that a scan    *)
(* never takes a store's temporary file from under it, if pauses are short *)
(* enough.  The counters, which are sums, are in LRUCountersProofs.        *)
(***************************************************************************)
EXTENDS LRU, TLAPS

\* The types of what the proofs need.
Types ==
  /\ clock \in Time
  /\ entry \in [Address -> Meta \cup {None}]
  /\ temp \in [Temp -> TempMeta \cup {None}]
  /\ upc \in [User -> {"idle", "touch", "write", "rename"}]
  /\ uaddr \in [User -> Address \cup {None}]
  /\ utmp \in [User -> Temp \cup {None}]
  /\ uwrote \in [User -> Time]
  /\ lock \in Evictor \cup {None}
  /\ epc \in [Evictor -> {"idle", "scan", "age", "removeTemp", "evict",
                      "stat", "unlink", "report"}]
  /\ item \in [Evictor -> TempItem \cup Address \cup {None}]
  /\ seen \in [Evictor -> [Address -> Meta \cup {None}]]
  /\ heap \in [Evictor -> SUBSET Address]
  /\ inuse \in [Evictor -> SUBSET Address]
  /\ evicted \in [Evictor -> SUBSET Address]

\* A user has an address and a temporary file where it needs them, and a pass the
\* lock and the item.
Places ==
  /\ \A u \in User :
       /\ upc[u] \in {"write", "rename"} <=> utmp[u] # None
       /\ upc[u] # "idle" => uaddr[u] # None
  /\ \A e \in Evictor :
       /\ epc[e] # "idle" => lock = e
       /\ epc[e] \in {"age", "removeTemp"} => item[e] \in TempItem
       /\ epc[e] \in {"stat", "unlink"} => item[e] \in Address

\* The order of a pass: what it has evicted, then what it has in hand, then what
\* is on the heap.
Ordered ==
  \A e \in Evictor :
    /\ \A a \in heap[e] \cup inuse[e] \cup evicted[e] : seen[e][a] # None
    /\ epc[e] \in {"idle", "scan", "age", "removeTemp"} =>
         evicted[e] = {} /\ inuse[e] = {}
    /\ epc[e] # "report" =>
         \A a \in evicted[e], b \in heap[e] : seen[e][a].mtime <= seen[e][b].mtime
    /\ epc[e] \in {"stat", "unlink"} =>
         /\ seen[e][item[e]] # None
         /\ \A b \in heap[e] : seen[e][item[e]].mtime <= seen[e][b].mtime
         /\ \A a \in evicted[e] : seen[e][a].mtime <= seen[e][item[e]].mtime
    /\ \A a \in evicted[e], b \in heap[e] \ inuse[e] : seen[e][a].mtime <= seen[e][b].mtime

Prompt == MaxStall + MaxLag <= StaleAge

\* A temporary file that is there, and nobody's.
Orphaned(n) == temp[n] # None /\ \A u \in User : utmp[u] # n

\* A store's temporary file is its own, is there, and shows the time of its last
\* write; and one that a scan is going to remove is nobody's.
Owned ==
  /\ \A u, v \in User : u # v /\ utmp[u] # None => utmp[u] # utmp[v]
  /\ \A u \in User : utmp[u] # None =>
       /\ temp[utmp[u]] # None /\ temp[utmp[u]].mtime = uwrote[u]
       /\ clock - uwrote[u] <= MaxStall
  /\ \A e \in Evictor :
       /\ epc[e] = "age" =>
            /\ clock - item[e].at <= MaxLag
            /\ item[e].at - item[e].mtime <= MaxStall \/ Orphaned(item[e].name)
       /\ epc[e] = "removeTemp" => Orphaned(item[e].name)

\* The inductive invariant.
IInv == Types /\ Places /\ Ordered /\ (Prompt => Owned)
-----------------------------------------------------------------------------
\* Every step keeps the types ...
LEMMA TypesNext ==
  ASSUME Types, Places, Next
  PROVE  Types'
<1> USE DEF files, user, pass
<1>1. ASSUME NEW u \in User, NEW a \in Address, Open(u, a)
      PROVE  Types'
  BY <1>1, TimesAssumption
  DEF Open, Types, Places, Time, Meta, TempMeta, TempItem
<1>2. ASSUME NEW u \in User, Touch(u)
      PROVE  Types'
  <2>1. uaddr[u] \in Address
    BY <1>2 DEF Touch, Types, Places
  <2>2. entry[uaddr[u]] # None =>
          [entry[uaddr[u]] EXCEPT !.mtime = clock] \in Meta
    <3>1. SUFFICES ASSUME entry[uaddr[u]] # None
                   PROVE  [entry[uaddr[u]] EXCEPT !.mtime = clock] \in Meta
      OBVIOUS
    <3>2. entry[uaddr[u]] \in Meta
      BY <2>1, <3>1 DEF Types
    <3> QED
      BY <3>2 DEF Types, Meta
  <2>3. entry' \in [Address -> Meta \cup {None}]
    BY <1>2, <2>1, <2>2 DEF Touch, Types, Meta
  <2> QED
    BY <1>2, <2>3, TimesAssumption DEF Touch, Done, Types, Time
<1>3. ASSUME NEW u \in User, NEW a \in Address, NEW n \in Temp, StoreBegin(u, a, n)
      PROVE  Types'
  BY <1>3, TimesAssumption
  DEF StoreBegin, Types, Places, Time, Meta, TempMeta, TempItem
<1>4. ASSUME NEW u \in User, StoreWrite(u)
      PROVE  Types'
  <2>1. utmp[u] \in Temp
    BY <1>4 DEF StoreWrite, Types, Places
  <2>2. temp[utmp[u]] # None =>
          [temp[utmp[u]] EXCEPT !.mtime = clock] \in TempMeta
    <3>1. SUFFICES ASSUME temp[utmp[u]] # None
                   PROVE  [temp[utmp[u]] EXCEPT !.mtime = clock] \in TempMeta
      OBVIOUS
    <3>2. temp[utmp[u]] \in TempMeta
      BY <2>1, <3>1 DEF Types
    <3> QED
      BY <3>2 DEF Types, TempMeta
  <2>3. temp' \in [Temp -> TempMeta \cup {None}]
    BY <1>4, <2>1, <2>2 DEF StoreWrite, Types, TempMeta
  <2>4. upc' \in [User -> {"idle", "touch", "write", "rename"}]
    BY <1>4 DEF StoreWrite, Types
  <2> QED
    BY <1>4, <2>3, <2>4 DEF StoreWrite, Types
<1>5. ASSUME NEW u \in User, StoreRename(u)
      PROVE  Types'
  BY <1>5, TimesAssumption
  DEF StoreRename, Done, Types, Places, Time, Meta, TempMeta, TempItem
<1>6. ASSUME NEW u \in User, StoreFails(u)
      PROVE  Types'
  BY <1>6, TimesAssumption
  DEF StoreFails, Done, Types, Places, Time, Meta, TempMeta, TempItem
<1>7. ASSUME NEW u \in User, NEW a \in Address, Remove(u, a)
      PROVE  Types'
  BY <1>7, TimesAssumption
  DEF Remove, Types, Places, Time, Meta, TempMeta, TempItem
<1>8. ASSUME NEW u \in User, KillUser(u)
      PROVE  Types'
  BY <1>8, TimesAssumption
  DEF KillUser, Done, Types, Places, Time, Meta, TempMeta, TempItem
<1>9. ASSUME NEW e \in Evictor, ScanBegin(e)
      PROVE  Types'
  BY <1>9, TimesAssumption
  DEF ScanBegin, Types, Places, Time, Meta, TempMeta, TempItem
<1>10. ASSUME NEW e \in Evictor, NEW a \in Address, ScanDir(e, a)
      PROVE  Types'
  BY <1>10, TimesAssumption
  DEF ScanDir, Types, Places, Time, Meta, TempMeta, TempItem
<1>11. ASSUME NEW e \in Evictor, NEW a \in Address, ScanEntry(e, a)
      PROVE  Types'
  BY <1>11, TimesAssumption
  DEF ScanEntry, Types, Places, Time, Meta, TempMeta, TempItem
<1>12. ASSUME NEW e \in Evictor, NEW n \in Temp, ScanTemp(e, n)
      PROVE  Types'
  BY <1>12, TimesAssumption
  DEF ScanTemp, Types, Places, Time, Meta, TempMeta, TempItem
<1>13. ASSUME NEW e \in Evictor, ScanAge(e)
      PROVE  Types'
  <2>1. CASE clock - item[e].mtime > StaleAge
    BY <1>13, <2>1 DEF ScanAge, Types
  <2>2. CASE ~ (clock - item[e].mtime > StaleAge)
    BY <1>13, <2>2 DEF ScanAge, Types
  <2> QED
    BY <2>1, <2>2
<1>14. ASSUME NEW e \in Evictor, ScanRemoveTemp(e)
      PROVE  Types'
  BY <1>14, TimesAssumption
  DEF ScanRemoveTemp, Types, Places, Time, Meta, TempMeta, TempItem
<1>15. ASSUME NEW e \in Evictor, NEW a \in Address, ScanOld(e, a)
      PROVE  Types'
  BY <1>15, TimesAssumption
  DEF ScanOld, Types, Places, Time, Meta, TempMeta, TempItem
<1>16. ASSUME NEW e \in Evictor, ScanFails(e)
      PROVE  Types'
  BY <1>16, TimesAssumption
  DEF ScanFails, EndPass, Types, Places, Time, Meta, TempMeta, TempItem
<1>17. ASSUME NEW e \in Evictor, ScanEnd(e)
      PROVE  Types'
  BY <1>17, TimesAssumption
  DEF ScanEnd, Types, Places, Time, Meta, TempMeta, TempItem
<1>18. ASSUME NEW e \in Evictor, EvictPop(e)
      PROVE  Types'
  BY <1>18, TimesAssumption
  DEF EvictPop, Oldest, Types, Places, Time, Meta, TempMeta, TempItem
<1>19. ASSUME NEW e \in Evictor, EvictGone(e)
      PROVE  Types'
  BY <1>19, TimesAssumption
  DEF EvictGone, CountEvicted, Types, Places, Time, Meta, TempMeta, TempItem
<1>20. ASSUME NEW e \in Evictor, EvictInUse(e)
      PROVE  Types'
  BY <1>20, TimesAssumption
  DEF EvictInUse, Types, Places, Time, Meta, TempMeta, TempItem
<1>21. ASSUME NEW e \in Evictor, EvictUnused(e)
      PROVE  Types'
  BY <1>21, TimesAssumption
  DEF EvictUnused, Types, Places, Time, Meta, TempMeta, TempItem
<1>22. ASSUME NEW e \in Evictor, EvictUnlink(e)
      PROVE  Types'
  BY <1>22, TimesAssumption
  DEF EvictUnlink, CountEvicted, Types, Places, Time, Meta, TempMeta, TempItem
<1>23. ASSUME NEW e \in Evictor, EvictEnd(e)
      PROVE  Types'
  BY <1>23, TimesAssumption
  DEF EvictEnd, Types, Places, Time, Meta, TempMeta, TempItem
<1>24. ASSUME NEW e \in Evictor, PassEnd(e)
      PROVE  Types'
  BY <1>24, TimesAssumption
  DEF PassEnd, EndPass, Types, Places, Time, Meta, TempMeta, TempItem
<1>25. ASSUME NEW e \in Evictor, PassFails(e)
      PROVE  Types'
  BY <1>25, TimesAssumption
  DEF PassFails, EndPass, Types, Places, Time, Meta, TempMeta, TempItem
<1>26. CASE Tick
  BY <1>26, TimesAssumption
  DEF Tick, Types, Places, Time, Meta, TempMeta, TempItem
<1> QED
  BY <1>1, <1>2, <1>3, <1>4, <1>5, <1>6, <1>7, <1>8, <1>9, <1>10, <1>11, <1>12, <1>13,
     <1>14, <1>15, <1>16, <1>17, <1>18, <1>19, <1>20, <1>21, <1>22, <1>23, <1>24,
     <1>25, <1>26
  DEF Next, UserStep, PassStep

\* ... and what users and passes have at each place.
LEMMA PlacesNext ==
  ASSUME Types, Places, Next
  PROVE  Places'
<1> USE DEF files, user, pass
<1>1. ASSUME NEW u \in User, NEW a \in Address, Open(u, a)
      PROVE  Places'
  BY <1>1, NoneAssumption
  DEF Open, Types, Places, TempItem, Time
<1>2. ASSUME NEW u \in User, Touch(u)
      PROVE  Places'
  BY <1>2, NoneAssumption
  DEF Touch, Done, Types, Places, TempItem, Time
<1>3. ASSUME NEW u \in User, NEW a \in Address, NEW n \in Temp, StoreBegin(u, a, n)
      PROVE  Places'
  BY <1>3, NoneAssumption
  DEF StoreBegin, Types, Places, TempItem, Time
<1>4. ASSUME NEW u \in User, StoreWrite(u)
      PROVE  Places'
  BY <1>4, NoneAssumption
  DEF StoreWrite, Types, Places, TempItem, Time
<1>5. ASSUME NEW u \in User, StoreRename(u)
      PROVE  Places'
  BY <1>5, NoneAssumption
  DEF StoreRename, Done, Types, Places, TempItem, Time
<1>6. ASSUME NEW u \in User, StoreFails(u)
      PROVE  Places'
  BY <1>6, NoneAssumption
  DEF StoreFails, Done, Types, Places, TempItem, Time
<1>7. ASSUME NEW u \in User, NEW a \in Address, Remove(u, a)
      PROVE  Places'
  BY <1>7, NoneAssumption
  DEF Remove, Types, Places, TempItem, Time
<1>8. ASSUME NEW u \in User, KillUser(u)
      PROVE  Places'
  BY <1>8, NoneAssumption
  DEF KillUser, Done, Types, Places, TempItem, Time
<1>9. ASSUME NEW e \in Evictor, ScanBegin(e)
      PROVE  Places'
  BY <1>9, NoneAssumption
  DEF ScanBegin, Types, Places, TempItem, Time
<1>10. ASSUME NEW e \in Evictor, NEW a \in Address, ScanDir(e, a)
      PROVE  Places'
  BY <1>10, NoneAssumption
  DEF ScanDir, Types, Places, TempItem, Time
<1>11. ASSUME NEW e \in Evictor, NEW a \in Address, ScanEntry(e, a)
      PROVE  Places'
  BY <1>11, NoneAssumption
  DEF ScanEntry, Types, Places, TempItem, Time
<1>12. ASSUME NEW e \in Evictor, NEW n \in Temp, ScanTemp(e, n)
      PROVE  Places'
  <2>1. [name |-> n, mtime |-> temp[n].mtime, at |-> clock] \in TempItem
    BY <1>12 DEF ScanTemp, Types, TempMeta, TempItem
  <2>2. \A d \in Evictor : d # e => epc'[d] = epc[d] /\ item'[d] = item[d]
    BY <1>12 DEF ScanTemp, Types
  <2>3. epc'[e] = "age" /\ item'[e] \in TempItem /\ epc[e] = "scan"
    BY <1>12, <2>1 DEF ScanTemp, Types
  <2> QED
    BY <1>12, <2>2, <2>3 DEF ScanTemp, Places
<1>13. ASSUME NEW e \in Evictor, ScanAge(e)
      PROVE  Places'
  BY <1>13, NoneAssumption
  DEF ScanAge, Types, Places, TempItem, Time
<1>14. ASSUME NEW e \in Evictor, ScanRemoveTemp(e)
      PROVE  Places'
  BY <1>14, NoneAssumption
  DEF ScanRemoveTemp, Types, Places, TempItem, Time
<1>15. ASSUME NEW e \in Evictor, NEW a \in Address, ScanOld(e, a)
      PROVE  Places'
  BY <1>15, NoneAssumption
  DEF ScanOld, Types, Places, TempItem, Time
<1>16. ASSUME NEW e \in Evictor, ScanFails(e)
      PROVE  Places'
  BY <1>16, NoneAssumption
  DEF ScanFails, EndPass, Types, Places, TempItem, Time
<1>17. ASSUME NEW e \in Evictor, ScanEnd(e)
      PROVE  Places'
  BY <1>17, NoneAssumption
  DEF ScanEnd, Types, Places, TempItem, Time
<1>18. ASSUME NEW e \in Evictor, EvictPop(e)
      PROVE  Places'
  BY <1>18, NoneAssumption
  DEF EvictPop, Oldest, Types, Places, TempItem, Time
<1>19. ASSUME NEW e \in Evictor, EvictGone(e)
      PROVE  Places'
  BY <1>19, NoneAssumption
  DEF EvictGone, CountEvicted, Types, Places, TempItem, Time
<1>20. ASSUME NEW e \in Evictor, EvictInUse(e)
      PROVE  Places'
  BY <1>20, NoneAssumption
  DEF EvictInUse, Types, Places, TempItem, Time
<1>21. ASSUME NEW e \in Evictor, EvictUnused(e)
      PROVE  Places'
  BY <1>21, NoneAssumption
  DEF EvictUnused, Types, Places, TempItem, Time
<1>22. ASSUME NEW e \in Evictor, EvictUnlink(e)
      PROVE  Places'
  BY <1>22, NoneAssumption
  DEF EvictUnlink, CountEvicted, Types, Places, TempItem, Time
<1>23. ASSUME NEW e \in Evictor, EvictEnd(e)
      PROVE  Places'
  BY <1>23, NoneAssumption
  DEF EvictEnd, Types, Places, TempItem, Time
<1>24. ASSUME NEW e \in Evictor, PassEnd(e)
      PROVE  Places'
  BY <1>24, NoneAssumption
  DEF PassEnd, EndPass, Types, Places, TempItem, Time
<1>25. ASSUME NEW e \in Evictor, PassFails(e)
      PROVE  Places'
  BY <1>25, NoneAssumption
  DEF PassFails, EndPass, Types, Places, TempItem, Time
<1>26. CASE Tick
  BY <1>26, NoneAssumption
  DEF Tick, Types, Places, TempItem, Time
<1> QED
  BY <1>1, <1>2, <1>3, <1>4, <1>5, <1>6, <1>7, <1>8, <1>9, <1>10, <1>11, <1>12, <1>13,
     <1>14, <1>15, <1>16, <1>17, <1>18, <1>19, <1>20, <1>21, <1>22, <1>23, <1>24,
     <1>25, <1>26
  DEF Next, UserStep, PassStep

\* The entries leave the heap in the order of their times as scanned.
LEMMA OrderedNext ==
  ASSUME Types, Places, Ordered, Next
  PROVE  Ordered'
<1> USE DEF files, user, pass
<1>1. ASSUME NEW u \in User, NEW a \in Address, Open(u, a)
      PROVE  Ordered'
  BY <1>1, NoneAssumption
  DEF Open, Types, Places, Ordered, Meta, Time
<1>2. ASSUME NEW u \in User, Touch(u)
      PROVE  Ordered'
  BY <1>2, NoneAssumption
  DEF Touch, Done, Types, Places, Ordered, Meta, Time
<1>3. ASSUME NEW u \in User, NEW a \in Address, NEW n \in Temp, StoreBegin(u, a, n)
      PROVE  Ordered'
  BY <1>3, NoneAssumption
  DEF StoreBegin, Types, Places, Ordered, Meta, Time
<1>4. ASSUME NEW u \in User, StoreWrite(u)
      PROVE  Ordered'
  BY <1>4, NoneAssumption
  DEF StoreWrite, Types, Places, Ordered, Meta, Time
<1>5. ASSUME NEW u \in User, StoreRename(u)
      PROVE  Ordered'
  BY <1>5, NoneAssumption
  DEF StoreRename, Done, Types, Places, Ordered, Meta, Time
<1>6. ASSUME NEW u \in User, StoreFails(u)
      PROVE  Ordered'
  BY <1>6, NoneAssumption
  DEF StoreFails, Done, Types, Places, Ordered, Meta, Time
<1>7. ASSUME NEW u \in User, NEW a \in Address, Remove(u, a)
      PROVE  Ordered'
  BY <1>7, NoneAssumption
  DEF Remove, Types, Places, Ordered, Meta, Time
<1>8. ASSUME NEW u \in User, KillUser(u)
      PROVE  Ordered'
  BY <1>8, NoneAssumption
  DEF KillUser, Done, Types, Places, Ordered, Meta, Time
<1>9. ASSUME NEW e \in Evictor, ScanBegin(e)
      PROVE  Ordered'
  BY <1>9, NoneAssumption
  DEF ScanBegin, Types, Places, Ordered, Meta, Time
<1>10. ASSUME NEW e \in Evictor, NEW a \in Address, ScanDir(e, a)
      PROVE  Ordered'
  BY <1>10, NoneAssumption
  DEF ScanDir, Types, Places, Ordered, Meta, Time
<1>11. ASSUME NEW e \in Evictor, NEW a \in Address, ScanEntry(e, a)
      PROVE  Ordered'
  BY <1>11, NoneAssumption
  DEF ScanEntry, Types, Places, Ordered, Meta, Time
<1>12. ASSUME NEW e \in Evictor, NEW n \in Temp, ScanTemp(e, n)
      PROVE  Ordered'
  BY <1>12, NoneAssumption
  DEF ScanTemp, Types, Places, Ordered, Meta, Time
<1>13. ASSUME NEW e \in Evictor, ScanAge(e)
      PROVE  Ordered'
  <2>1. \A d \in Evictor : d # e =>
          epc'[d] = epc[d] /\ heap'[d] = heap[d] /\ inuse'[d] = inuse[d]
          /\ evicted'[d] = evicted[d] /\ item'[d] = item[d] /\ seen'[d] = seen[d]
    BY <1>13 DEF ScanAge, Types
  <2>2. /\ epc[e] = "age" /\ epc'[e] \in {"scan", "removeTemp"} /\ seen' = seen
        /\ inuse' = inuse /\ evicted' = evicted /\ heap' = heap
    BY <1>13 DEF ScanAge, Types
  <2> QED
    BY <2>1, <2>2 DEF Ordered
<1>14. ASSUME NEW e \in Evictor, ScanRemoveTemp(e)
      PROVE  Ordered'
  BY <1>14, NoneAssumption
  DEF ScanRemoveTemp, Types, Places, Ordered, Meta, Time
<1>15. ASSUME NEW e \in Evictor, NEW a \in Address, ScanOld(e, a)
      PROVE  Ordered'
  BY <1>15, NoneAssumption
  DEF ScanOld, Types, Places, Ordered, Meta, Time
<1>16. ASSUME NEW e \in Evictor, ScanFails(e)
      PROVE  Ordered'
  BY <1>16, NoneAssumption
  DEF ScanFails, EndPass, Types, Places, Ordered, Meta, Time
<1>17. ASSUME NEW e \in Evictor, ScanEnd(e)
      PROVE  Ordered'
  BY <1>17, NoneAssumption
  DEF ScanEnd, Types, Places, Ordered, Meta, Time
<1>18. ASSUME NEW e \in Evictor, EvictPop(e)
      PROVE  Ordered'
  <2>1. \A d \in Evictor : d # e =>
          epc'[d] = epc[d] /\ heap'[d] = heap[d] /\ inuse'[d] = inuse[d]
          /\ evicted'[d] = evicted[d] /\ item'[d] = item[d] /\ seen'[d] = seen[d]
    BY <1>18 DEF EvictPop, Types
  <2>2. PICK a \in Oldest(e) :
          heap' = [heap EXCEPT ![e] = @ \ {a}] /\ item' = [item EXCEPT ![e] = a]
    BY <1>18 DEF EvictPop
  <2>3. /\ epc[e] = "evict" /\ epc'[e] = "stat" /\ seen' = seen
        /\ inuse' = inuse /\ evicted' = evicted
        /\ heap'[e] = heap[e] \ {a} /\ item'[e] = a
    BY <1>18, <2>2 DEF EvictPop, Types
  <2>4. /\ a \in heap[e]
        /\ \A b \in heap[e] : seen[e][a].mtime <= seen[e][b].mtime
    BY <2>2 DEF Oldest
  <2> QED
    BY <2>1, <2>3, <2>4 DEF Ordered
<1>19. ASSUME NEW e \in Evictor, EvictGone(e)
      PROVE  Ordered'
  BY <1>19, NoneAssumption
  DEF EvictGone, CountEvicted, Types, Places, Ordered, Meta, Time
<1>20. ASSUME NEW e \in Evictor, EvictInUse(e)
      PROVE  Ordered'
  BY <1>20, NoneAssumption
  DEF EvictInUse, Types, Places, Ordered, Meta, Time
<1>21. ASSUME NEW e \in Evictor, EvictUnused(e)
      PROVE  Ordered'
  BY <1>21, NoneAssumption
  DEF EvictUnused, Types, Places, Ordered, Meta, Time
<1>22. ASSUME NEW e \in Evictor, EvictUnlink(e)
      PROVE  Ordered'
  BY <1>22, NoneAssumption
  DEF EvictUnlink, CountEvicted, Types, Places, Ordered, Meta, Time
<1>23. ASSUME NEW e \in Evictor, EvictEnd(e)
      PROVE  Ordered'
  <2>1. \A d \in Evictor : d # e =>
          epc'[d] = epc[d] /\ heap'[d] = heap[d] /\ inuse'[d] = inuse[d]
          /\ evicted'[d] = evicted[d] /\ item'[d] = item[d] /\ seen'[d] = seen[d]
    BY <1>23 DEF EvictEnd, Types
  <2>2. /\ epc[e] = "evict" /\ epc'[e] = "report" /\ seen' = seen
        /\ inuse' = inuse /\ evicted' = evicted
        /\ heap'[e] = heap[e] \cup inuse[e]
    BY <1>23 DEF EvictEnd, Types
  <2> QED
    BY <2>1, <2>2 DEF Ordered
<1>24. ASSUME NEW e \in Evictor, PassEnd(e)
      PROVE  Ordered'
  BY <1>24, NoneAssumption
  DEF PassEnd, EndPass, Types, Places, Ordered, Meta, Time
<1>25. ASSUME NEW e \in Evictor, PassFails(e)
      PROVE  Ordered'
  BY <1>25, NoneAssumption
  DEF PassFails, EndPass, Types, Places, Ordered, Meta, Time
<1>26. CASE Tick
  BY <1>26, NoneAssumption
  DEF Tick, Types, Places, Ordered, Meta, Time
<1> QED
  BY <1>1, <1>2, <1>3, <1>4, <1>5, <1>6, <1>7, <1>8, <1>9, <1>10, <1>11, <1>12, <1>13,
     <1>14, <1>15, <1>16, <1>17, <1>18, <1>19, <1>20, <1>21, <1>22, <1>23, <1>24,
     <1>25, <1>26
  DEF Next, UserStep, PassStep

\* A store's temporary file is young whenever a scan looks at it.
LEMMA OwnedNext ==
  ASSUME Types, Places, Prompt, Owned, Next
  PROVE  Owned'
<1> USE DEF files, user, pass
<1>1. ASSUME NEW u \in User, NEW a \in Address, Open(u, a)
      PROVE  Owned'
  BY <1>1, NoneAssumption, TimesAssumption
  DEF Open, Types, Places, Owned, Orphaned, Prompt, TempMeta, TempItem, Time
<1>2. ASSUME NEW u \in User, Touch(u)
      PROVE  Owned'
  BY <1>2, NoneAssumption, TimesAssumption
  DEF Touch, Done, Types, Places, Owned, Orphaned, Prompt, TempMeta, TempItem, Time
<1>3. ASSUME NEW u \in User, NEW a \in Address, NEW n \in Temp, StoreBegin(u, a, n)
      PROVE  Owned'
  <2>1. /\ utmp[u] = None /\ utmp'[u] = n /\ uwrote'[u] = clock
        /\ temp[n] = None /\ temp'[n].mtime = clock /\ temp'[n] # None
        /\ clock' = clock /\ \A v \in User : utmp[v] # n
    <3>1. temp' = [temp EXCEPT ![n] = [addr |-> a, mtime |-> clock]] /\ n \in Temp
      BY <1>3 DEF StoreBegin
    <3>2. temp'[n] = [addr |-> a, mtime |-> clock]
      BY <3>1 DEF Types
    <3>3. temp'[n] # None
      BY <3>2, NoneAssumption DEF TempMeta, Types
    <3> QED
      BY <1>3, <3>2, <3>3 DEF StoreBegin, Known, Types, Places
  <2>2. \A v \in User : v # u => utmp'[v] = utmp[v] /\ uwrote'[v] = uwrote[v]
    BY <1>3 DEF StoreBegin, Types
  <2>3. \A m \in Temp : m # n => temp'[m] = temp[m]
    BY <1>3 DEF StoreBegin, Types
  <2>4. \A v \in User : utmp[v] \in Temp \cup {None}
    BY DEF Types
  <2>5. \A m \in Temp : Orphaned(m) => Orphaned(m)'
    BY <2>1, <2>2, <2>3 DEF Orphaned
  <2>6. \A d \in Evictor : epc[d] \in {"age", "removeTemp"} => item[d].name \in Temp
    BY DEF Places, TempItem
  <2>7. /\ \A v, x \in User : v # x /\ utmp'[v] # None => utmp'[v] # utmp'[x]
        /\ \A v \in User : utmp'[v] # None =>
             /\ temp'[utmp'[v]] # None /\ temp'[utmp'[v]].mtime = uwrote'[v]
             /\ clock' - uwrote'[v] <= MaxStall
    <3>1. clock - clock <= MaxStall
      BY TimesAssumption DEF Types, Time
    <3>2. \A v \in User : v # u /\ utmp[v] # None => utmp[v] \in Temp /\ utmp[v] # n
      BY <2>1, <2>4
    <3> QED
      BY <2>1, <2>2, <2>3, <3>1, <3>2 DEF Owned
  <2>8. epc' = epc /\ item' = item
    BY <1>3 DEF StoreBegin
  <2> QED
    BY <2>1, <2>5, <2>6, <2>7, <2>8 DEF Owned
<1>4. ASSUME NEW u \in User, StoreWrite(u)
      PROVE  Owned'
  <2>1. /\ utmp[u] \in Temp /\ temp[utmp[u]] # None /\ utmp' = utmp
        /\ clock' = clock /\ epc' = epc /\ item' = item
    BY <1>4 DEF StoreWrite, Types, Places, Owned
  <2>2. /\ temp' = [temp EXCEPT ![utmp[u]].mtime = clock]
        /\ uwrote' = [uwrote EXCEPT ![u] = clock]
    BY <1>4, <2>1 DEF StoreWrite
  <2>3. temp[utmp[u]] \in TempMeta
    BY <2>1 DEF Types
  <2>4. temp'[utmp[u]] = [temp[utmp[u]] EXCEPT !.mtime = clock]
    BY <2>1, <2>2 DEF Types
  <2>5. temp'[utmp[u]] \in TempMeta /\ temp'[utmp[u]].mtime = clock
    BY <2>3, <2>4 DEF TempMeta, Types
  <2>6. temp'[utmp[u]] # None
    BY <2>5, NoneAssumption
  <2>7. \A m \in Temp : m # utmp[u] => temp'[m] = temp[m]
    BY <2>2 DEF Types
  <2>8. \A v \in User : v # u => uwrote'[v] = uwrote[v]
    BY <2>2 DEF Types
  <2>9. uwrote'[u] = clock /\ clock - clock <= MaxStall
    BY <2>2, TimesAssumption DEF Types, Time
  <2>10. \A m \in Temp : Orphaned(m) => Orphaned(m)'
    BY <2>1, <2>6, <2>7 DEF Orphaned
  <2>11. \A d \in Evictor : epc[d] \in {"age", "removeTemp"} => item[d].name \in Temp
    BY DEF Places, TempItem
  <2>12. \A v \in User : utmp[v] \in Temp \cup {None}
    BY DEF Types
  <2>13. \A v \in User : utmp'[v] # None =>
           /\ temp'[utmp'[v]] # None /\ temp'[utmp'[v]].mtime = uwrote'[v]
           /\ clock' - uwrote'[v] <= MaxStall
    BY <2>1, <2>5, <2>6, <2>7, <2>8, <2>9, <2>12 DEF Owned
  <2> QED
    BY <2>1, <2>10, <2>11, <2>13 DEF Owned
<1>5. ASSUME NEW u \in User, StoreRename(u)
      PROVE  Owned'
  BY <1>5, NoneAssumption, TimesAssumption
  DEF StoreRename, Done, Types, Places, Owned, Orphaned, Prompt, TempMeta, TempItem,
      Time
<1>6. ASSUME NEW u \in User, StoreFails(u)
      PROVE  Owned'
  BY <1>6, NoneAssumption, TimesAssumption
  DEF StoreFails, Done, Types, Places, Owned, Orphaned, Prompt, TempMeta, TempItem,
      Time
<1>7. ASSUME NEW u \in User, NEW a \in Address, Remove(u, a)
      PROVE  Owned'
  BY <1>7, NoneAssumption, TimesAssumption
  DEF Remove, Types, Places, Owned, Orphaned, Prompt, TempMeta, TempItem, Time
<1>8. ASSUME NEW u \in User, KillUser(u)
      PROVE  Owned'
  BY <1>8, NoneAssumption, TimesAssumption
  DEF KillUser, Done, Types, Places, Owned, Orphaned, Prompt, TempMeta, TempItem, Time
<1>9. ASSUME NEW e \in Evictor, ScanBegin(e)
      PROVE  Owned'
  BY <1>9, NoneAssumption, TimesAssumption
  DEF ScanBegin, Types, Places, Owned, Orphaned, Prompt, TempMeta, TempItem, Time
<1>10. ASSUME NEW e \in Evictor, NEW a \in Address, ScanDir(e, a)
      PROVE  Owned'
  BY <1>10, NoneAssumption, TimesAssumption
  DEF ScanDir, Types, Places, Owned, Orphaned, Prompt, TempMeta, TempItem, Time
<1>11. ASSUME NEW e \in Evictor, NEW a \in Address, ScanEntry(e, a)
      PROVE  Owned'
  BY <1>11, NoneAssumption, TimesAssumption
  DEF ScanEntry, Types, Places, Owned, Orphaned, Prompt, TempMeta, TempItem, Time
<1>12. ASSUME NEW e \in Evictor, NEW n \in Temp, ScanTemp(e, n)
      PROVE  Owned'
  <2>1. /\ clock' = clock /\ temp' = temp /\ utmp' = utmp /\ uwrote' = uwrote
        /\ temp[n] # None
    BY <1>12 DEF ScanTemp
  <2>2. \A d \in Evictor : d # e => epc'[d] = epc[d] /\ item'[d] = item[d]
    BY <1>12 DEF ScanTemp, Types
  <2>3. /\ epc'[e] = "age"
        /\ item'[e] = [name |-> n, mtime |-> temp[n].mtime, at |-> clock]
    BY <1>12 DEF ScanTemp, Types
  <2>4. /\ item'[e].name = n /\ item'[e].mtime = temp[n].mtime
        /\ item'[e].at = clock
    BY <2>3
  <2>5. clock - clock <= MaxLag
    BY TimesAssumption DEF Types, Time
  <2>6. \A m : Orphaned(m) => Orphaned(m)'
    BY <2>1 DEF Orphaned
  <2>7. clock - temp[n].mtime <= MaxStall \/ Orphaned(n)
    BY <2>1, NoneAssumption DEF Owned, Orphaned
  <2> QED
    BY <2>1, <2>2, <2>3, <2>4, <2>5, <2>6, <2>7 DEF Owned
<1>13. ASSUME NEW e \in Evictor, ScanAge(e)
      PROVE  Owned'
  BY <1>13, NoneAssumption, TimesAssumption
  DEF ScanAge, Types, Places, Owned, Orphaned, Prompt, TempMeta, TempItem, Time
<1>14. ASSUME NEW e \in Evictor, ScanRemoveTemp(e)
      PROVE  Owned'
  <2>1. /\ clock' = clock /\ utmp' = utmp /\ uwrote' = uwrote
        /\ lock = e /\ item[e] \in TempItem /\ Orphaned(item[e].name)
    BY <1>14 DEF ScanRemoveTemp, Places, Owned
  <2>2. \A u \in User : utmp[u] # item[e].name
    BY <2>1 DEF Orphaned
  <2>3. \A m \in Temp : m # item[e].name => temp'[m] = temp[m]
    BY <1>14 DEF ScanRemoveTemp, Types
  <2>4. \A d \in Evictor : d # e => epc'[d] = epc[d] /\ epc[d] = "idle"
    BY <1>14, <2>1 DEF ScanRemoveTemp, Types, Places
  <2>5. epc'[e] = "scan"
    BY <1>14 DEF ScanRemoveTemp, Types
  <2>6. \A u \in User : utmp[u] \in Temp \cup {None}
    BY DEF Types
  <2>7. \A u \in User : utmp'[u] # None =>
          /\ temp'[utmp'[u]] # None /\ temp'[utmp'[u]].mtime = uwrote'[u]
          /\ clock' - uwrote'[u] <= MaxStall
    BY <2>1, <2>2, <2>3, <2>6 DEF Owned
  <2>8. \A d \in Evictor : epc'[d] \notin {"age", "removeTemp"}
    BY <2>4, <2>5
  <2> QED
    BY <2>1, <2>7, <2>8 DEF Owned
<1>15. ASSUME NEW e \in Evictor, NEW a \in Address, ScanOld(e, a)
      PROVE  Owned'
  BY <1>15, NoneAssumption, TimesAssumption
  DEF ScanOld, Types, Places, Owned, Orphaned, Prompt, TempMeta, TempItem, Time
<1>16. ASSUME NEW e \in Evictor, ScanFails(e)
      PROVE  Owned'
  BY <1>16, NoneAssumption, TimesAssumption
  DEF ScanFails, EndPass, Types, Places, Owned, Orphaned, Prompt, TempMeta, TempItem,
      Time
<1>17. ASSUME NEW e \in Evictor, ScanEnd(e)
      PROVE  Owned'
  BY <1>17, NoneAssumption, TimesAssumption
  DEF ScanEnd, Types, Places, Owned, Orphaned, Prompt, TempMeta, TempItem, Time
<1>18. ASSUME NEW e \in Evictor, EvictPop(e)
      PROVE  Owned'
  BY <1>18, NoneAssumption, TimesAssumption
  DEF EvictPop, Oldest, Types, Places, Owned, Orphaned, Prompt, TempMeta, TempItem,
      Time
<1>19. ASSUME NEW e \in Evictor, EvictGone(e)
      PROVE  Owned'
  BY <1>19, NoneAssumption, TimesAssumption
  DEF EvictGone, CountEvicted, Types, Places, Owned, Orphaned, Prompt, TempMeta,
      TempItem, Time
<1>20. ASSUME NEW e \in Evictor, EvictInUse(e)
      PROVE  Owned'
  BY <1>20, NoneAssumption, TimesAssumption
  DEF EvictInUse, Types, Places, Owned, Orphaned, Prompt, TempMeta, TempItem, Time
<1>21. ASSUME NEW e \in Evictor, EvictUnused(e)
      PROVE  Owned'
  BY <1>21, NoneAssumption, TimesAssumption
  DEF EvictUnused, Types, Places, Owned, Orphaned, Prompt, TempMeta, TempItem, Time
<1>22. ASSUME NEW e \in Evictor, EvictUnlink(e)
      PROVE  Owned'
  BY <1>22, NoneAssumption, TimesAssumption
  DEF EvictUnlink, CountEvicted, Types, Places, Owned, Orphaned, Prompt, TempMeta,
      TempItem, Time
<1>23. ASSUME NEW e \in Evictor, EvictEnd(e)
      PROVE  Owned'
  BY <1>23, NoneAssumption, TimesAssumption
  DEF EvictEnd, Types, Places, Owned, Orphaned, Prompt, TempMeta, TempItem, Time
<1>24. ASSUME NEW e \in Evictor, PassEnd(e)
      PROVE  Owned'
  BY <1>24, NoneAssumption, TimesAssumption
  DEF PassEnd, EndPass, Types, Places, Owned, Orphaned, Prompt, TempMeta, TempItem,
      Time
<1>25. ASSUME NEW e \in Evictor, PassFails(e)
      PROVE  Owned'
  BY <1>25, NoneAssumption, TimesAssumption
  DEF PassFails, EndPass, Types, Places, Owned, Orphaned, Prompt, TempMeta, TempItem,
      Time
<1>26. CASE Tick
  BY <1>26, NoneAssumption, TimesAssumption
  DEF Tick, Types, Places, Owned, Orphaned, Prompt, TempMeta, TempItem, Time
<1> QED
  BY <1>1, <1>2, <1>3, <1>4, <1>5, <1>6, <1>7, <1>8, <1>9, <1>10, <1>11, <1>12, <1>13,
     <1>14, <1>15, <1>16, <1>17, <1>18, <1>19, <1>20, <1>21, <1>22, <1>23, <1>24,
     <1>25, <1>26
  DEF Next, UserStep, PassStep

\* The invariant holds at first ...
LEMMA InitEstablishes == Init => IInv
<1> SUFFICES ASSUME Init PROVE IInv
  OBVIOUS
<1>1. Types
  BY TimesAssumption DEF Init, Types, Time, Meta
<1>2. Places
  BY DEF Init, Places
<1>3. Ordered
  BY DEF Init, Ordered
<1>4. Owned
  BY DEF Init, Owned
<1> QED
  BY <1>1, <1>2, <1>3, <1>4 DEF IInv

\* ... and is kept by every step.
LEMMA NextPreserves == IInv /\ [Next]_vars => IInv'
<1> SUFFICES ASSUME IInv, [Next]_vars PROVE IInv'
  OBVIOUS
<1>1. CASE Next
  <2>1. Types /\ Places /\ Ordered
    BY DEF IInv
  <2>2. Types' /\ Places' /\ Ordered'
    BY <1>1, <2>1, TypesNext, PlacesNext, OrderedNext
  <2>3. Prompt' => Owned'
    <3>1. SUFFICES ASSUME Prompt' PROVE Owned'
      OBVIOUS
    <3>2. Prompt
      BY <3>1 DEF Prompt
    <3>3. Owned
      BY <3>2 DEF IInv
    <3> QED
      BY <1>1, <2>1, <3>2, <3>3, OwnedNext
  <2> QED
    BY <2>2, <2>3 DEF IInv
<1>2. CASE UNCHANGED vars
  BY <1>2 DEF vars, files, user, pass, IInv, Types, Places, Ordered, Prompt, Owned,
              Orphaned
<1> QED
  BY <1>1, <1>2

\* The invariant holds in every state.
THEOREM Invariance == Spec => []IInv
BY InitEstablishes, NextPreserves, PTL DEF Spec

\* LRU::evict_until takes the entries in the order of their recency as scanned,
\* whatever was used, removed or put aside meanwhile: what is left was used no
\* earlier than what has been evicted.
THEOREM LeastRecentStaysFirst == Spec => []LeastRecentFirst
<1>1. IInv => LeastRecentFirst
  BY DEF IInv, Ordered, LeastRecentFirst
<1> QED
  BY <1>1, Invariance, PTL

\* No store loses its temporary file to a scan, for any number of stores and
\* passes, if a store's pauses and a scan's add up to no more than STALE_TEMP_AGE.
THEOREM PromptStoresStaySafe == Spec => []PromptStoresSucceed
<1>1. IInv => PromptStoresSucceed
  BY DEF IInv, Places, Prompt, Owned, PromptStoresSucceed
<1> QED
  BY <1>1, Invariance, PTL
=============================================================================
