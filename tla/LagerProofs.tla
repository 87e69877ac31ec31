---------------------------- MODULE LagerProofs ----------------------------
(***************************************************************************)
(* Proofs about Lager for every number of threads, processes, addresses,   *)
(* blobs, inodes and faults: types, and the inductive invariant behind     *)
(* EntriesIntact, ReadsIntact and WritersAlone, under the one assumption   *)
(* the naming of temporary files makes: no two live processes that share   *)
(* the directory have the same process id.  NoTempLeak has an invariant of *)
(* its own, and does not need that assumption.                             *)
(***************************************************************************)
EXTENDS Lager, TLAPS

UniquePids == \A p, q \in Process : PidOf[p] = PidOf[q] => p = q

\* A store in flight knows what it stores, and its temporary name was drawn
\* by its own process, from a value of TEMP_SEQ already spent.
StoringOK(t) ==
  pc[t] \in Storing =>
    /\ addr[t] \in Address
    /\ blob[t] \in Blob
    /\ \E s \in 0 .. seq[ProcessOf[t]] - 1 :
         tmp[t] = <<addr[t], PidOf[ProcessOf[t]], s>>

\* Only writers and readers have a file open.
HandleOK(t) ==
  /\ pc[t] \in Writing \cup {"read"} => fd[t] \in Ino
  /\ pc[t] \notin Writing \cup {"read"} => fd[t] = None

\* The inode of a writer is linked to its own temporary name or to none.
NameOK(t) ==
  pc[t] \in Writing =>
    /\ temp[tmp[t]] \in {fd[t], None}
    /\ \A n \in TempName : temp[n] = fd[t] => n = tmp[t]
    /\ \A a \in Address : dest[a] # fd[t] /\ jdest[a] # fd[t]

\* The inode of a writer holds nothing but a part of its blob, all of it once
\* the file is about to be renamed.
DataOK(t) ==
  pc[t] \in Writing =>
    /\ file[fd[t]].from = {blob[t]}
    /\ file[fd[t]].len <= Size[blob[t]]
    /\ pc[t] = "rename" => file[fd[t]] = Whole(blob[t])

ThreadsOK ==
  \A t \in Thread : StoringOK(t) /\ HandleOK(t) /\ NameOK(t) /\ DataOK(t)

\* The inductive invariant of Lager.
IInv == TypeOK /\ ThreadsOK /\ WritersAlone /\ EntriesIntact /\ ReadsIntact
-----------------------------------------------------------------------------
(* What Reclaim does *)

LEMMA ReclaimTyped ==
  ASSUME NEW f \in [Ino -> File], Reclaim(f)
  PROVE  file' \in [Ino -> File]
BY DEF Reclaim, Empty, File

\* A file that something still refers to keeps its content.
LEMMA ReclaimKeeps ==
  ASSUME NEW f, Reclaim(f), NEW i \in Ino, ~Unused(i)'
  PROVE  file'[i] = f[i]
BY DEF Reclaim

\* The temporary name of a store in flight is one there can be.
LEMMA TmpTyped ==
  ASSUME TypeOK, NEW t \in Thread, StoringOK(t), pc[t] \in Storing
  PROVE  tmp[t] \in TempName
<1>1. PICK s \in 0 .. seq[ProcessOf[t]] - 1 :
        tmp[t] = <<addr[t], PidOf[ProcessOf[t]], s>>
  BY DEF StoringOK
<1>2. addr[t] \in Address
  BY DEF StoringOK
<1>3. ProcessOf[t] \in Process /\ PidOf[ProcessOf[t]] \in Pid
  BY ProcessAssumption
<1>4. seq[ProcessOf[t]] \in 0 .. MaxSeq
  BY <1>3 DEF TypeOK
<1>5. s \in 0 .. MaxSeq - 1
  BY <1>1, <1>4, BoundAssumption
<1> QED
  BY <1>1, <1>2, <1>3, <1>5 DEF TempName

\* What t has not changed by a step of another thread.
Same(t) ==
  /\ addr'[t] = addr[t] /\ blob'[t] = blob[t] /\ tmp'[t] = tmp[t]
  /\ seq'[ProcessOf[t]] = seq[ProcessOf[t]]

\* A step that only lets go of names and handles, and moves entries between
\* the store and its committed image.
LettingGo ==
  /\ \A t \in Thread :
       \/ pc'[t] = pc[t] /\ fd'[t] = fd[t] /\ Same(t)
       \/ pc[t] \in Storing /\ pc'[t] = "cleanup" /\ fd'[t] = None /\ Same(t)
       \/ pc'[t] = "idle" /\ fd'[t] = None
  /\ \A n \in TempName : temp'[n] \in {temp[n], None}
  /\ \A a \in Address : /\ dest'[a] \in {dest[a], jdest[a], None}
                        /\ jdest'[a] \in {dest[a], jdest[a]}
  /\ \A i \in Ino : ~Unused(i)' => file'[i] = file[i]

LEMMA LettingGoPreserves ==
  ASSUME IInv, TypeOK', LettingGo
  PROVE  IInv'
<1> USE NoneAssumption, ProcessAssumption DEF Storing, Writing
<1>1. \A t \in Thread : pc'[t] \in Writing \cup {"read"} =>
         pc'[t] = pc[t] /\ fd'[t] = fd[t] /\ Same(t)
  BY DEF LettingGo
<1>2. ASSUME NEW i \in Ino, Intact(i), ~Unused(i)'
      PROVE  Intact(i)'
  BY <1>2 DEF LettingGo, Intact, Whole
<1>3. ThreadsOK'
  <2> SUFFICES ASSUME NEW t \in Thread
               PROVE  (StoringOK(t) /\ HandleOK(t) /\ NameOK(t) /\ DataOK(t))'
    BY DEF ThreadsOK
  <2>1. StoringOK(t) /\ HandleOK(t) /\ NameOK(t) /\ DataOK(t)
    BY DEF IInv, ThreadsOK
  <2>2. StoringOK(t)'
    BY <2>1 DEF LettingGo, Same, StoringOK
  <2>3. HandleOK(t)'
    BY <2>1 DEF LettingGo, HandleOK
  <2>4. NameOK(t)'
    <3> SUFFICES ASSUME pc'[t] \in Writing PROVE NameOK(t)'
      BY DEF NameOK
    <3>1. pc[t] \in Writing /\ fd'[t] = fd[t] /\ tmp'[t] = tmp[t]
      BY <1>1 DEF Same
    <3>2. fd[t] # None
      BY <3>1, <2>1 DEF HandleOK
    <3>3. tmp[t] \in TempName
      BY <2>1, <3>1, TmpTyped DEF IInv
    <3> QED
      BY <2>1, <3>1, <3>2, <3>3 DEF NameOK, LettingGo
  <2>5. DataOK(t)'
    <3> SUFFICES ASSUME pc'[t] \in Writing PROVE DataOK(t)'
      BY DEF DataOK
    <3>1. pc'[t] = pc[t] /\ fd'[t] = fd[t] /\ blob'[t] = blob[t]
      BY <1>1 DEF Same
    <3>2. fd[t] \in Ino /\ ~Unused(fd[t])'
      BY <2>1, <3>1 DEF HandleOK, Unused
    <3>3. file'[fd[t]] = file[fd[t]]
      BY <3>2 DEF LettingGo
    <3> QED
      BY <2>1, <3>1, <3>3 DEF DataOK, Whole
  <2> QED
    BY <2>2, <2>3, <2>4, <2>5
<1>4. WritersAlone'
  <2> SUFFICES ASSUME NEW t \in Thread, NEW u \in Thread, t # u
               PROVE  /\ pc'[t] \in Writing => fd'[t] # fd'[u]
                      /\ pc'[t] \in Storing /\ pc'[u] \in Storing =>
                           tmp'[t] # tmp'[u]
    BY DEF WritersAlone
  <2>1. /\ pc[t] \in Writing => fd[t] # fd[u]
        /\ pc[t] \in Storing /\ pc[u] \in Storing => tmp[t] # tmp[u]
    BY DEF IInv, WritersAlone
  <2>2. pc'[t] \in Writing => fd'[t] # None /\ fd'[u] \in {fd[u], None}
    BY <1>1 DEF IInv, ThreadsOK, HandleOK, LettingGo
  <2> QED
    BY <1>1, <2>1, <2>2 DEF LettingGo, Same
<1>5. EntriesIntact'
  <2> SUFFICES ASSUME NEW a \in Address,
                      NEW i \in {dest'[a], jdest'[a]}, i # None
               PROVE  Intact(i)'
    BY DEF EntriesIntact
  <2>1. i \in Ino /\ Intact(i)
    BY DEF LettingGo, IInv, EntriesIntact, TypeOK
  <2>2. ~Unused(i)'
    BY DEF Unused
  <2> QED
    BY <1>2, <2>1, <2>2
<1>6. ReadsIntact'
  <2> SUFFICES ASSUME NEW t \in Thread, pc'[t] = "read"
               PROVE  Intact(fd[t])'
    BY DEF ReadsIntact
  <2>1. pc[t] = "read" /\ fd'[t] = fd[t]
    BY <1>1
  <2>2. fd[t] \in Ino /\ Intact(fd[t]) /\ ~Unused(fd[t])'
    BY <2>1 DEF IInv, ReadsIntact, ThreadsOK, HandleOK, Unused
  <2> QED
    BY <1>2, <2>1, <2>2
<1> QED
  BY <1>3, <1>4, <1>5, <1>6 DEF IInv
-----------------------------------------------------------------------------
(* Types *)

LEMMA ReturnTyped ==
  ASSUME TypeOK, NEW t \in Thread,
         NEW r \in {"none", "created", "replaced", "missing", "err"},
         Return(t, r)
  PROVE  /\ pc' \in [Thread -> {"idle", "read"} \cup Storing]
         /\ addr' \in [Thread -> Address \cup {None}]
         /\ blob' \in [Thread -> Blob \cup {None}]
         /\ tmp' \in [Thread -> TempName \cup {None}]
         /\ fd' \in [Thread -> Ino \cup {None}]
         /\ existed' \in [Thread -> BOOLEAN]
         /\ ret' \in [Thread -> {"none", "created", "replaced", "missing", "err"}]
BY DEF TypeOK, Return

LEMMA DieTyped ==
  ASSUME TypeOK, NEW S, Die(S)
  PROVE  /\ pc' \in [Thread -> {"idle", "read"} \cup Storing]
         /\ addr' \in [Thread -> Address \cup {None}]
         /\ blob' \in [Thread -> Blob \cup {None}]
         /\ tmp' \in [Thread -> TempName \cup {None}]
         /\ fd' \in [Thread -> Ino \cup {None}]
         /\ existed' \in [Thread -> BOOLEAN]
         /\ ret' \in [Thread -> {"none", "created", "replaced", "missing", "err"}]
BY DEF TypeOK, Die

LEMMA StoreTyped ==
  ASSUME IInv, NEW t \in Thread, Store(t)
  PROVE  TypeOK'
<1> USE SizeAssumption, ProcessAssumption, BoundAssumption DEF disk
<1>1. TypeOK /\ StoringOK(t) /\ HandleOK(t)
  BY DEF IInv, ThreadsOK
<1>2. ASSUME NEW a \in Address, NEW b \in Blob, StoreBegin(t, a, b)
      PROVE  TypeOK'
  <2>1. ProcessOf[t] \in Process /\ seq[ProcessOf[t]] \in 0 .. MaxSeq - 1
    BY <1>1, <1>2 DEF StoreBegin, TypeOK
  <2>2. <<a, PidOf[ProcessOf[t]], seq[ProcessOf[t]]>> \in TempName
    BY <2>1 DEF TempName
  <2>3. seq' \in [Process -> 0 .. MaxSeq]
    BY <1>1, <1>2, <2>1 DEF StoreBegin, TypeOK
  <2> QED
    BY <1>1, <1>2, <2>2, <2>3 DEF StoreBegin, TypeOK, Storing
<1>3. CASE StoreCreate(t)
  <2>1. PICK i \in Ino :
          /\ temp' = [temp EXCEPT ![tmp[t]] = i]
          /\ file' = [file EXCEPT ![i] = [Empty EXCEPT !.from = {blob[t]}]]
          /\ fd' = [fd EXCEPT ![t] = i]
    BY <1>3 DEF StoreCreate
  <2>2. blob[t] \in Blob
    BY <1>1, <1>3 DEF StoringOK, StoreCreate, Storing
  <2>3. [Empty EXCEPT !.from = {blob[t]}] \in File
    BY <2>2 DEF Empty, File
  <2> QED
    BY <1>1, <1>3, <2>1, <2>3 DEF StoreCreate, TypeOK, Storing
<1>4. CASE StoreWrite(t)
  <2>1. blob[t] \in Blob /\ fd[t] \in Ino /\ file[fd[t]] \in File
    BY <1>1, <1>4 DEF StoringOK, HandleOK, StoreWrite, Storing, Writing, TypeOK
  <2>2. [from |-> file[fd[t]].from \cup {blob[t]},
         len |-> file[fd[t]].len + 1, synced |-> FALSE] \in File
    BY <2>1 DEF File
  <2> QED
    BY <1>1, <1>4, <2>1, <2>2 DEF StoreWrite, TypeOK, locals
<1>5. CASE StoreSync(t)
  <2>1. fd[t] \in Ino /\ file[fd[t]] \in File
    BY <1>1, <1>5 DEF HandleOK, StoreSync, Writing, TypeOK
  <2>2. [file[fd[t]] EXCEPT !.synced = TRUE] \in File
    BY <2>1 DEF File
  <2> QED
    BY <1>1, <1>5, <2>1, <2>2 DEF StoreSync, TypeOK, Storing
<1>6. CASE StoreRename(t)
  <2>1. file' \in [Ino -> File]
    BY <1>1, <1>6, ReclaimTyped DEF StoreRename, TypeOK
  <2>2. tmp[t] \in TempName
    BY <1>1, <1>6, TmpTyped DEF StoreRename, Storing
  <2>3. dest' \in [Address -> Ino \cup {None}] /\ temp' \in [TempName -> Ino \cup {None}]
    BY <1>1, <1>6, <2>2 DEF StoreRename, TypeOK
  <2> QED
    BY <1>1, <1>6, <2>1, <2>3, ReturnTyped DEF StoreRename, TypeOK
<1>7. CASE StoreFails(t)
  <2>1. file' \in [Ino -> File]
    BY <1>1, <1>7, ReclaimTyped DEF StoreFails, TypeOK
  <2> QED
    BY <1>1, <1>7, <2>1 DEF StoreFails, TypeOK, Storing
<1>8. CASE StoreCleanup(t)
  <2>1. file' \in [Ino -> File]
    BY <1>1, <1>8, ReclaimTyped DEF StoreCleanup, TypeOK
  <2>2. temp' \in [TempName -> Ino \cup {None}] /\ faults' \in 0 .. MaxFaults
    BY <1>1, <1>8 DEF StoreCleanup, TypeOK
  <2> QED
    BY <1>1, <1>8, <2>1, <2>2, ReturnTyped DEF StoreCleanup, TypeOK
<1> QED
  BY <1>2, <1>3, <1>4, <1>5, <1>6, <1>7, <1>8 DEF Store

LEMMA TypeStep ==
  ASSUME IInv, [Next]_vars
  PROVE  TypeOK'
<1> USE SizeAssumption, ProcessAssumption, BoundAssumption DEF disk
<1>1. TypeOK
  BY DEF IInv
<1>2. ASSUME NEW t \in Thread, Retrieve(t)
      PROVE  TypeOK'
  <2>1. CASE \E a \in Address : RetrieveOpen(t, a)
    BY <1>1, <2>1 DEF RetrieveOpen, TypeOK
  <2>2. CASE \E a \in Address : RetrieveMissing(t, a)
    BY <1>1, <2>2, ReturnTyped DEF RetrieveMissing, TypeOK
  <2>3. CASE RetrieveClose(t)
    <3>1. file' \in [Ino -> File]
      BY <1>1, <2>3, ReclaimTyped DEF RetrieveClose, TypeOK
    <3> QED
      BY <1>1, <2>3, <3>1, ReturnTyped DEF RetrieveClose, TypeOK
  <2> QED
    BY <1>2, <2>1, <2>2, <2>3 DEF Retrieve
<1>3. ASSUME NEW t \in Thread, RefuseCall(t)
      PROVE  TypeOK'
  BY <1>1, <1>3, ReturnTyped DEF RefuseCall, TypeOK
<1>4. ASSUME NEW t \in Thread, NEW a \in Address, Remove(t, a)
      PROVE  TypeOK'
  <2>1. file' \in [Ino -> File]
    BY <1>1, <1>4, ReclaimTyped DEF Remove, TypeOK
  <2> QED
    BY <1>1, <1>4, <2>1, ReturnTyped DEF Remove, TypeOK
<1>5. ASSUME NEW n \in TempName, RemoveStaleTemp(n)
      PROVE  TypeOK'
  <2>1. file' \in [Ino -> File]
    BY <1>1, <1>5, ReclaimTyped DEF RemoveStaleTemp, TypeOK
  <2> QED
    BY <1>1, <1>5, <2>1 DEF RemoveStaleTemp, TypeOK, locals
<1>6. ASSUME NEW p \in Process, Kill(p)
      PROVE  TypeOK'
  <2>1. file' \in [Ino -> File]
    BY <1>1, <1>6, ReclaimTyped DEF Kill, TypeOK
  <2> QED
    BY <1>1, <1>6, <2>1, DieTyped DEF Kill, TypeOK
<1>7. CASE Commit
  <2>1. file' \in [Ino -> File]
    BY <1>1, <1>7, ReclaimTyped DEF Commit, TypeOK
  <2> QED
    BY <1>1, <1>7, <2>1 DEF Commit, TypeOK, locals
<1>8. CASE PowerLoss
  <2>1. PICK lost \in SUBSET Ino :
          Reclaim([i \in Ino |->
            IF i \in lost THEN [file[i] EXCEPT !.len = 0] ELSE file[i]])
    BY <1>8 DEF PowerLoss
  <2>2. [i \in Ino |-> IF i \in lost THEN [file[i] EXCEPT !.len = 0]
                                      ELSE file[i]] \in [Ino -> File]
    BY <1>1 DEF TypeOK, File
  <2>3. file' \in [Ino -> File]
    BY <2>1, <2>2, ReclaimTyped
  <2> QED
    BY <1>1, <1>8, <2>3, DieTyped DEF PowerLoss, TypeOK
<1>9. CASE UNCHANGED vars
  BY <1>1, <1>9 DEF vars, locals, TypeOK
<1> QED
  BY <1>2, <1>3, <1>4, <1>5, <1>6, <1>7, <1>8, <1>9, StoreTyped DEF Next
-----------------------------------------------------------------------------
(* Every step preserves the invariant *)

\* Steps that only let go: failures, returns, evictions, kills and commits.
LEMMA LettingGoSteps ==
  ASSUME IInv,
         \/ \E t \in Thread :
              \/ StoreFails(t) \/ StoreCleanup(t) \/ RetrieveClose(t)
              \/ RefuseCall(t)
              \/ \E a \in Address : RetrieveMissing(t, a) \/ Remove(t, a)
         \/ \E n \in TempName : RemoveStaleTemp(n)
         \/ \E p \in Process : Kill(p)
         \/ Commit
  PROVE  LettingGo
<1> USE ProcessAssumption DEF Same, disk, locals
<1>1. TypeOK
  BY DEF IInv
<1>f. \A f \in [Ino -> File] : Reclaim(f) =>
        \A i \in Ino : ~Unused(i)' => file'[i] = f[i]
  BY ReclaimKeeps
<1>r. ASSUME NEW t \in Thread, NEW r, Return(t, r), UNCHANGED seq
      PROVE  \A u \in Thread :
               \/ pc'[u] = pc[u] /\ fd'[u] = fd[u] /\ Same(u)
               \/ pc'[u] = "idle" /\ fd'[u] = None
  BY <1>1, <1>r DEF Return, TypeOK
<1>4. ASSUME NEW t \in Thread, StoreFails(t)
      PROVE  LettingGo
  <2>1. \A u \in Thread :
          \/ pc'[u] = pc[u] /\ fd'[u] = fd[u] /\ Same(u)
          \/ pc[u] \in Storing /\ pc'[u] = "cleanup" /\ fd'[u] = None /\ Same(u)
    BY <1>1, <1>4 DEF StoreFails, TypeOK, Storing
  <2> QED
    BY <1>1, <1>4, <1>f, <2>1 DEF StoreFails, LettingGo, TypeOK
<1>5. ASSUME NEW t \in Thread, StoreCleanup(t)
      PROVE  LettingGo
  <2>1. \A n \in TempName : temp'[n] \in {temp[n], None}
    BY <1>1, <1>5 DEF StoreCleanup, TypeOK
  <2> QED
    BY <1>1, <1>5, <1>f, <1>r, <2>1 DEF StoreCleanup, LettingGo, TypeOK
<1>6. ASSUME NEW t \in Thread, RetrieveClose(t)
      PROVE  LettingGo
  BY <1>1, <1>6, <1>f, <1>r DEF RetrieveClose, LettingGo, TypeOK
<1>7. ASSUME NEW t \in Thread, RefuseCall(t)
      PROVE  LettingGo
  BY <1>1, <1>7, <1>r DEF RefuseCall, LettingGo, TypeOK
<1>8. ASSUME NEW t \in Thread, NEW a \in Address, RetrieveMissing(t, a)
      PROVE  LettingGo
  BY <1>1, <1>8, <1>r DEF RetrieveMissing, LettingGo, TypeOK
<1>9. ASSUME NEW t \in Thread, NEW a \in Address, Remove(t, a)
      PROVE  LettingGo
  <2>1. \A b \in Address : dest'[b] \in {dest[b], None}
    BY <1>1, <1>9 DEF Remove, TypeOK
  <2> QED
    BY <1>1, <1>9, <1>f, <1>r, <2>1 DEF Remove, LettingGo, TypeOK
<1>10. ASSUME NEW n \in TempName, RemoveStaleTemp(n)
      PROVE  LettingGo
  <2>1. \A m \in TempName : temp'[m] \in {temp[m], None}
    BY <1>1, <1>10 DEF RemoveStaleTemp, TypeOK
  <2> QED
    BY <1>1, <1>10, <1>f, <2>1 DEF RemoveStaleTemp, LettingGo, TypeOK
<1>11. ASSUME NEW p \in Process, Kill(p)
      PROVE  LettingGo
  <2>1. \A u \in Thread :
          \/ pc'[u] = pc[u] /\ fd'[u] = fd[u] /\ Same(u)
          \/ pc'[u] = "idle" /\ fd'[u] = None
    BY <1>1, <1>11 DEF Kill, Die, TypeOK
  <2> QED
    BY <1>1, <1>11, <1>f, <2>1 DEF Kill, LettingGo, TypeOK
<1>12. CASE Commit
  BY <1>1, <1>12, <1>f DEF Commit, LettingGo, TypeOK
<1> QED
  BY <1>4, <1>5, <1>6, <1>7, <1>8, <1>9, <1>10, <1>11, <1>12

\* The name drawn by StoreBegin is in nobody else's hands: here the process
\* ids and the counter do their work.
LEMMA StoreBeginPreserves ==
  ASSUME IInv, UniquePids, NEW t \in Thread, NEW a \in Address, NEW b \in Blob,
         StoreBegin(t, a, b), TypeOK'
  PROVE  IInv'
<1> USE NoneAssumption, ProcessAssumption DEF Storing, Writing, disk
<1>1. TypeOK
  BY DEF IInv
<1>2. /\ pc[t] = "idle" /\ pc'[t] = "create" /\ fd'[t] = None
      /\ addr'[t] = a /\ blob'[t] = b
      /\ tmp'[t] = <<a, PidOf[ProcessOf[t]], seq[ProcessOf[t]]>>
      /\ seq'[ProcessOf[t]] = seq[ProcessOf[t]] + 1
  BY <1>1 DEF StoreBegin, TypeOK, IInv, ThreadsOK, HandleOK
<1>3. \A u \in Thread \ {t} :
        /\ pc'[u] = pc[u] /\ fd'[u] = fd[u] /\ addr'[u] = addr[u]
        /\ blob'[u] = blob[u] /\ tmp'[u] = tmp[u]
  BY <1>1 DEF StoreBegin, TypeOK
<1>4. \A p \in Process : seq[p] \in Nat /\ seq'[p] \in Nat /\ seq'[p] >= seq[p]
  BY <1>1 DEF StoreBegin, TypeOK
<1>5. UNCHANGED <<dest, temp, jdest, jtemp, file>>
  BY DEF StoreBegin
<1>6. \A u \in Thread : StoringOK(u)'
  <2> SUFFICES ASSUME NEW u \in Thread, pc'[u] \in Storing
               PROVE  StoringOK(u)'
    BY DEF StoringOK
  <2>1. CASE u = t
    BY <2>1, <1>2, <1>4 DEF StoringOK
  <2>2. CASE u # t
    <3>1. PICK s \in 0 .. seq[ProcessOf[u]] - 1 :
            tmp[u] = <<addr[u], PidOf[ProcessOf[u]], s>>
      BY <2>2, <1>3 DEF IInv, ThreadsOK, StoringOK
    <3>2. s \in 0 .. seq'[ProcessOf[u]] - 1
      BY <1>4
    <3> QED
      BY <2>2, <1>3, <3>1, <3>2 DEF IInv, ThreadsOK, StoringOK
  <2> QED
    BY <2>1, <2>2
<1>7. ThreadsOK'
  <2> SUFFICES ASSUME NEW u \in Thread
               PROVE  (HandleOK(u) /\ NameOK(u) /\ DataOK(u))'
    BY <1>6 DEF ThreadsOK
  <2>1. CASE u = t
    BY <1>2, <2>1 DEF HandleOK, NameOK, DataOK
  <2>2. CASE u # t
    <3>1. HandleOK(u) /\ NameOK(u) /\ DataOK(u)
      BY DEF IInv, ThreadsOK
    <3> QED
      BY <1>3, <1>5, <2>2, <3>1 DEF HandleOK, NameOK, DataOK, Whole
  <2> QED
    BY <2>1, <2>2
<1>8. \A u \in Thread \ {t} : pc[u] \in Storing => tmp[u] # tmp'[t]
  <2> SUFFICES ASSUME NEW u \in Thread \ {t}, pc[u] \in Storing,
                      tmp[u] = tmp'[t]
               PROVE  FALSE
    OBVIOUS
  <2>1. PICK s \in 0 .. seq[ProcessOf[u]] - 1 :
          tmp[u] = <<addr[u], PidOf[ProcessOf[u]], s>>
    BY DEF IInv, ThreadsOK, StoringOK
  <2>2. PidOf[ProcessOf[u]] = PidOf[ProcessOf[t]] /\ s = seq[ProcessOf[t]]
    <3>1. <<addr[u], PidOf[ProcessOf[u]], s>> =
            <<a, PidOf[ProcessOf[t]], seq[ProcessOf[t]]>>
      BY <2>1, <1>2
    <3> QED
      BY <3>1
  <2>3. ProcessOf[u] = ProcessOf[t]
    BY <2>2 DEF UniquePids
  <2> QED
    BY <2>1, <2>2, <2>3, <1>4
<1>9. WritersAlone'
  <2>1. \A u \in Thread : pc[u] \in Writing => fd[u] # None
    BY DEF IInv, ThreadsOK, HandleOK
  <2> QED
    BY <1>2, <1>3, <1>8, <2>1 DEF IInv, WritersAlone
<1>10. \A i : Intact(i)' <=> Intact(i)
  BY <1>5 DEF Intact, Whole
<1>11. EntriesIntact'
  BY <1>5, <1>10 DEF IInv, EntriesIntact
<1>12. ReadsIntact'
  BY <1>2, <1>3, <1>10 DEF IInv, ReadsIntact
<1> QED
  BY <1>7, <1>9, <1>11, <1>12 DEF IInv

\* The inode handed out is nobody else's.
LEMMA StoreCreatePreserves ==
  ASSUME IInv, NEW t \in Thread, StoreCreate(t), TypeOK'
  PROVE  IInv'
<1> USE NoneAssumption, ProcessAssumption, SizeAssumption DEF Storing, Writing
<1>1. TypeOK /\ StoringOK(t)
  BY DEF IInv, ThreadsOK
<1>2. PICK i \in Ino :
        /\ Unused(i)
        /\ temp' = [temp EXCEPT ![tmp[t]] = i]
        /\ file' = [file EXCEPT ![i] = [Empty EXCEPT !.from = {blob[t]}]]
        /\ fd' = [fd EXCEPT ![t] = i]
  BY DEF StoreCreate
<1>3. /\ pc[t] = "create" /\ pc' = [pc EXCEPT ![t] = "write"]
      /\ temp[tmp[t]] = None
      /\ UNCHANGED <<dest, jdest, jtemp, seq, addr, blob, tmp>>
  BY DEF StoreCreate
<1>4. tmp[t] \in TempName /\ blob[t] \in Blob
  BY <1>1, <1>3, TmpTyped DEF StoringOK
<1>5. /\ pc'[t] = "write" /\ fd'[t] = i /\ temp'[tmp[t]] = i /\ tmp' = tmp
      /\ file'[i] = [from |-> {blob[t]}, len |-> 0, synced |-> FALSE]
      /\ \A u \in Thread \ {t} : pc'[u] = pc[u] /\ fd'[u] = fd[u] /\ fd[u] # i
      /\ \A n \in TempName \ {tmp[t]} : temp'[n] = temp[n]
      /\ \A n \in TempName : temp[n] # i
      /\ \A a \in Address : dest[a] # i /\ jdest[a] # i
      /\ \A j \in Ino \ {i} : file'[j] = file[j]
  <2>1. pc'[t] = "write" /\ fd'[t] = i /\ temp'[tmp[t]] = i /\ tmp' = tmp
    BY <1>1, <1>2, <1>3, <1>4 DEF TypeOK
  <2>2. file'[i] = [from |-> {blob[t]}, len |-> 0, synced |-> FALSE]
    BY <1>1, <1>2 DEF TypeOK, Empty
  <2>3. /\ \A u \in Thread \ {t} : pc'[u] = pc[u] /\ fd'[u] = fd[u] /\ fd[u] # i
        /\ \A n \in TempName \ {tmp[t]} : temp'[n] = temp[n]
        /\ \A j \in Ino \ {i} : file'[j] = file[j]
    BY <1>1, <1>2, <1>3 DEF TypeOK, Unused
  <2>4. /\ \A n \in TempName : temp[n] # i
        /\ \A a \in Address : dest[a] # i /\ jdest[a] # i
    BY <1>2 DEF Unused
  <2> QED
    BY <2>1, <2>2, <2>3, <2>4
<1>6. ASSUME NEW j \in Ino \ {i}, Intact(j)
      PROVE  Intact(j)'
  BY <1>5, <1>6 DEF Intact, Whole
<1>7. ThreadsOK'
  <2> SUFFICES ASSUME NEW u \in Thread
               PROVE  (StoringOK(u) /\ HandleOK(u) /\ NameOK(u) /\ DataOK(u))'
    BY DEF ThreadsOK
  <2>1. StoringOK(u) /\ HandleOK(u) /\ NameOK(u) /\ DataOK(u)
    BY DEF IInv, ThreadsOK
  <2>2. StoringOK(u)' /\ HandleOK(u)'
    BY <2>1, <1>3, <1>5 DEF StoringOK, HandleOK
  <2>3. CASE u = t
    <3>1. Size[blob[t]] \in Nat
      BY <1>4
    <3> QED
      BY <1>3, <1>5, <2>2, <2>3, <3>1 DEF NameOK, DataOK
  <2>4. CASE u # t
    <3> SUFFICES ASSUME pc[u] \in Writing
                 PROVE  NameOK(u)' /\ DataOK(u)'
      BY <1>5, <2>2, <2>4 DEF NameOK, DataOK
    <3>1. tmp[u] \in TempName /\ tmp[u] # tmp[t]
      BY <1>3, <2>1, <2>4, <1>1, TmpTyped DEF IInv, WritersAlone
    <3>2. fd[u] \in Ino \ {i}
      BY <1>5, <2>1, <2>4 DEF HandleOK
    <3>3. NameOK(u)'
      BY <1>3, <1>5, <2>1, <2>4, <3>1, <3>2 DEF NameOK
    <3>4. DataOK(u)'
      BY <1>3, <1>5, <2>1, <2>4, <3>2 DEF DataOK, Whole
    <3> QED
      BY <3>3, <3>4
  <2> QED
    BY <2>2, <2>3, <2>4
<1>8. WritersAlone'
  BY <1>3, <1>5 DEF IInv, WritersAlone
<1>9. EntriesIntact'
  BY <1>1, <1>3, <1>5, <1>6 DEF IInv, EntriesIntact, TypeOK
<1>10. ReadsIntact'
  <2> SUFFICES ASSUME NEW u \in Thread, pc'[u] = "read"
               PROVE  Intact(fd[u])'
    BY DEF ReadsIntact
  <2>1. pc[u] = "read" /\ fd'[u] = fd[u] /\ fd[u] \in Ino \ {i}
    BY <1>5 DEF IInv, ThreadsOK, HandleOK
  <2> QED
    BY <1>6, <2>1 DEF IInv, ReadsIntact
<1> QED
  BY <1>7, <1>8, <1>9, <1>10 DEF IInv

\* A writer only changes its own inode, which is no entry and nobody reads.
LEMMA StoreWritePreserves ==
  ASSUME IInv, NEW t \in Thread, StoreWrite(t) \/ StoreSync(t), TypeOK'
  PROVE  IInv'
<1> USE NoneAssumption, ProcessAssumption, SizeAssumption DEF Storing, Writing, locals
<1>1. TypeOK /\ StoringOK(t) /\ HandleOK(t) /\ NameOK(t) /\ DataOK(t)
  BY DEF IInv, ThreadsOK
<1>2. /\ pc[t] = "write" /\ pc'[t] \in Writing
      /\ \A u \in Thread \ {t} : pc'[u] = pc[u]
      /\ UNCHANGED <<dest, temp, jdest, jtemp, seq, addr, blob, tmp, fd>>
  BY <1>1 DEF StoreWrite, StoreSync, TypeOK
<1>3. \A j \in Ino \ {fd[t]} : file'[j] = file[j]
  BY <1>1 DEF StoreWrite, StoreSync, TypeOK
<1>4. /\ fd[t] \in Ino /\ blob[t] \in Blob
      /\ file[fd[t]] \in File /\ Size[blob[t]] \in Nat
  BY <1>1, <1>2 DEF HandleOK, StoringOK, TypeOK
<1>5. DataOK(t)'
  <2>1. CASE StoreWrite(t)
    BY <1>1, <1>2, <1>4, <2>1 DEF DataOK, StoreWrite, TypeOK, File
  <2>2. CASE StoreSync(t)
    <3>1. file[fd[t]].from = {blob[t]} /\ file[fd[t]].len = Size[blob[t]]
      <4>1. file[fd[t]].len \in Nat
        BY <1>4 DEF File
      <4>2. file[fd[t]].len >= Size[blob[t]]
        BY <2>2 DEF StoreSync
      <4> QED
        BY <1>1, <1>2, <1>4, <4>1, <4>2 DEF DataOK
    <3>2. file'[fd[t]] = [file[fd[t]] EXCEPT !.synced = TRUE]
      BY <1>1, <1>4, <2>2 DEF StoreSync, TypeOK
    <3>3. file'[fd[t]] = [from |-> {blob[t]}, len |-> Size[blob[t]],
                          synced |-> TRUE]
      BY <1>4, <3>1, <3>2 DEF File
    <3> QED
      BY <1>2, <1>4, <3>3 DEF DataOK, Whole
  <2> QED
    BY <2>1, <2>2
<1>6. ASSUME NEW j \in Ino \ {fd[t]}, Intact(j)
      PROVE  Intact(j)'
  BY <1>3, <1>6 DEF Intact, Whole
<1>7. ThreadsOK'
  <2> SUFFICES ASSUME NEW u \in Thread
               PROVE  (StoringOK(u) /\ HandleOK(u) /\ NameOK(u) /\ DataOK(u))'
    BY DEF ThreadsOK
  <2>1. StoringOK(u) /\ HandleOK(u) /\ NameOK(u) /\ DataOK(u)
    BY DEF IInv, ThreadsOK
  <2>2. CASE u = t
    BY <1>2, <1>5, <2>1, <2>2 DEF StoringOK, HandleOK, NameOK
  <2>3. CASE u # t
    <3>1. pc[u] \in Writing => fd[u] \in Ino \ {fd[t]}
      BY <1>2, <2>1, <2>3 DEF IInv, WritersAlone, HandleOK
    <3> QED
      BY <1>2, <1>3, <2>1, <2>3, <3>1
        DEF StoringOK, HandleOK, NameOK, DataOK, Whole
  <2> QED
    BY <2>2, <2>3
<1>8. WritersAlone'
  BY <1>2 DEF IInv, WritersAlone
<1>9. EntriesIntact'
  BY <1>1, <1>2, <1>6 DEF IInv, EntriesIntact, TypeOK, NameOK
<1>10. ReadsIntact'
  <2> SUFFICES ASSUME NEW u \in Thread, pc'[u] = "read"
               PROVE  Intact(fd[u])'
    BY DEF ReadsIntact
  <2>1. u # t /\ pc[u] = "read"
    BY <1>2
  <2>2. fd[u] \in Ino \ {fd[t]}
    BY <1>2, <2>1 DEF IInv, ThreadsOK, HandleOK, WritersAlone
  <2> QED
    BY <1>2, <1>6, <2>1, <2>2 DEF IInv, ReadsIntact
<1> QED
  BY <1>7, <1>8, <1>9, <1>10 DEF IInv

\* The file renamed is the one this thread wrote, whole and synced.
LEMMA StoreRenamePreserves ==
  ASSUME IInv, NEW t \in Thread, StoreRename(t), TypeOK'
  PROVE  IInv'
<1> USE NoneAssumption, ProcessAssumption DEF Storing, Writing
<1>1. TypeOK /\ StoringOK(t) /\ HandleOK(t) /\ NameOK(t) /\ DataOK(t)
  BY DEF IInv, ThreadsOK
<1>2. /\ pc[t] = "rename" /\ temp[tmp[t]] = fd[t]
      /\ fd[t] \in Ino /\ addr[t] \in Address /\ blob[t] \in Blob
      /\ tmp[t] \in TempName
  BY <1>1, TmpTyped DEF StoreRename, NameOK, HandleOK, StoringOK
<1>3. /\ dest'[addr[t]] = fd[t]
      /\ \A a \in Address \ {addr[t]} : dest'[a] = dest[a]
      /\ temp'[tmp[t]] = None
      /\ \A n \in TempName \ {tmp[t]} : temp'[n] = temp[n]
      /\ UNCHANGED <<jdest, seq>>
  BY <1>1, <1>2 DEF StoreRename, TypeOK
<1>4. /\ pc'[t] = "idle" /\ fd'[t] = None
      /\ \A u \in Thread \ {t} :
           /\ pc'[u] = pc[u] /\ fd'[u] = fd[u] /\ addr'[u] = addr[u]
           /\ blob'[u] = blob[u] /\ tmp'[u] = tmp[u]
  BY <1>1 DEF StoreRename, Return, TypeOK
<1>5. \A i \in Ino : ~Unused(i)' => file'[i] = file[i]
  BY ReclaimKeeps DEF StoreRename
<1>6. ASSUME NEW i \in Ino, Intact(i), ~Unused(i)'
      PROVE  Intact(i)'
  BY <1>5, <1>6 DEF Intact, Whole
<1>7. ThreadsOK'
  <2> SUFFICES ASSUME NEW u \in Thread
               PROVE  (StoringOK(u) /\ HandleOK(u) /\ NameOK(u) /\ DataOK(u))'
    BY DEF ThreadsOK
  <2>1. StoringOK(u) /\ HandleOK(u) /\ NameOK(u) /\ DataOK(u)
    BY DEF IInv, ThreadsOK
  <2>2. CASE u = t
    BY <1>4, <2>2 DEF StoringOK, HandleOK, NameOK, DataOK
  <2>3. CASE u # t
    <3>1. StoringOK(u)' /\ HandleOK(u)'
      BY <1>3, <1>4, <2>1, <2>3 DEF StoringOK, HandleOK
    <3> SUFFICES ASSUME pc[u] \in Writing
                 PROVE  NameOK(u)' /\ DataOK(u)'
      BY <1>4, <2>3, <3>1 DEF NameOK, DataOK
    <3>2. /\ fd[u] \in Ino /\ fd[u] # fd[t]
          /\ tmp[u] \in TempName /\ tmp[u] # tmp[t]
      BY <1>1, <1>2, <2>1, <2>3, TmpTyped DEF HandleOK, IInv, WritersAlone
    <3>3. NameOK(u)'
      BY <1>3, <1>4, <2>1, <2>3, <3>2 DEF NameOK
    <3>4. file'[fd[u]] = file[fd[u]]
      BY <1>4, <1>5, <2>3, <3>2 DEF Unused
    <3>5. DataOK(u)'
      BY <1>4, <2>1, <2>3, <3>4 DEF DataOK, Whole
    <3> QED
      BY <3>3, <3>5
  <2> QED
    BY <2>2, <2>3
<1>8. WritersAlone'
  <2>1. \A u \in Thread : pc[u] \in Writing => fd[u] # None
    BY DEF IInv, ThreadsOK, HandleOK
  <2> QED
    BY <1>4, <2>1 DEF IInv, WritersAlone
<1>9. EntriesIntact'
  <2> SUFFICES ASSUME NEW a \in Address,
                      NEW i \in {dest'[a], jdest'[a]}, i # None
               PROVE  Intact(i)'
    BY DEF EntriesIntact
  <2>1. ~Unused(i)'
    BY DEF Unused
  <2>2. i \in Ino /\ Intact(i)
    <3>1. CASE i = fd[t]
      BY <1>1, <1>2, <3>1 DEF DataOK, Intact
    <3>2. CASE i # fd[t]
      BY <1>1, <1>3, <3>2 DEF IInv, EntriesIntact, TypeOK
    <3> QED
      BY <3>1, <3>2
  <2> QED
    BY <1>6, <2>1, <2>2
<1>10. ReadsIntact'
  <2> SUFFICES ASSUME NEW u \in Thread, pc'[u] = "read"
               PROVE  Intact(fd[u])'
    BY DEF ReadsIntact
  <2>1. u # t /\ pc[u] = "read" /\ fd'[u] = fd[u]
    BY <1>4
  <2>2. fd[u] \in Ino /\ Intact(fd[u]) /\ ~Unused(fd[u])'
    BY <2>1 DEF IInv, ReadsIntact, ThreadsOK, HandleOK, Unused
  <2> QED
    BY <1>6, <2>1, <2>2
<1> QED
  BY <1>7, <1>8, <1>9, <1>10 DEF IInv

\* An entry that is opened is nobody's unfinished file.
LEMMA RetrieveOpenPreserves ==
  ASSUME IInv, NEW t \in Thread, NEW a \in Address, RetrieveOpen(t, a), TypeOK'
  PROVE  IInv'
<1> USE NoneAssumption, ProcessAssumption DEF Storing, Writing, disk
<1>1. TypeOK
  BY DEF IInv
<1>2. /\ pc[t] = "idle" /\ pc'[t] = "read" /\ fd'[t] = dest[a]
      /\ dest[a] \in Ino
      /\ \A u \in Thread \ {t} : pc'[u] = pc[u] /\ fd'[u] = fd[u] /\ addr'[u] = addr[u]
      /\ UNCHANGED <<dest, temp, jdest, file, seq, blob, tmp>>
  BY <1>1 DEF RetrieveOpen, TypeOK
<1>3. ThreadsOK'
  <2> SUFFICES ASSUME NEW u \in Thread
               PROVE  (StoringOK(u) /\ HandleOK(u) /\ NameOK(u) /\ DataOK(u))'
    BY DEF ThreadsOK
  <2>1. CASE u = t
    BY <1>2, <2>1 DEF StoringOK, HandleOK, NameOK, DataOK
  <2>2. CASE u # t
    <3>1. StoringOK(u) /\ HandleOK(u) /\ NameOK(u) /\ DataOK(u)
      BY DEF IInv, ThreadsOK
    <3> QED
      BY <1>2, <2>2, <3>1 DEF StoringOK, HandleOK, NameOK, DataOK, Whole
  <2> QED
    BY <2>1, <2>2
<1>4. WritersAlone'
  <2>1. \A u \in Thread : pc[u] \in Writing => fd[u] # dest[a]
    BY DEF IInv, ThreadsOK, NameOK
  <2> QED
    BY <1>2, <2>1 DEF IInv, WritersAlone
<1>5. \A i : Intact(i)' <=> Intact(i)
  BY <1>2 DEF Intact, Whole
<1>6. EntriesIntact' /\ ReadsIntact'
  <2>1. Intact(dest[a])
    BY <1>2 DEF IInv, EntriesIntact
  <2> QED
    BY <1>2, <1>5, <2>1 DEF IInv, EntriesIntact, ReadsIntact
<1> QED
  BY <1>3, <1>4, <1>6 DEF IInv

\* Only what was synced is certain to be there after a power failure, and
\* nothing else has a committed name.
LEMMA PowerLossPreserves ==
  ASSUME IInv, PowerLoss, TypeOK'
  PROVE  IInv'
<1> USE NoneAssumption DEF Storing, Writing
<1>1. TypeOK
  BY DEF IInv
<1>2. \A t \in Thread : pc'[t] = "idle" /\ fd'[t] = None
  BY DEF PowerLoss, Die
<1>3. ThreadsOK' /\ WritersAlone' /\ ReadsIntact'
  BY <1>2 DEF ThreadsOK, StoringOK, HandleOK, NameOK, DataOK,
              WritersAlone, ReadsIntact
<1>4. EntriesIntact'
  <2> SUFFICES ASSUME NEW a \in Address, jdest[a] # None
               PROVE  Intact(jdest[a])'
    BY DEF EntriesIntact, PowerLoss
  <2> DEFINE i == jdest[a]
  <2>1. jdest' = jdest
    BY DEF PowerLoss
  <2>2. i \in Ino /\ Intact(i)
    BY <1>1 DEF TypeOK, IInv, EntriesIntact
  <2>3. ~Unused(i)'
    BY DEF Unused, PowerLoss
  <2>4. PICK lost \in SUBSET {j \in Ino : file[j].len > 0 /\ ~file[j].synced} :
          Reclaim([j \in Ino |->
            IF j \in lost THEN [file[j] EXCEPT !.len = 0] ELSE file[j]])
    BY DEF PowerLoss
  <2>5. i \notin lost
    BY <2>2, <2>4 DEF Intact, Whole
  <2>6. file'[i] = file[i]
    <3> DEFINE f == [j \in Ino |->
            IF j \in lost THEN [file[j] EXCEPT !.len = 0] ELSE file[j]]
    <3>1. f[i] = file[i]
      BY <2>2, <2>5
    <3>2. Reclaim(f)
      BY <2>4
    <3> HIDE DEF f
    <3>3. file'[i] = f[i]
      BY <2>2, <2>3, <3>2, <2>1 DEF Reclaim
    <3> QED
      BY <3>1, <3>3
  <2>7. Intact(i)'
    BY <2>2, <2>6 DEF Intact, Whole, PowerLoss
  <2> QED
    BY <2>7 DEF PowerLoss
<1> QED
  BY <1>3, <1>4 DEF IInv

LEMMA InitIInv == Init => IInv
BY BoundAssumption, NoneAssumption
   DEF Init, IInv, TypeOK, ThreadsOK, StoringOK, HandleOK, NameOK, DataOK,
       WritersAlone, EntriesIntact, ReadsIntact, Storing, Writing, Empty, File

LEMMA StepIInv ==
  ASSUME UniquePids, IInv, [Next]_vars
  PROVE  IInv'
<1>1. TypeOK'
  BY TypeStep
<1>2. ASSUME NEW t \in Thread, Store(t)
      PROVE  IInv'
  BY <1>1, <1>2, StoreBeginPreserves, StoreCreatePreserves, StoreWritePreserves,
     StoreRenamePreserves, LettingGoSteps, LettingGoPreserves DEF Store
<1>3. ASSUME NEW t \in Thread, Retrieve(t)
      PROVE  IInv'
  BY <1>1, <1>3, RetrieveOpenPreserves, LettingGoSteps, LettingGoPreserves
     DEF Retrieve
<1>4. CASE \/ \E t \in Thread : \/ RefuseCall(t)
                                \/ \E a \in Address : Remove(t, a)
           \/ \E n \in TempName : RemoveStaleTemp(n)
           \/ \E p \in Process : Kill(p)
           \/ Commit
  BY <1>1, <1>4, LettingGoSteps, LettingGoPreserves
<1>5. CASE PowerLoss
  BY <1>1, <1>5, PowerLossPreserves
<1>6. CASE UNCHANGED vars
  <2>1. LettingGo
    BY <1>6 DEF vars, disk, locals, LettingGo, Same
  <2> QED
    BY <1>1, <2>1, LettingGoPreserves
<1> QED
  BY <1>2, <1>3, <1>4, <1>5, <1>6 DEF Next

-----------------------------------------------------------------------------
(* The theorems *)

\* IInv, of which the other theorems are corollaries: a store in flight has a name
\* that no other store has, an inode that no other name or entry has, and its own
\* blob in it, synced when it is about to be renamed (lager.rs:38-64).
THEOREM InvariantHolds == UniquePids => (Spec => []IInv)
<1> SUFFICES ASSUME UniquePids PROVE Spec => []IInv
  OBVIOUS
<1>1. IInv /\ [Next]_vars => IInv'
  BY StepIInv
<1> QED
  BY <1>1, InitIInv, PTL DEF Spec

\* Every variable keeps its type, in every run of any number of threads and
\* processes with distinct process ids.
THEOREM TypeCorrect == UniquePids => (Spec => []TypeOK)
<1>1. IInv => TypeOK
  BY DEF IInv
<1> QED
  BY <1>1, InvariantHolds, PTL

\* No entry, live or as a power failure would leave it, is ever torn or a mix
\* of two writes (lager.rs:38-64).
THEOREM EntriesStayIntact == UniquePids => (Spec => []EntriesIntact)
<1>1. IInv => EntriesIntact
  BY DEF IInv
<1> QED
  BY <1>1, InvariantHolds, PTL

\* A file handed out by retrieve stays one whole blob until it is closed,
\* whatever is stored, removed or evicted meanwhile (lager.rs:66-81).
THEOREM ReadsStayIntact == UniquePids => (Spec => []ReadsIntact)
<1>1. IInv => ReadsIntact
  BY DEF IInv
<1> QED
  BY <1>1, InvariantHolds, PTL

\* Writers never share an inode or a temporary name (lager.rs:49-55).
THEOREM WritersStayAlone == UniquePids => (Spec => []WritersAlone)
<1>1. IInv => WritersAlone
  BY DEF IInv
<1> QED
  BY <1>1, InvariantHolds, PTL

-----------------------------------------------------------------------------
(* Temporary files *)

\* As much of the types as the temporary files need; it does not depend on the
\* process ids.
TempTypes ==
  /\ temp = [n \in TempName |-> temp[n]]
  /\ jtemp = [n \in TempName |-> jtemp[n]]
  /\ pc = [t \in Thread |-> pc[t]]
  /\ tmp = [t \in Thread |-> tmp[t]]
  /\ faults \in Nat

\* A step of t other than its last keeps its name, and a step of another thread
\* does not concern it.
LEMMA StoreLeaksNoTemp ==
  ASSUME TempTypes, NoTempLeak, NEW t \in Thread, Store(t)
  PROVE  TempTypes' /\ NoTempLeak'
<1> USE DEF TempTypes, NoTempLeak
<1>1. ASSUME NEW a \in Address, NEW b \in Blob, StoreBegin(t, a, b)
      PROVE  TempTypes' /\ NoTempLeak'
  BY <1>1 DEF StoreBegin, disk, Storing
<1>2. CASE StoreCreate(t)
  BY <1>2 DEF StoreCreate, Storing
<1>3. CASE StoreWrite(t) \/ StoreSync(t)
  BY <1>3 DEF StoreWrite, StoreSync, locals, Storing
<1>4. CASE StoreRename(t)
  BY <1>4 DEF StoreRename, Return, Storing
<1>5. CASE StoreFails(t)
  BY <1>5 DEF StoreFails, Storing
<1>6. CASE StoreCleanup(t)
  <2>1. TempTypes'
    <3>1. temp' = [temp EXCEPT ![tmp[t]] = None] \/ temp' = temp
      BY <1>6 DEF StoreCleanup
    <3>2. temp' = [n \in TempName |-> temp'[n]]
      BY <3>1
    <3>3. jtemp' = jtemp /\ faults' \in Nat
      BY <1>6 DEF StoreCleanup
    <3>4. pc' = [pc EXCEPT ![t] = "idle"] /\ tmp' = [tmp EXCEPT ![t] = None]
      BY <1>6 DEF StoreCleanup, Return
    <3> QED
      BY <3>2, <3>3, <3>4
  <2>2. CASE faults' = faults + 1
    BY <2>1, <2>2
  <2>3. CASE temp' = [temp EXCEPT ![tmp[t]] = None]
    <3>1. \A u \in Thread : u # t => pc'[u] = pc[u] /\ tmp'[u] = tmp[u]
      BY <1>6 DEF StoreCleanup, Return
    <3>2. faults' = 0 => faults = 0
      BY <1>6 DEF StoreCleanup
    <3> QED
      BY <2>1, <2>3, <3>1, <3>2
  <2> QED
    BY <1>6, <2>2, <2>3 DEF StoreCleanup
<1> QED
  BY <1>1, <1>2, <1>3, <1>4, <1>5, <1>6 DEF Store

LEMMA StepLeaksNoTemp ==
  ASSUME TempTypes, NoTempLeak, [Next]_vars
  PROVE  TempTypes' /\ NoTempLeak'
<1> USE DEF TempTypes, NoTempLeak
<1>1. ASSUME NEW t \in Thread, Store(t) PROVE TempTypes' /\ NoTempLeak'
  BY <1>1, StoreLeaksNoTemp
<1>2. ASSUME NEW t \in Thread, Retrieve(t) PROVE TempTypes' /\ NoTempLeak'
  <2>1. pc[t] \notin Storing /\ pc'[t] \notin Storing
    BY <1>2 DEF Retrieve, RetrieveOpen, RetrieveMissing, RetrieveClose, Return,
                Storing
  <2> QED
    BY <1>2, <2>1
    DEF Retrieve, RetrieveOpen, RetrieveMissing, RetrieveClose, Return, disk
<1>3. ASSUME NEW t \in Thread, RefuseCall(t) \/ \E a \in Address : Remove(t, a)
      PROVE  TempTypes' /\ NoTempLeak'
  BY <1>3 DEF RefuseCall, Remove, Return, Storing, disk
<1>4. ASSUME NEW n \in TempName, RemoveStaleTemp(n)
      PROVE  TempTypes' /\ NoTempLeak'
  BY <1>4 DEF RemoveStaleTemp, locals
<1>5. ASSUME NEW p \in Process, Kill(p) PROVE TempTypes' /\ NoTempLeak'
  BY <1>5 DEF Kill, Die
<1>6. CASE Commit
  BY <1>6 DEF Commit, locals
<1>7. CASE PowerLoss
  BY <1>7 DEF PowerLoss, Die
<1>8. CASE UNCHANGED vars
  BY <1>8 DEF vars, disk, locals
<1> QED
  BY <1>1, <1>2, <1>3, <1>4, <1>5, <1>6, <1>7, <1>8 DEF Next

\* store_at cleans up after itself on every path (lager.rs:54-63): while nothing
\* has been killed and no clean-up has failed, every temporary file belongs to a
\* store that is still running, whatever process ids the processes have.
THEOREM StoresLeakNoTemp == Spec => []NoTempLeak
<1>1. Init => TempTypes /\ NoTempLeak
  BY DEF Init, TempTypes, NoTempLeak
<1>2. TempTypes /\ NoTempLeak /\ [Next]_vars => TempTypes' /\ NoTempLeak'
  BY StepLeaksNoTemp
<1> QED
  BY <1>1, <1>2, PTL DEF Spec

-----------------------------------------------------------------------------
(* Lager implements BlobStore *)

LEMMA ContentOfWhole ==
  ASSUME NEW b \in Blob
  PROVE  Content(Whole(b)) = b
<1>1. \A c \in Blob : Whole(c) = Whole(b) => c = b
  BY DEF Whole
<1> QED
  BY <1>1 DEF Content

\* What a caller can see: entries, committed entries and files being read.
Shown(i) ==
  \/ \E a \in Address : dest[a] = i \/ jdest[a] = i
  \/ \E t \in Thread : pc[t] = "read" /\ fd[t] = i

LEMMA ShownIntact ==
  ASSUME IInv, NEW i \in Ino, Shown(i)
  PROVE  Intact(i) /\ Content(file[i]) \in Blob
<1>1. Intact(i)
  BY NoneAssumption DEF IInv, Shown, EntriesIntact, ReadsIntact
<1> QED
  BY <1>1, ContentOfWhole DEF Intact

\* What a caller can see does not change under its eyes.
LEMMA ShownKept ==
  ASSUME IInv, [Next]_vars, NEW i \in Ino, Shown(i), ~Unused(i)'
  PROVE  file'[i] = file[i]
<1> USE DEF disk, locals
<1>1. TypeOK /\ Intact(i)
  BY ShownIntact DEF IInv
<1>2. CASE Reclaim(file)
  BY <1>2, ReclaimKeeps
<1>3. CASE UNCHANGED file
  BY <1>3
<1>4. ASSUME NEW t \in Thread, StoreCreate(t)
      PROVE  file'[i] = file[i]
  BY <1>1, <1>4 DEF StoreCreate, Shown, Unused, TypeOK
<1>5. ASSUME NEW t \in Thread, StoreWrite(t) \/ StoreSync(t)
      PROVE  file'[i] = file[i]
  <2>1. pc[t] = "write" /\ NameOK(t)
    BY <1>5 DEF StoreWrite, StoreSync, IInv, ThreadsOK
  <2>2. fd[t] # i
    BY <2>1 DEF NameOK, Shown, IInv, WritersAlone, Writing
  <2> QED
    BY <1>1, <1>5, <2>2 DEF StoreWrite, StoreSync, TypeOK
<1>6. CASE PowerLoss
  <2>1. PICK lost \in SUBSET {j \in Ino : file[j].len > 0 /\ ~file[j].synced} :
          Reclaim([j \in Ino |->
            IF j \in lost THEN [file[j] EXCEPT !.len = 0] ELSE file[j]])
    BY <1>6 DEF PowerLoss
  <2>2. i \notin lost
    BY <1>1, <2>1 DEF Intact, Whole
  <2> QED
    BY <2>1, <2>2 DEF Reclaim
<1> QED
  BY <1>2, <1>3, <1>4, <1>5, <1>6
     DEF Next, vars, Store, Retrieve, StoreBegin, StoreRename, StoreFails,
         StoreCleanup, RetrieveOpen, RetrieveMissing, RetrieveClose, RefuseCall,
         Remove, RemoveStaleTemp, Kill, Commit

\* Entries that keep their inode keep their blob, in the store, in its
\* committed image and in a reader's hands.
LEMMA MappingKept ==
  ASSUME IInv, [Next]_vars
  PROVE  /\ \A a \in Address : dest'[a] = dest[a] =>
              EntryBlob(dest)'[a] = EntryBlob(dest)[a]
         /\ \A a \in Address : dest'[a] = jdest[a] =>
              EntryBlob(dest)'[a] = EntryBlob(jdest)[a]
         /\ \A a \in Address : jdest'[a] = jdest[a] =>
              EntryBlob(jdest)'[a] = EntryBlob(jdest)[a]
         /\ \A a \in Address : jdest'[a] = dest[a] =>
              EntryBlob(jdest)'[a] = EntryBlob(dest)[a]
         /\ \A t \in Thread :
              pc[t] = "read" /\ pc'[t] = "read" /\ fd'[t] = fd[t] =>
                Held'[t] = Held[t]
<1>1. TypeOK
  BY DEF IInv
<1>2. ASSUME NEW a \in Address, NEW i \in Ino, i \in {dest'[a], jdest'[a]}, Shown(i)
      PROVE  file'[i] = file[i]
  BY <1>2, ShownKept DEF Unused
<1>3. \A a \in Address : dest'[a] \in {dest[a], jdest[a]} =>
        dest'[a] = None \/ file'[dest'[a]] = file[dest'[a]]
  BY <1>1, <1>2 DEF Shown, TypeOK
<1>4. \A a \in Address : jdest'[a] \in {dest[a], jdest[a]} =>
        jdest'[a] = None \/ file'[jdest'[a]] = file[jdest'[a]]
  BY <1>1, <1>2 DEF Shown, TypeOK
<1>5. ASSUME NEW t \in Thread, pc[t] = "read", pc'[t] = "read", fd'[t] = fd[t]
      PROVE  Held'[t] = Held[t]
  <2>1. fd[t] \in Ino /\ Shown(fd[t])
    BY <1>5 DEF Shown, IInv, ThreadsOK, HandleOK
  <2>2. file'[fd[t]] = file[fd[t]]
    BY <1>5, <2>1, ShownKept DEF Unused
  <2> QED
    BY <1>5, <2>2 DEF Held
<1> QED
  BY <1>3, <1>4, <1>5 DEF EntryBlob

\* Every step of the store is a step of the abstract store, or none.
LEMMA StepMaps ==
  ASSUME IInv, IInv', [Next]_vars
  PROVE  [Abstract!Next]_(Abstract!vars)
<1> DEFINE S == EntryBlob(dest)
           J == EntryBlob(jdest)
<1>1. TypeOK /\ TypeOK'
  BY DEF IInv
<1>s. UNCHANGED dest => S' = S
  BY MappingKept DEF EntryBlob
<1>j. UNCHANGED jdest => J' = J
  BY MappingKept DEF EntryBlob
<1>h. \A t \in Thread : pc'[t] = pc[t] /\ fd'[t] = fd[t] => Held'[t] = Held[t]
  BY MappingKept DEF Held
<1>w. \A t \in Thread : pc'[t] = pc[t] /\ addr'[t] = addr[t] /\ blob'[t] = blob[t] =>
        Want'[t] = Want[t]
  BY DEF Want
<1>e. ASSUME NEW t \in Thread,
             \A u \in Thread \ {t} : /\ pc'[u] = pc[u] /\ fd'[u] = fd[u]
                                     /\ addr'[u] = addr[u] /\ blob'[u] = blob[u]
      PROVE  /\ Want' = [Want EXCEPT ![t] = Want'[t]]
             /\ Held' = [Held EXCEPT ![t] = Held'[t]]
  <2>1. \A u \in Thread \ {t} : Want'[u] = Want[u] /\ Held'[u] = Held[u]
    BY <1>h, <1>w, <1>e
  <2> QED
    BY <2>1 DEF Want, Held
<1>i. \A t \in Thread : pc[t] = "idle" => Want[t] = None /\ Held[t] = None
  BY DEF Want, Held, Storing
<1>i2. \A t \in Thread : pc'[t] = "idle" => Want'[t] = None /\ Held'[t] = None
  BY DEF Want, Held, Storing
<1>p. \A t \in Thread : pc[t] \in Storing =>
        /\ Want[t] = <<addr[t], blob[t]>> /\ Want[t] # None /\ Held[t] = None
        /\ addr[t] \in Address /\ blob[t] \in Blob
  BY NoneAssumption DEF Want, Held, Storing, IInv, ThreadsOK, StoringOK
<1>r. ASSUME NEW t \in Thread, NEW r, Return(t, r)
      PROVE  /\ Want' = [Want EXCEPT ![t] = None]
             /\ Held' = [Held EXCEPT ![t] = None]
             /\ pc'[t] = "idle"
  <2>1. /\ pc'[t] = "idle"
        /\ \A u \in Thread \ {t} : /\ pc'[u] = pc[u] /\ fd'[u] = fd[u]
                                   /\ addr'[u] = addr[u] /\ blob'[u] = blob[u]
    BY <1>1, <1>r DEF Return, TypeOK
  <2> QED
    BY <2>1, <1>e, <1>i2
<1>q. ASSUME NEW t \in Thread, pc'[t] = pc[t] \/ {pc[t], pc'[t]} \subseteq Storing,
             pc'[t] = "read" => fd'[t] = fd[t], addr'[t] = addr[t], blob'[t] = blob[t],
             \A u \in Thread \ {t} : /\ pc'[u] = pc[u] /\ fd'[u] = fd[u]
                                     /\ addr'[u] = addr[u] /\ blob'[u] = blob[u]
      PROVE  UNCHANGED <<Want, Held>>
  <2>1. Want'[t] = Want[t] /\ Held'[t] = Held[t]
    BY <1>q, <1>h, <1>w DEF Want, Held, Storing
  <2>2. \A u \in Thread : Want'[u] = Want[u] /\ Held'[u] = Held[u]
    BY <1>q, <1>h, <1>w, <2>1
  <2> QED
    BY <2>2 DEF Want, Held
<1>t. \A t \in Thread : Want[t] = None => Want = [Want EXCEPT ![t] = None]
  BY DEF Want
<1>u. \A t \in Thread : Held[t] = None => Held = [Held EXCEPT ![t] = None]
  BY DEF Held
<1> HIDE DEF S, J
<1>14. ASSUME NEW t \in Thread, NEW a \in Address, NEW b \in Blob, StoreBegin(t, a, b)
      PROVE  Abstract!BeginPut(t, a, b)
  <2>1. /\ pc[t] = "idle" /\ pc'[t] = "create" /\ addr'[t] = a /\ blob'[t] = b
        /\ \A u \in Thread \ {t} : /\ pc'[u] = pc[u] /\ fd'[u] = fd[u]
                                   /\ addr'[u] = addr[u] /\ blob'[u] = blob[u]
    BY <1>1, <1>14 DEF StoreBegin, TypeOK
  <2>2. Want'[t] = <<a, b>> /\ Held'[t] = None
    BY <2>1 DEF Want, Held, Storing
  <2>3. Want' = [Want EXCEPT ![t] = <<a, b>>] /\ Held' = Held
    BY <2>1, <2>2, <1>e, <1>i, <1>u
  <2>4. S' = S /\ J' = J
    BY <1>14, <1>s, <1>j DEF StoreBegin, disk
  <2> QED
    BY <1>14, <1>i, <2>1, <2>3, <2>4
      DEF Abstract!BeginPut, Abstract!Resting, StoreBegin, S, J
<1>15. ASSUME NEW t \in Thread,
             StoreCreate(t) \/ StoreWrite(t) \/ StoreSync(t) \/ StoreFails(t)
      PROVE  UNCHANGED Abstract!vars
  <2>1. /\ pc[t] \in Storing /\ pc'[t] \in Storing
        /\ addr'[t] = addr[t] /\ blob'[t] = blob[t]
        /\ \A u \in Thread \ {t} : /\ pc'[u] = pc[u] /\ fd'[u] = fd[u]
                                   /\ addr'[u] = addr[u] /\ blob'[u] = blob[u]
        /\ UNCHANGED <<dest, jdest, ret>>
    BY <1>1, <1>15
      DEF StoreCreate, StoreWrite, StoreSync, StoreFails, TypeOK, Storing, locals
  <2>2. UNCHANGED <<Want, Held>>
    BY <2>1, <1>q DEF Storing
  <2> QED
    BY <2>1, <2>2, <1>s, <1>j DEF Abstract!vars, S, J
<1>16. ASSUME NEW t \in Thread, StoreRename(t)
      PROVE  Abstract!Put(t)
  <2>1. pc[t] = "rename" /\ NameOK(t) /\ DataOK(t) /\ HandleOK(t)
    BY <1>16 DEF StoreRename, IInv, ThreadsOK
  <2>2. /\ temp[tmp[t]] = fd[t] /\ fd[t] \in Ino
        /\ file[fd[t]] = Whole(blob[t])
    BY <1>16, <2>1 DEF StoreRename, NameOK, DataOK, HandleOK, Writing
  <2>3. addr[t] \in Address /\ blob[t] \in Blob /\ Want[t] = <<addr[t], blob[t]>>
        /\ Want[t] # None
    BY <1>p, <2>1 DEF Storing
  <2>4. /\ dest'[addr[t]] = fd[t]
        /\ \A a \in Address \ {addr[t]} : dest'[a] = dest[a]
    BY <1>1, <1>16, <2>2, <2>3 DEF StoreRename, TypeOK
  <2>5. file'[fd[t]] = file[fd[t]]
    <3>1. \A i \in Ino : ~Unused(i)' => file'[i] = file[i]
      BY <1>16, ReclaimKeeps DEF StoreRename
    <3>2. \A i \in Ino : i = fd[t] => ~Unused(i)'
      BY <2>3, <2>4 DEF Unused
    <3> QED
      BY <2>2, <3>1, <3>2
  <2>6. EntryBlob(dest)'[addr[t]] = blob[t]
    BY <2>2, <2>3, <2>4, <2>5, ContentOfWhole, NoneAssumption DEF EntryBlob
  <2>7. S' = [S EXCEPT ![addr[t]] = blob[t]]
    <3>1. \A a \in Address \ {addr[t]} : EntryBlob(dest)'[a] = EntryBlob(dest)[a]
      BY <2>4, MappingKept
    <3> QED
      BY <2>3, <2>6, <3>1 DEF EntryBlob, S
  <2>8. /\ Want' = [Want EXCEPT ![t] = None] /\ Held' = Held
        /\ J' = J
        /\ \E r \in {"created", "replaced"} : ret' = [ret EXCEPT ![t] = r]
    BY <1>16, <1>j, <1>r, <1>p, <1>u, <2>1 DEF StoreRename, Return, Storing
  <2>9. Want[t][1] = addr[t] /\ Want[t][2] = blob[t]
    BY <2>3
  <2> QED
    BY <2>3, <2>7, <2>8, <2>9 DEF Abstract!Put, S, J
<1>17. ASSUME NEW t \in Thread, StoreCleanup(t)
      PROVE  Abstract!FailPut(t)
  <2>1. /\ Want' = [Want EXCEPT ![t] = None] /\ Held' = Held
        /\ J' = J /\ S' = S /\ Want[t] # None
    BY <1>17, <1>s, <1>j, <1>r, <1>p, <1>u DEF StoreCleanup, Storing
  <2> QED
    BY <1>17, <2>1 DEF StoreCleanup, Return, Abstract!FailPut, S, J
<1>18. ASSUME NEW t \in Thread, NEW a \in Address, RetrieveOpen(t, a)
      PROVE  Abstract!Get(t, a)
  <2>1. /\ pc[t] = "idle" /\ pc'[t] = "read" /\ fd'[t] = dest[a] /\ dest[a] # None
        /\ \A u \in Thread \ {t} : /\ pc'[u] = pc[u] /\ fd'[u] = fd[u]
                                   /\ addr'[u] = addr[u] /\ blob'[u] = blob[u]
        /\ UNCHANGED <<dest, jdest, file>>
    BY <1>1, <1>18 DEF RetrieveOpen, TypeOK, disk
  <2>2. Shown(dest[a]) /\ dest[a] \in Ino
    BY <1>1, <2>1 DEF Shown, TypeOK
  <2>3. S[a] = Content(file[dest[a]]) /\ S[a] # None
    BY <2>1, <2>2, ShownIntact, NoneAssumption DEF S, EntryBlob
  <2>4. Want'[t] = None /\ Held'[t] = S[a]
    BY <2>1, <2>3 DEF Want, Held, Storing
  <2>5. Want' = Want /\ Held' = [Held EXCEPT ![t] = S[a]]
    BY <2>1, <2>4, <1>e, <1>i, <1>t
  <2>6. S' = S /\ J' = J
    BY <2>1, <1>s, <1>j
  <2> QED
    BY <1>18, <1>i, <2>1, <2>3, <2>5, <2>6
      DEF RetrieveOpen, Abstract!Get, Abstract!Resting, S, J
<1>19. ASSUME NEW t \in Thread, NEW a \in Address, RetrieveMissing(t, a)
      PROVE  Abstract!Miss(t, a)
  <2>1. pc[t] = "idle" /\ S[a] = None
    BY <1>19 DEF RetrieveMissing, S, EntryBlob
  <2>2. UNCHANGED <<Want, Held>> /\ S' = S /\ J' = J
    BY <1>19, <1>s, <1>j, <1>r, <1>i, <1>t, <1>u, <2>1 DEF RetrieveMissing, disk
  <2> QED
    BY <1>19, <1>i, <2>1, <2>2
      DEF RetrieveMissing, Return, Abstract!Miss, Abstract!Resting, S, J
<1>20. ASSUME NEW t \in Thread, RetrieveClose(t)
      PROVE  Abstract!EndGet(t)
  <2>1. pc[t] = "read" /\ fd[t] \in Ino /\ Shown(fd[t])
    BY <1>20 DEF RetrieveClose, Shown, IInv, ThreadsOK, HandleOK
  <2>2. Held[t] # None /\ Want[t] = None
    BY <2>1, ShownIntact, NoneAssumption DEF Held, Want, Storing
  <2>3. S' = S /\ J' = J /\ Want' = Want /\ Held' = [Held EXCEPT ![t] = None]
    BY <1>20, <1>s, <1>j, <1>r, <1>t, <2>2 DEF RetrieveClose
  <2> QED
    BY <1>20, <2>2, <2>3 DEF RetrieveClose, Return, Abstract!EndGet, S, J
<1>21. ASSUME NEW t \in Thread, NEW a \in Address, Remove(t, a)
      PROVE  Abstract!Remove(t, a)
  <2>1. /\ dest'[a] = None
        /\ \A c \in Address \ {a} : dest'[c] = dest[c]
    BY <1>1, <1>21 DEF Remove, TypeOK
  <2>2. EntryBlob(dest)'[a] = None
    BY <2>1 DEF EntryBlob
  <2>3. S' = [S EXCEPT ![a] = None]
    <3>1. \A c \in Address \ {a} : EntryBlob(dest)'[c] = EntryBlob(dest)[c]
      BY <2>1, MappingKept
    <3> QED
      BY <2>2, <3>1 DEF S, EntryBlob
  <2>4. UNCHANGED <<Want, Held>> /\ J' = J
    BY <1>21, <1>j, <1>r, <1>i, <1>t, <1>u DEF Remove
  <2> QED
    BY <1>21, <1>i, <2>3, <2>4
      DEF Remove, Return, Abstract!Remove, Abstract!Resting, S, J
<1>22. ASSUME NEW t \in Thread, RefuseCall(t)
      PROVE  Abstract!Refuse(t)
  <2>1. UNCHANGED <<Want, Held>> /\ S' = S /\ J' = J
    BY <1>22, <1>s, <1>j, <1>r, <1>i, <1>t, <1>u DEF RefuseCall, disk
  <2> QED
    BY <1>22, <1>i, <2>1 DEF RefuseCall, Return, Abstract!Refuse, Abstract!Resting, S, J
<1>23. ASSUME NEW n \in TempName, RemoveStaleTemp(n)
       PROVE  UNCHANGED Abstract!vars
  <2>1. UNCHANGED <<dest, jdest, pc, fd, addr, blob, ret>>
    BY <1>23 DEF RemoveStaleTemp, locals
  <2>2. UNCHANGED <<Want, Held>>
    BY <2>1, <1>h DEF Want, Held
  <2> QED
    BY <2>1, <2>2, <1>s, <1>j DEF Abstract!vars, S, J
<1>d. ASSUME NEW V \in SUBSET Thread, Die(V)
      PROVE  /\ Want' = [t \in Thread |-> IF t \in V THEN None ELSE Want[t]]
             /\ Held' = [t \in Thread |-> IF t \in V THEN None ELSE Held[t]]
  <2>1. \A t \in V : pc'[t] = "idle"
    BY <1>d DEF Die
  <2>2. \A t \in Thread \ V : /\ pc'[t] = pc[t] /\ fd'[t] = fd[t]
                             /\ addr'[t] = addr[t] /\ blob'[t] = blob[t]
    BY <1>d DEF Die
  <2>3. \A t \in Thread : /\ Want'[t] = IF t \in V THEN None ELSE Want[t]
                         /\ Held'[t] = IF t \in V THEN None ELSE Held[t]
    BY <2>1, <2>2, <1>h, <1>w, <1>i2
  <2> QED
    BY <2>3 DEF Want, Held
<1>25. ASSUME NEW p \in Process, Kill(p)
       PROVE  Abstract!Kill(p)
  <2>1. S' = S /\ J' = J
    BY <1>25, <1>s, <1>j DEF Kill
  <2> QED
    BY <1>25, <1>d, <2>1 DEF Kill, Die, Abstract!Kill, Abstract!Die, S, J
<1>26. CASE Commit
  <2>1. UNCHANGED <<dest, pc, fd, addr, blob, ret>> /\ jdest' = dest
    BY <1>26 DEF Commit, locals
  <2>2. UNCHANGED <<Want, Held>>
    BY <2>1, <1>h DEF Want, Held
  <2>3. J' = S
    BY <2>1, MappingKept DEF S, J, EntryBlob
  <2> QED
    BY <2>1, <2>2, <2>3, <1>s DEF Abstract!Next, Abstract!Commit, S, J
<1>27. CASE PowerLoss
  <2>1. S' = J /\ J' = J
    BY <1>27, <1>j, MappingKept DEF PowerLoss, S, J, EntryBlob
  <2>2. Abstract!PowerLoss
    BY <1>27, <1>d, <2>1 DEF PowerLoss, Die, Abstract!PowerLoss, Abstract!Die, S, J
  <2> QED
    BY <2>2 DEF Abstract!Next
<1>28. CASE UNCHANGED vars
  <2>1. UNCHANGED <<dest, jdest, pc, fd, addr, blob, ret>>
    BY <1>28 DEF vars, disk, locals
  <2>2. UNCHANGED <<Want, Held>>
    BY <2>1, <1>h DEF Want, Held
  <2> QED
    BY <2>1, <2>2, <1>s, <1>j DEF Abstract!vars, S, J
<1>29. ASSUME NEW t \in Thread, Store(t)
       PROVE  [Abstract!Next]_(Abstract!vars)
  BY <1>14, <1>15, <1>16, <1>17, <1>29 DEF Store, Abstract!Next
<1>30. ASSUME NEW t \in Thread,
              \/ Retrieve(t) \/ RefuseCall(t)
              \/ \E a \in Address : Remove(t, a)
       PROVE  [Abstract!Next]_(Abstract!vars)
  BY <1>18, <1>19, <1>20, <1>21, <1>22, <1>30 DEF Retrieve, Abstract!Next
<1> QED
  BY <1>23, <1>25, <1>26, <1>27, <1>28, <1>29, <1>30 DEF Next, Abstract!Next

\* The lager store implements the abstract store: with distinct process ids,
\* puts, gets and removals take effect atomically in spite of everything that
\* runs, fails or is killed in between.
THEOREM LagerImplementsBlobStore == UniquePids => (Spec => LagerBlobStore)
<1> SUFFICES ASSUME UniquePids PROVE Spec => LagerBlobStore
  OBVIOUS
<1>1. Init => Abstract!Init
  BY DEF Init, Abstract!Init, EntryBlob, Want, Held, Storing
<1>2. IInv /\ [Next]_vars => IInv'
  BY StepIInv
<1>3. IInv /\ IInv' /\ [Next]_vars => [Abstract!Next]_(Abstract!vars)
  BY StepMaps
<1> QED
  BY <1>1, <1>2, <1>3, InitIInv, PTL DEF Spec, LagerBlobStore, Abstract!Spec
=============================================================================
