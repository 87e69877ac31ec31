------------------------------- MODULE Lager -------------------------------
(***************************************************************************)
(* The `lager` crate: a directory of blobs that any number of threads, in  *)
(* any number of processes, store into and read from at the same time      *)
(* without a lock.  One action per file-system call of store_at, retrieve  *)
(* and remove (lager/src/lager.rs).                                        *)
(*                                                                         *)
(* The file system is modelled as far as these calls can see it: names     *)
(* linked to inodes, handles that outlive the name they were opened by, an *)
(* atomic rename, and a journal: a power failure falls back to the names   *)
(* last committed and may cut any inode that was never synced.             *)
(* Modification times are the business of LRU.tla and left out here.       *)
(***************************************************************************)
EXTENDS Integers, FiniteSets

CONSTANTS
  Address,    \* the addresses in use
  Blob,       \* what the callers' write closures produce
  Size,       \* Size[b]: the number of writes that produce b in full
  Thread,     \* the threads that call the store
  Process,    \* the operating-system processes those threads live in
  ProcessOf,  \* ProcessOf[t]: the process of thread t
  Pid,        \* process ids
  PidOf,      \* PidOf[p]: what std::process::id() returns in p
  Ino,        \* inodes
  None,       \* no inode, no address, no blob
  MaxSeq,     \* bound: stores begun by one run of a process
  MaxFaults   \* bound: kills, power failures and failed clean-ups

ASSUME SizeAssumption == Size \in [Blob -> Nat]
ASSUME ProcessAssumption ==
  /\ ProcessOf \in [Thread -> Process]
  /\ PidOf \in [Process -> Pid]
ASSUME NoneAssumption ==
  None \notin Address \cup Blob \cup Ino \cup (Address \X Blob)
ASSUME BoundAssumption == MaxSeq \in Nat /\ MaxFaults \in Nat

\* The name of a temporary file: the entry's name with the process id and
\* the value drawn from TEMP_SEQ appended (lager.rs:49-52).
TempName == Address \X Pid \X (0 .. MaxSeq - 1)

\* What an inode holds: the blobs written into it, how many writes it has
\* received, and whether all of it has reached the disk.
File == [from : SUBSET Blob, len : Nat, synced : BOOLEAN]

Storing == {"create", "write", "rename", "cleanup"}
Writing == {"write", "rename"}

VARIABLES
  dest,       \* the inode of each entry, or None
  temp,       \* the inode of each temporary file, or None
  jdest,      \* dest and temp as a power failure would leave them
  jtemp,
  file,       \* the content of each inode
  seq,        \* TEMP_SEQ of each process
  pc,         \* the call each thread is about to make
  addr,       \* the locals of the operation each thread is in
  blob,
  tmp,
  fd,
  existed,
  ret,        \* what the last operation of each thread returned
  faults      \* faults so far

disk == <<dest, temp, jdest, jtemp, file>>
locals == <<pc, addr, blob, tmp, fd, existed, ret>>
vars == <<disk, seq, locals, faults>>

TypeOK ==
  /\ dest \in [Address -> Ino \cup {None}]
  /\ jdest \in [Address -> Ino \cup {None}]
  /\ temp \in [TempName -> Ino \cup {None}]
  /\ jtemp \in [TempName -> Ino \cup {None}]
  /\ file \in [Ino -> File]
  /\ seq \in [Process -> 0 .. MaxSeq]
  /\ pc \in [Thread -> {"idle", "read"} \cup Storing]
  /\ addr \in [Thread -> Address \cup {None}]
  /\ blob \in [Thread -> Blob \cup {None}]
  /\ tmp \in [Thread -> TempName \cup {None}]
  /\ fd \in [Thread -> Ino \cup {None}]
  /\ existed \in [Thread -> BOOLEAN]
  /\ ret \in [Thread -> {"none", "created", "replaced", "missing", "err"}]
  /\ faults \in 0 .. MaxFaults

Empty == [from |-> {}, len |-> 0, synced |-> FALSE]

Init ==
  /\ dest = [a \in Address |-> None]
  /\ temp = [n \in TempName |-> None]
  /\ jdest = dest
  /\ jtemp = temp
  /\ file = [i \in Ino |-> Empty]
  /\ seq = [p \in Process |-> 0]
  /\ pc = [t \in Thread |-> "idle"]
  /\ addr = [t \in Thread |-> None]
  /\ blob = [t \in Thread |-> None]
  /\ tmp = [t \in Thread |-> None]
  /\ fd = [t \in Thread |-> None]
  /\ existed = [t \in Thread |-> FALSE]
  /\ ret = [t \in Thread |-> "none"]
  /\ faults = 0

\* The operation of t returns r and its locals go out of scope, the handle
\* it had open with them.
Return(t, r) ==
  /\ pc' = [pc EXCEPT ![t] = "idle"]
  /\ addr' = [addr EXCEPT ![t] = None]
  /\ blob' = [blob EXCEPT ![t] = None]
  /\ tmp' = [tmp EXCEPT ![t] = None]
  /\ fd' = [fd EXCEPT ![t] = None]
  /\ existed' = [existed EXCEPT ![t] = FALSE]
  /\ ret' = [ret EXCEPT ![t] = r]

\* An inode the kernel may hand out: no name, committed or not, and no open
\* handle refers to it.
Unused(i) ==
  /\ \A a \in Address : dest[a] # i /\ jdest[a] # i
  /\ \A n \in TempName : temp[n] # i /\ jtemp[n] # i
  /\ \A t \in Thread : fd[t] # i

\* The files are now as in f, and an inode with nothing left that refers to it
\* has been freed.  (Evaluated after the names and handles have their new
\* values.)
Reclaim(f) == file' = [i \in Ino |-> IF Unused(i)' THEN Empty ELSE f[i]]

-----------------------------------------------------------------------------
(* Mutants: what the actions below would be with one plausible mistake in  *)
(* them.  The specification does not use them.                             *)

\* TEMP_SEQ is read but not advanced.
StoreBeginSameSeq(t, a, b) ==
  /\ pc[t] = "idle"
  /\ existed' = [existed EXCEPT ![t] = dest[a] # None]
  /\ tmp' = [tmp EXCEPT ![t] = <<a, PidOf[ProcessOf[t]], 0>>]
  /\ addr' = [addr EXCEPT ![t] = a]
  /\ blob' = [blob EXCEPT ![t] = b]
  /\ ret' = [ret EXCEPT ![t] = "none"]
  /\ pc' = [pc EXCEPT ![t] = "create"]
  /\ UNCHANGED <<disk, seq, fd, faults>>

\* The temporary name lacks the process id.
StoreBeginNoPid(t, a, b) ==
  LET p == ProcessOf[t] IN
  /\ pc[t] = "idle"
  /\ seq[p] < MaxSeq
  /\ existed' = [existed EXCEPT ![t] = dest[a] # None]
  /\ tmp' = [tmp EXCEPT ![t] = <<a, CHOOSE q \in Pid : TRUE, seq[p]>>]
  /\ seq' = [seq EXCEPT ![p] = @ + 1]
  /\ addr' = [addr EXCEPT ![t] = a]
  /\ blob' = [blob EXCEPT ![t] = b]
  /\ ret' = [ret EXCEPT ![t] = "none"]
  /\ pc' = [pc EXCEPT ![t] = "create"]
  /\ UNCHANGED <<disk, fd, faults>>

\* The file is created over whatever is there, the entry included: what an
\* in-place update would do.
StoreCreateInPlace(t) ==
  /\ pc[t] = "create"
  /\ \E i \in Ino :
       /\ IF dest[addr[t]] # None THEN i = dest[addr[t]] ELSE Unused(i)
       /\ temp' = [temp EXCEPT ![tmp[t]] = i]
       /\ file' = [file EXCEPT ![i] = [Empty EXCEPT !.from = {blob[t]}]]
       /\ fd' = [fd EXCEPT ![t] = i]
  /\ pc' = [pc EXCEPT ![t] = "write"]
  /\ UNCHANGED <<dest, jdest, jtemp, seq, addr, blob, tmp, existed, ret,
                 faults>>

\* sync_all is left out.
StoreNoSync(t) ==
  /\ pc[t] = "write"
  /\ file[fd[t]].len >= Size[blob[t]]
  /\ pc' = [pc EXCEPT ![t] = "rename"]
  /\ UNCHANGED <<disk, seq, addr, blob, tmp, fd, existed, ret, faults>>

\* The entry is unlinked first, as a rename that cannot replace would need.
StoreRenameTwoSteps(t) ==
  /\ pc[t] = "rename"
  /\ temp[tmp[t]] # None
  /\ IF dest[addr[t]] # None
     THEN /\ dest' = [dest EXCEPT ![addr[t]] = None]
          /\ UNCHANGED <<temp, locals>>
     ELSE /\ dest' = [dest EXCEPT ![addr[t]] = temp[tmp[t]]]
          /\ temp' = [temp EXCEPT ![tmp[t]] = None]
          /\ Return(t, IF existed[t] THEN "replaced" ELSE "created")
  /\ UNCHANGED <<jdest, jtemp, seq, faults>>
  /\ Reclaim(file)

\* A failed call returns at once, as with `?` in place of the closure.
StoreFailsNoCleanup(t) ==
  /\ pc[t] \in {"create", "write", "rename"}
  /\ Return(t, "err")
  /\ UNCHANGED <<dest, temp, jdest, jtemp, seq, faults>>
  /\ Reclaim(file)

\* The clean-up removes the entry as well.
StoreCleanupEntry(t) ==
  /\ pc[t] = "cleanup"
  /\ dest' = [dest EXCEPT ![addr[t]] = None]
  /\ temp' = [temp EXCEPT ![tmp[t]] = None]
  /\ Return(t, "err")
  /\ UNCHANGED <<jdest, jtemp, seq, faults>>
  /\ Reclaim(file)

-----------------------------------------------------------------------------
(* store_at *)

\* create_dir_all, dest.exists(), and the draw from TEMP_SEQ.
StoreBegin(t, a, b) ==
  LET p == ProcessOf[t] IN
  /\ pc[t] = "idle"
  /\ seq[p] < MaxSeq
  /\ existed' = [existed EXCEPT ![t] = dest[a] # None]
  /\ tmp' = [tmp EXCEPT ![t] = <<a, PidOf[p], seq[p]>>]
  /\ seq' = [seq EXCEPT ![p] = @ + 1]
  /\ addr' = [addr EXCEPT ![t] = a]
  /\ blob' = [blob EXCEPT ![t] = b]
  /\ ret' = [ret EXCEPT ![t] = "none"]
  /\ pc' = [pc EXCEPT ![t] = "create"]
  /\ UNCHANGED <<disk, fd, faults>>

\* File::create_new(&tmp): the name must be free.
StoreCreate(t) ==
  /\ pc[t] = "create"
  /\ temp[tmp[t]] = None
  /\ \E i \in Ino :
       /\ Unused(i)
       /\ temp' = [temp EXCEPT ![tmp[t]] = i]
       /\ file' = [file EXCEPT ![i] = [Empty EXCEPT !.from = {blob[t]}]]
       /\ fd' = [fd EXCEPT ![t] = i]
  /\ pc' = [pc EXCEPT ![t] = "write"]
  /\ UNCHANGED <<dest, jdest, jtemp, seq, addr, blob, tmp, existed, ret,
                 faults>>

\* One write of the closure through the open handle.
StoreWrite(t) ==
  /\ pc[t] = "write"
  /\ file[fd[t]].len < Size[blob[t]]
  /\ file' = [file EXCEPT ![fd[t]] =
                [from |-> @.from \cup {blob[t]},
                 len |-> @.len + 1, synced |-> FALSE]]
  /\ UNCHANGED <<dest, temp, jdest, jtemp, seq, locals, faults>>

\* The closure has returned Ok; file.sync_all().
StoreSync(t) ==
  /\ pc[t] = "write"
  /\ file[fd[t]].len >= Size[blob[t]]
  /\ file' = [file EXCEPT ![fd[t]].synced = TRUE]
  /\ pc' = [pc EXCEPT ![t] = "rename"]
  /\ UNCHANGED <<dest, temp, jdest, jtemp, seq, addr, blob, tmp, fd, existed,
                 ret, faults>>

\* std::fs::rename(&tmp, &dest): whatever inode the temporary name is linked
\* to now becomes the entry; Ok(!existed) is returned.
StoreRename(t) ==
  /\ pc[t] = "rename"
  /\ temp[tmp[t]] # None
  /\ dest' = [dest EXCEPT ![addr[t]] = temp[tmp[t]]]
  /\ temp' = [temp EXCEPT ![tmp[t]] = None]
  /\ Return(t, IF existed[t] THEN "replaced" ELSE "created")
  /\ UNCHANGED <<jdest, jtemp, seq, faults>>
  /\ Reclaim(file)

\* A call of the closure fails: the name is taken, it is gone when it should
\* be renamed, the source of the bytes fails, the disk is full.  Any call may
\* fail, so no guard tells these apart.
StoreFails(t) ==
  /\ pc[t] \in {"create", "write", "rename"}
  /\ pc' = [pc EXCEPT ![t] = "cleanup"]
  /\ fd' = [fd EXCEPT ![t] = None]
  /\ UNCHANGED <<dest, temp, jdest, jtemp, seq, addr, blob, tmp, existed, ret,
                 faults>>
  /\ Reclaim(file)

\* remove_file(&tmp), whose own failure is ignored.
StoreCleanup(t) ==
  /\ pc[t] = "cleanup"
  /\ \/ /\ temp' = [temp EXCEPT ![tmp[t]] = None]
        /\ UNCHANGED faults
     \/ /\ faults < MaxFaults
        /\ faults' = faults + 1
        /\ UNCHANGED temp
  /\ Return(t, "err")
  /\ UNCHANGED <<dest, jdest, jtemp, seq>>
  /\ Reclaim(file)

-----------------------------------------------------------------------------
(* retrieve *)

\* File::open(&path) succeeds.  touch(&path) follows; it changes nothing but
\* a modification time, and that the entry may be gone by then is no error.
RetrieveOpen(t, a) ==
  /\ pc[t] = "idle"
  /\ dest[a] # None
  /\ fd' = [fd EXCEPT ![t] = dest[a]]
  /\ addr' = [addr EXCEPT ![t] = a]
  /\ ret' = [ret EXCEPT ![t] = "none"]
  /\ pc' = [pc EXCEPT ![t] = "read"]
  /\ UNCHANGED <<disk, seq, blob, tmp, existed, faults>>

\* File::open(&path) finds no entry.
RetrieveMissing(t, a) ==
  /\ pc[t] = "idle"
  /\ dest[a] = None
  /\ Return(t, "missing")
  /\ UNCHANGED <<disk, seq, faults>>

\* The handle is dropped: by the caller once it has read the file, or by
\* retrieve itself when touch fails for another reason than an absent entry.
RetrieveClose(t) ==
  /\ pc[t] = "read"
  /\ \E r \in {"none", "err"} : Return(t, r)
  /\ UNCHANGED <<dest, temp, jdest, jtemp, seq, faults>>
  /\ Reclaim(file)

-----------------------------------------------------------------------------
(* remove, and the calls made on entries and temporary files by LRU::scan  *)
(* and LRU::evict_until                                                    *)

\* remove: remove_file(path), where an absent entry is no error.
Remove(t, a) ==
  /\ pc[t] = "idle"
  /\ dest' = [dest EXCEPT ![a] = None]
  /\ Return(t, "none")
  /\ UNCHANGED <<temp, jdest, jtemp, seq, faults>>
  /\ Reclaim(file)

\* store_at, retrieve or remove fails in its first call.
RefuseCall(t) ==
  /\ pc[t] = "idle"
  /\ Return(t, "err")
  /\ UNCHANGED <<disk, seq, faults>>

\* LRU::scan unlinks a temporary file that looks an hour old.  The model does
\* not measure that hour: the owner may be long dead or merely stalled.
RemoveStaleTemp(n) ==
  /\ temp[n] # None
  /\ temp' = [temp EXCEPT ![n] = None]
  /\ UNCHANGED <<dest, jdest, jtemp, seq, locals, faults>>
  /\ Reclaim(file)

-----------------------------------------------------------------------------
(* The environment *)

\* The threads in S vanish in the middle of what they were doing.
Die(S) ==
  /\ pc' = [t \in Thread |-> IF t \in S THEN "idle" ELSE pc[t]]
  /\ addr' = [t \in Thread |-> IF t \in S THEN None ELSE addr[t]]
  /\ blob' = [t \in Thread |-> IF t \in S THEN None ELSE blob[t]]
  /\ tmp' = [t \in Thread |-> IF t \in S THEN None ELSE tmp[t]]
  /\ fd' = [t \in Thread |-> IF t \in S THEN None ELSE fd[t]]
  /\ existed' = [t \in Thread |-> IF t \in S THEN FALSE ELSE existed[t]]
  /\ ret' = [t \in Thread |-> IF t \in S THEN "none" ELSE ret[t]]

\* Process p is killed or exits, and another one is started under the same
\* pid: its TEMP_SEQ is back at 0 while the temporary files are still there.
Kill(p) ==
  /\ faults < MaxFaults
  /\ faults' = faults + 1
  /\ Die({t \in Thread : ProcessOf[t] = p})
  /\ seq' = [seq EXCEPT ![p] = 0]
  /\ UNCHANGED <<dest, temp, jdest, jtemp>>
  /\ Reclaim(file)

\* The file system commits its journal: names only, not the data.
Commit ==
  /\ faults < MaxFaults
  /\ jdest' = dest
  /\ jtemp' = temp
  /\ UNCHANGED <<dest, temp, seq, locals, faults>>
  /\ Reclaim(file)

\* The machine loses power and boots again; inodes that were not synced had
\* been written out or had not.
PowerLoss ==
  /\ faults < MaxFaults
  /\ faults' = faults + 1
  /\ Die(Thread)
  /\ seq' = [p \in Process |-> 0]
  /\ dest' = jdest
  /\ temp' = jtemp
  /\ UNCHANGED <<jdest, jtemp>>
  /\ \E lost \in SUBSET {i \in Ino : file[i].len > 0 /\ ~file[i].synced} :
       Reclaim([i \in Ino |->
                  IF i \in lost THEN [file[i] EXCEPT !.len = 0] ELSE file[i]])

-----------------------------------------------------------------------------
Store(t) ==
  \/ \E a \in Address, b \in Blob : StoreBegin(t, a, b)
  \/ StoreCreate(t) \/ StoreWrite(t) \/ StoreSync(t) \/ StoreRename(t)
  \/ StoreFails(t) \/ StoreCleanup(t)

Retrieve(t) ==
  \/ \E a \in Address : RetrieveOpen(t, a) \/ RetrieveMissing(t, a)
  \/ RetrieveClose(t)

Next ==
  \/ \E t \in Thread : \/ Store(t) \/ Retrieve(t) \/ RefuseCall(t)
                       \/ \E a \in Address : Remove(t, a)
  \/ \E n \in TempName : RemoveStaleTemp(n)
  \/ \E p \in Process : Kill(p)
  \/ Commit
  \/ PowerLoss

Spec == Init /\ [][Next]_vars
-----------------------------------------------------------------------------
(* Properties *)

\* The content of a file that holds all of b and would survive a power failure.
Whole(b) == [from |-> {b}, len |-> Size[b], synced |-> TRUE]

Intact(i) == \E b \in Blob : file[i] = Whole(b)

\* "The cache must be resistant to corruption", to a process "getting killed"
\* and to "concurrent processes" (halide-cache/doc/requirements.md:34-36): whatever an
\* address is linked to, now or after a power failure, is one whole blob,
\* although writers write, die and rename at any moment.
EntriesIntact ==
  \A a \in Address : /\ dest[a] # None => Intact(dest[a])
                     /\ jdest[a] # None => Intact(jdest[a])

\* The file a caller of retrieve is reading is one whole blob for as long as
\* it is open, also when the entry has been replaced or evicted meanwhile.
ReadsIntact == \A t \in Thread : pc[t] = "read" => Intact(fd[t])

\* No thread shares the inode it is writing with another open handle, and no
\* two stores in flight use one temporary name: what create_new, the pid and
\* TEMP_SEQ are there for (lager.rs:49-55).
WritersAlone ==
  \A t, u \in Thread :
    t # u => /\ pc[t] \in Writing => fd[t] # fd[u]
             /\ pc[t] \in Storing /\ pc[u] \in Storing => tmp[t] # tmp[u]

\* A store that has returned leaves no temporary file behind, failed or not:
\* as long as nothing was killed and no clean-up failed, every temporary file
\* belongs to a store that is still running (the tests count them,
\* lager.rs:179 and lager.rs:208).
NoTempLeak ==
  faults = 0 =>
    \A n \in TempName : temp[n] # None =>
      \E t \in Thread : pc[t] \in Storing /\ tmp[t] = n

\* The blob a file's content stands for in the abstract store.
Content(f) ==
  IF \E b \in Blob : f = Whole(b) THEN CHOOSE b \in Blob : f = Whole(b)
  ELSE "torn"

EntryBlob(d) ==
  [a \in Address |-> IF d[a] = None THEN None ELSE Content(file[d[a]])]

Want ==
  [t \in Thread |-> IF pc[t] \in Storing THEN <<addr[t], blob[t]>> ELSE None]

Held ==
  [t \in Thread |-> IF pc[t] = "read" THEN Content(file[fd[t]]) ELSE None]

Abstract == INSTANCE BlobStore WITH
  store <- EntryBlob(dest), saved <- EntryBlob(jdest),
  want <- Want, held <- Held

\* The store implements the abstract one: the rename is the instant a put
\* takes effect, the open the instant of a get, a failed or killed store
\* changes nothing, and a read returns what was stored when it was opened.
LagerBlobStore == Abstract!Spec
=============================================================================
