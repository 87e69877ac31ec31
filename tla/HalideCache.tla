---------------------------- MODULE HalideCache ----------------------------
(***************************************************************************)
(* The halide-cache client: what one invocation does around one run of the *)
(* builder (halide-cache/src/main.rs, remote.rs, archive.rs), for any      *)
(* number of invocations at a time on any number of machines, against one  *)
(* server.  The local store of each machine and the server's store are     *)
(* maps of whole entries, as BlobStore promises and Lager implements.      *)
(*                                                                         *)
(* An input is a version of the sources, and the key is the version hashed *)
(* (KeyInputs::address is injective here).  An entry holds two outputs, or *)
(* it is one that unpack rejects, at one of the three places where it can. *)
(***************************************************************************)
EXTENDS Integers, FiniteSets

CONSTANTS
  Version,        \* versions of everything the key is computed from
  Client,         \* builds; each has a checkout and output files of its own
  Machine,
  MachineOf,      \* the machine, and so the local store, of each client
  Remote,         \* the clients run with --remote
  EditsWhileBusy, \* whether sources are edited while a client runs on them
  Detached,       \* the clients whose builder is not killed when they are
  MaxKills,       \* bound: clients killed
  MaxDamage,      \* bound: entries of the server damaged on its disk
  MaxIoErrors,    \* bound: failures of a client's own file system
  MaxFaults,      \* bound: all of these together
  None

ASSUME MachineAssumption ==
  MachineOf \in [Client -> Machine] /\ {Remote, Detached} \subseteq SUBSET Client
ASSUME EditsAssumption == EditsWhileBusy \in BOOLEAN
ASSUME BoundsAssumption == {MaxKills, MaxDamage, MaxIoErrors, MaxFaults} \subseteq Nat

\* What an output file can hold: a version's output, or what a builder or a
\* restore that came to no end has left of it.
Output == Version \cup {"torn"}

\* An entry, and where unpack stops on it: nowhere, before the first file,
\* before the second, or because there are more.
Entry == [object : Output, header : Output, bad : {"no", "start", "header", "end"}]

ASSUME NoneAssumption ==
  None \notin Version \cup Client \cup Output \cup Entry \cup {"done"}

VARIABLES
  src,        \* the sources of each checkout
  out,        \* the output files of each checkout, or None
  local,      \* the entry of each key in each machine's store, or None
  server,     \* the entry of each key in the server's store, or None
  lock,       \* the holder of each machine's "lager_lock", or None
  pc,         \* where each client is
  key,        \*   the address it computed
  held,       \*   the entry it has open, or receives or sends
  exit,       \* how each client's last run ended
  builder,    \* whether the builder of that run failed
  orphan,     \* the sources the builder of a killed client works on, "done"
              \* once it has ended, or None
  kills, damage, ioErrors

client == <<pc, key, held, exit, builder>>
counts == <<kills, damage, ioErrors>>
vars == <<src, out, local, server, lock, client, orphan, counts>>

Places ==
  {"idle", "local", "restore", "restoreHeader", "restoreEnd", "fetch", "fetching",
   "lookup", "remoteRestore", "remoteHeader", "remoteEnd", "discard", "build",
   "store", "upload", "uploading", "cleanup", "cleaning"}

TypeOK ==
  /\ src \in [Client -> Version]
  /\ out \in [Client -> [object : Output \cup {None}, header : Output \cup {None}]]
  /\ local \in [Machine -> [Version -> Entry \cup {None}]]
  /\ server \in [Version -> Entry \cup {None}]
  /\ lock \in [Machine -> Client \cup {None}]
  /\ pc \in [Client -> Places]
  /\ key \in [Client -> Version \cup {None}]
  /\ held \in [Client -> Entry \cup {None}]
  /\ exit \in [Client -> {"none", "ok", "failed", "killed"}]
  /\ builder \in [Client -> {"none", "ok", "failed"}]
  /\ orphan \in [Client -> Version \cup {"done", None}]
  /\ kills \in 0 .. MaxKills
  /\ damage \in 0 .. MaxDamage
  /\ ioErrors \in 0 .. MaxIoErrors

Init ==
  /\ src \in [Client -> Version]
  /\ out = [c \in Client |-> [object |-> None, header |-> None]]
  /\ local = [m \in Machine |-> [v \in Version |-> None]]
  /\ server = [v \in Version |-> None]
  /\ lock = [m \in Machine |-> None]
  /\ pc = [c \in Client |-> "idle"]
  /\ key = [c \in Client |-> None]
  /\ held = [c \in Client |-> None]
  /\ exit = [c \in Client |-> "none"]
  /\ builder = [c \in Client |-> "none"]
  /\ orphan = [c \in Client |-> None]
  /\ kills = 0 /\ damage = 0 /\ ioErrors = 0

\* The bound on what goes wrong.
MayFail == kills + damage + ioErrors < MaxFaults

\* The entry of c's key in the store of its machine.
Mine(c) == local[MachineOf[c]][key[c]]

SetMine(c, e) == local' = [local EXCEPT ![MachineOf[c]][key[c]] = e]

Goto(c, place) == pc' = [pc EXCEPT ![c] = place]

\* The client's process ends.
Exit(c, result) ==
  /\ Goto(c, "idle")
  /\ key' = [key EXCEPT ![c] = None]
  /\ held' = [held EXCEPT ![c] = None]
  /\ builder' = [builder EXCEPT ![c] = "none"]
  /\ exit' = [exit EXCEPT ![c] = result]

-----------------------------------------------------------------------------
(* Mutants: steps below with one plausible mistake in them.  The           *)
(* specification does not use them.                                        *)

\* Any outputs of the builder are stored: `status.success()` is left out.
BuildFailsStored(c) ==
  /\ pc[c] = "build"
  /\ out' = [out EXCEPT ![c] = [object |-> "torn", header |-> "torn"]]
  /\ builder' = [builder EXCEPT ![c] = "failed"]
  /\ Goto(c, "store")
  /\ UNCHANGED <<src, local, server, lock, key, held, exit, orphan, counts>>

\* What has arrived of a body that was cut short is kept.
FetchFailsStored(c) ==
  /\ pc[c] = "fetching"
  /\ SetMine(c, [held[c] EXCEPT !.header = "torn"])
  /\ held' = [held EXCEPT ![c] = None]
  /\ Goto(c, "build")
  /\ UNCHANGED <<src, out, server, lock, key, exit, builder, orphan, counts>>

\* The entry is stored without the second file.
FetchEndShort(c) ==
  /\ pc[c] = "fetching"
  /\ SetMine(c, [held[c] EXCEPT !.header = None])
  /\ held' = [held EXCEPT ![c] = None]
  /\ Goto(c, "lookup")
  /\ UNCHANGED <<src, out, server, lock, key, exit, builder, orphan, counts>>

\* An error of the remote is main's, with `?`.
FetchFailsRun(c) ==
  /\ pc[c] \in {"fetch", "fetching"}
  /\ Exit(c, "failed")
  /\ UNCHANGED <<src, out, local, server, lock, orphan, counts>>

\* A corrupt entry is removed, but taken for a hit.
RemoteCorruptHit(c) ==
  /\ pc[c] \in {"remoteRestore", "remoteHeader", "remoteEnd"} /\ held[c].bad # "no"
  /\ SetMine(c, None)
  /\ held' = [held EXCEPT ![c] = None]
  /\ Goto(c, "cleanup")
  /\ UNCHANGED <<src, out, server, lock, key, exit, builder, orphan, counts>>

\* So is one that could not be restored.
RemoteIoErrorHit(c) ==
  /\ MayFail /\ ioErrors < MaxIoErrors
  /\ ioErrors' = ioErrors + 1
  /\ pc[c] \in {"lookup", "remoteRestore", "remoteHeader", "remoteEnd"}
  /\ Goto(c, "cleanup")
  /\ held' = [held EXCEPT ![c] = None]
  /\ UNCHANGED <<src, out, local, server, lock, key, exit, builder, orphan, kills, damage>>

\* A corrupt entry is kept.
DiscardKept(c) ==
  /\ pc[c] = "discard"
  /\ Goto(c, "build")
  /\ UNCHANGED <<src, out, local, server, lock, key, held, exit, builder, orphan, counts>>

\* When the entry just fetched is gone, the remote is asked again.
FetchedMissRetries(c) ==
  /\ pc[c] = "lookup" /\ Mine(c) = None
  /\ Goto(c, "fetch")
  /\ UNCHANGED <<src, out, local, server, lock, key, held, exit, builder, orphan, counts>>

-----------------------------------------------------------------------------
(* main: the key *)

\* A run starts: the inputs are read and hashed.
Hash(c) ==
  /\ pc[c] = "idle"
  /\ key' = [key EXCEPT ![c] = src[c]]
  /\ exit' = [exit EXCEPT ![c] = "none"]
  /\ Goto(c, "local")
  /\ UNCHANGED <<src, out, local, server, lock, held, builder, orphan, counts>>

-----------------------------------------------------------------------------
(* lookup *)

\* Lager::retrieve of the local entry, at the first lookup and after a fetch.
LocalOpen(c) ==
  /\ pc[c] = "local" /\ Mine(c) # None
  /\ held' = [held EXCEPT ![c] = Mine(c)]
  /\ Goto(c, "restore")
  /\ UNCHANGED <<src, out, local, server, lock, key, exit, builder, orphan, counts>>

LocalMiss(c) ==
  /\ pc[c] = "local" /\ Mine(c) = None
  /\ Goto(c, IF c \in Remote THEN "fetch" ELSE "build")
  /\ UNCHANGED <<src, out, local, server, lock, key, held, exit, builder, orphan, counts>>

FetchedOpen(c) ==
  /\ pc[c] = "lookup" /\ Mine(c) # None
  /\ held' = [held EXCEPT ![c] = Mine(c)]
  /\ Goto(c, "remoteRestore")
  /\ UNCHANGED <<src, out, local, server, lock, key, exit, builder, orphan, counts>>

\* The entry just fetched has been evicted or discarded by somebody else.
FetchedMiss(c) ==
  /\ pc[c] = "lookup" /\ Mine(c) = None
  /\ Goto(c, "build")
  /\ UNCHANGED <<src, out, local, server, lock, key, held, exit, builder, orphan, counts>>

\* unpack, one output at a time: the object, the header, the end of the
\* archive.
RestoreObject(c) ==
  /\ pc[c] \in {"restore", "remoteRestore"}
  /\ held[c].bad # "start"
  /\ out' = [out EXCEPT ![c].object = held[c].object]
  /\ Goto(c, IF pc[c] = "restore" THEN "restoreHeader" ELSE "remoteHeader")
  /\ UNCHANGED <<src, local, server, lock, key, held, exit, builder, orphan, counts>>

RestoreHeader(c) ==
  /\ pc[c] \in {"restoreHeader", "remoteHeader"}
  /\ held[c].bad # "header"
  /\ out' = [out EXCEPT ![c].header = held[c].header]
  /\ Goto(c, IF pc[c] = "restoreHeader" THEN "restoreEnd" ELSE "remoteEnd")
  /\ UNCHANGED <<src, local, server, lock, key, held, exit, builder, orphan, counts>>

\* A local hit ends the run; a remote one goes on to clean up.
LocalHit(c) ==
  /\ pc[c] = "restoreEnd" /\ held[c].bad # "end"
  /\ Exit(c, "ok")
  /\ UNCHANGED <<src, out, local, server, lock, orphan, counts>>

RemoteHit(c) ==
  /\ pc[c] = "remoteEnd" /\ held[c].bad # "end"
  /\ held' = [held EXCEPT ![c] = None]
  /\ Goto(c, "cleanup")
  /\ UNCHANGED <<src, out, local, server, lock, key, exit, builder, orphan, counts>>

\* unpack has reached the place where it rejects the entry.
Rejects(c) ==
  \/ pc[c] \in {"restore", "remoteRestore"} /\ held[c].bad = "start"
  \/ pc[c] \in {"restoreHeader", "remoteHeader"} /\ held[c].bad = "header"
  \/ pc[c] \in {"restoreEnd", "remoteEnd"} /\ held[c].bad = "end"

\* Where unpack stops, it has not come to the next output, or File::create has
\* emptied that one and the copy has not filled it.
Stops(c) ==
  \/ UNCHANGED out
  \/ /\ pc[c] \in {"restore", "remoteRestore"}
     /\ out' = [out EXCEPT ![c].object = "torn"]
  \/ /\ pc[c] \in {"restoreHeader", "remoteHeader"}
     /\ out' = [out EXCEPT ![c].header = "torn"]

\* An error of the first restore_outputs is main's (`?`) ...
LocalCorrupt(c) ==
  /\ pc[c] \in {"restore", "restoreHeader", "restoreEnd"} /\ Rejects(c)
  /\ Stops(c)
  /\ Exit(c, "failed")
  /\ UNCHANGED <<src, local, server, lock, orphan, counts>>

\* ... while after a fetch it is a warning, and the entry is discarded.
RemoteCorrupt(c) ==
  /\ pc[c] \in {"remoteRestore", "remoteHeader", "remoteEnd"} /\ Rejects(c)
  /\ Stops(c)
  /\ held' = [held EXCEPT ![c] = None]
  /\ Goto(c, "discard")
  /\ UNCHANGED <<src, local, server, lock, key, exit, builder, orphan, counts>>

\* remove, its result ignored.
Discard(c) ==
  /\ pc[c] = "discard"
  /\ SetMine(c, None)
  /\ Goto(c, "build")
  /\ UNCHANGED <<src, out, server, lock, key, held, exit, builder, orphan, counts>>

\* GET: 404, or 200 and a body that is the entry of this instant.
FetchMiss(c) ==
  /\ pc[c] = "fetch" /\ server[key[c]] = None
  /\ Goto(c, "build")
  /\ UNCHANGED <<src, out, local, server, lock, key, held, exit, builder, orphan, counts>>

FetchBegin(c) ==
  /\ pc[c] = "fetch" /\ server[key[c]] # None
  /\ held' = [held EXCEPT ![c] = server[key[c]]]
  /\ Goto(c, "fetching")
  /\ UNCHANGED <<src, out, local, server, lock, key, exit, builder, orphan, counts>>

\* The body has arrived and is stored.
FetchEnd(c) ==
  /\ pc[c] = "fetching"
  /\ SetMine(c, held[c])
  /\ held' = [held EXCEPT ![c] = None]
  /\ Goto(c, "lookup")
  /\ UNCHANGED <<src, out, server, lock, key, exit, builder, orphan, counts>>

\* No connection, a timeout, another status, a body cut short, a failed store:
\* a warning, and a miss.
FetchFails(c) ==
  /\ pc[c] \in {"fetch", "fetching"}
  /\ held' = [held EXCEPT ![c] = None]
  /\ Goto(c, "build")
  /\ UNCHANGED <<src, out, local, server, lock, key, exit, builder, orphan, counts>>

-----------------------------------------------------------------------------
(* main: a miss *)

\* The builder reads the sources as they are now and writes both outputs.
Build(c) ==
  /\ pc[c] = "build"
  /\ out' = [out EXCEPT ![c] = [object |-> src[c], header |-> src[c]]]
  /\ builder' = [builder EXCEPT ![c] = "ok"]
  /\ Goto(c, "store")
  /\ UNCHANGED <<src, local, server, lock, key, held, exit, orphan, counts>>

\* The builder fails, whatever it has written: nothing is stored.
BuildFails(c) ==
  /\ pc[c] = "build"
  /\ out' = [out EXCEPT ![c] = [object |-> "torn", header |-> "torn"]]
  /\ builder' = [builder EXCEPT ![c] = "failed"]
  /\ Goto(c, "cleanup")
  /\ UNCHANGED <<src, local, server, lock, key, held, exit, orphan, counts>>

\* archive::store packs the two files as they are on disk.
Store(c) ==
  /\ pc[c] = "store"
  /\ SetMine(c, [object |-> out[c].object, header |-> out[c].header, bad |-> "no"])
  /\ Goto(c, IF c \in Remote THEN "upload" ELSE "cleanup")
  /\ UNCHANGED <<src, out, server, lock, key, held, exit, builder, orphan, counts>>

\* upload_from retrieves the entry it has just stored, or what has replaced it.
UploadBegin(c) ==
  /\ pc[c] = "upload" /\ Mine(c) # None
  /\ held' = [held EXCEPT ![c] = Mine(c)]
  /\ Goto(c, "uploading")
  /\ UNCHANGED <<src, out, local, server, lock, key, exit, builder, orphan, counts>>

UploadEnd(c) ==
  /\ pc[c] = "uploading"
  /\ server' = [server EXCEPT ![key[c]] = held[c]]
  /\ held' = [held EXCEPT ![c] = None]
  /\ Goto(c, "cleanup")
  /\ UNCHANGED <<src, out, local, lock, key, exit, builder, orphan, counts>>

\* The entry is gone, there is no connection, a timeout, the blob is too large:
\* a warning.  An answer may also get lost after the server has stored it.
UploadFails(c) ==
  /\ pc[c] \in {"upload", "uploading"}
  /\ \/ UNCHANGED server
     \/ pc[c] = "uploading" /\ server' = [server EXCEPT ![key[c]] = held[c]]
  /\ held' = [held EXCEPT ![c] = None]
  /\ Goto(c, "cleanup")
  /\ UNCHANGED <<src, out, local, lock, key, exit, builder, orphan, counts>>

\* clean_up waits for the lock; what a pass does under it is in LRU.tla, and
\* what it does to the entries is Evict below.  Its errors are warnings.
CleanUp(c) ==
  /\ pc[c] = "cleanup" /\ lock[MachineOf[c]] = None
  /\ lock' = [lock EXCEPT ![MachineOf[c]] = c]
  /\ Goto(c, "cleaning")
  /\ UNCHANGED <<src, out, local, server, key, held, exit, builder, orphan, counts>>

\* Ok(()) is what main returns, whatever became of the builder.
Finish(c) ==
  /\ pc[c] = "cleaning"
  /\ lock' = [lock EXCEPT ![MachineOf[c]] = None]
  /\ Exit(c, "ok")
  /\ UNCHANGED <<src, out, local, server, orphan, counts>>

\* A call on the client's own file system fails where main returns the error,
\* the ones before it has a key included, ...
IoError(c) ==
  /\ pc[c] \in {"idle", "local", "restore", "restoreHeader", "restoreEnd", "build",
               "store"}
  /\ MayFail /\ ioErrors < MaxIoErrors
  /\ ioErrors' = ioErrors + 1
  /\ Stops(c)
  /\ Exit(c, "failed")
  /\ UNCHANGED <<src, local, server, lock, orphan, kills, damage>>

\* ... and where it does not: after a fetch, the entry is taken for corrupt, and
\* when it cannot be removed it stays; a lock that cannot be had is not waited
\* for.
RemoteIoError(c) ==
  /\ MayFail /\ ioErrors < MaxIoErrors
  /\ ioErrors' = ioErrors + 1
  /\ Stops(c)
  /\ \/ /\ pc[c] \in {"lookup", "remoteRestore", "remoteHeader", "remoteEnd"}
        /\ Goto(c, "discard")
        /\ held' = [held EXCEPT ![c] = None]
        /\ UNCHANGED <<key, exit, builder>>
     \/ /\ pc[c] = "discard"
        /\ Goto(c, "build")
        /\ UNCHANGED <<key, held, exit, builder>>
     \/ /\ pc[c] = "cleanup"
        /\ Exit(c, "ok")
  /\ UNCHANGED <<src, local, server, lock, orphan, kills, damage>>

-----------------------------------------------------------------------------
(* The rest of the world *)

\* The sources are edited.
Edit(c) ==
  /\ EditsWhileBusy \/ pc[c] = "idle"
  /\ \E v \in Version \ {src[c]} : src' = [src EXCEPT ![c] = v]
  /\ UNCHANGED <<out, local, server, lock, client, orphan, counts>>

\* A pass evicts an entry, on a machine or on the server.
Evict ==
  /\ \E v \in Version :
       \/ /\ server' = [server EXCEPT ![v] = None]
          /\ UNCHANGED local
       \/ /\ \E m \in Machine : local' = [local EXCEPT ![m][v] = None]
          /\ UNCHANGED server
  /\ UNCHANGED <<src, out, lock, client, orphan, counts>>

\* An entry on the server's disk is damaged.
Damage ==
  /\ MayFail /\ damage < MaxDamage
  /\ damage' = damage + 1
  /\ \E v \in Version, b \in {"start", "header", "end"} :
       /\ server[v] # None
       /\ server' = [server EXCEPT ![v].bad = b]
  /\ UNCHANGED <<src, out, local, lock, client, orphan, kills, ioErrors>>

\* A client is killed: the system releases the lock it holds.  Its builder is
\* killed with it, whatever it has written, when the signal is for the whole
\* process group; otherwise it goes on, since main only waits for it
\* (main.rs:238-240).
Kill(c) ==
  /\ pc[c] # "idle"
  /\ MayFail /\ kills < MaxKills
  /\ kills' = kills + 1
  /\ lock' = [lock EXCEPT ![MachineOf[c]] = IF @ = c THEN None ELSE @]
  /\ \/ UNCHANGED orphan /\ Stops(c)
     \/ /\ pc[c] = "build"
        /\ out' = [out EXCEPT ![c] = [object |-> "torn", header |-> "torn"]]
        /\ UNCHANGED orphan
     \/ /\ c \in Detached /\ pc[c] = "build"
        /\ orphan' = [orphan EXCEPT ![c] = src[c]]
        /\ UNCHANGED out
  /\ Exit(c, "killed")
  /\ UNCHANGED <<src, local, server, damage, ioErrors>>

\* That builder has opened the outputs for writing ...
OrphanWrites(c) ==
  /\ orphan[c] \in Version
  /\ out' = [out EXCEPT ![c] = [object |-> "torn", header |-> "torn"]]
  /\ UNCHANGED <<src, local, server, lock, client, orphan, counts>>

\* ... and is done.
OrphanEnds(c) ==
  /\ orphan[c] \in Version
  /\ out' = [out EXCEPT ![c] = [object |-> orphan[c], header |-> orphan[c]]]
  /\ orphan' = [orphan EXCEPT ![c] = "done"]
  /\ UNCHANGED <<src, local, server, lock, client, counts>>

-----------------------------------------------------------------------------
Lookup(c) ==
  \/ LocalOpen(c) \/ LocalMiss(c) \/ FetchedOpen(c) \/ FetchedMiss(c)
  \/ RestoreObject(c) \/ RestoreHeader(c) \/ LocalHit(c) \/ RemoteHit(c)
  \/ LocalCorrupt(c) \/ RemoteCorrupt(c) \/ Discard(c)
  \/ FetchMiss(c) \/ FetchBegin(c) \/ FetchEnd(c) \/ FetchFails(c)

Produce(c) ==
  \/ Build(c) \/ BuildFails(c) \/ Store(c)
  \/ UploadBegin(c) \/ UploadEnd(c) \/ UploadFails(c)
  \/ CleanUp(c) \/ Finish(c)

Next ==
  \/ \E c \in Client :
       \/ Hash(c) \/ Lookup(c) \/ Produce(c)
       \/ IoError(c) \/ RemoteIoError(c) \/ Edit(c) \/ Kill(c)
       \/ OrphanWrites(c) \/ OrphanEnds(c)
  \/ Evict
  \/ Damage

Spec == Init /\ [][Next]_vars

\* A run that has started goes on: the builder ends, the remote's timeouts
\* (remote.rs:26-31) end every request, and a client that waits for the lock
\* gets it in the end.
FairSpec ==
  /\ Spec
  /\ \A c \in Client :
       /\ WF_vars(Lookup(c) \/ Produce(c))
       /\ SF_vars(CleanUp(c))

-----------------------------------------------------------------------------
(* Properties *)

Good(e, v) == e.object = v /\ e.header = v

\* The entry of a key is what the builder makes of the inputs hashed into it,
\* in every store and in every hand, damaged or not, ...
EntriesSurviveKills ==
  /\ \A v \in Version :
       /\ server[v] # None => Good(server[v], v)
       /\ \A m \in Machine : local[m][v] # None => Good(local[m][v], v)
  /\ \A c \in Client : held[c] # None => Good(held[c], key[c])

NoOrphans == \A c \in Client : orphan[c] = None

\* ... whatever clients are killed, as long as no builder has outlived its own.
EntriesMatchKeys == NoOrphans => EntriesSurviveKills

\* The run of c ends, and main returns Ok.
Ends(c) == exit[c] = "none" /\ exit[c]' = "ok"

\* "assert_built_from" (halide-cache/tests/e2e.rs:88-91): after a run that
\* ended well, and whose builder did, both outputs are those of the inputs it
\* hashed, whether they were built, restored, fetched, or restored in part and
\* then built (unless a builder that outlived its client interfered).
OutputsMatchKey ==
  [][\A c \in Client :
       NoOrphans /\ Ends(c) /\ builder[c] # "failed" => Good(out[c]', key[c])]_vars

\* "Failures talking to the server are reported but never fail the build"
\* (main.rs:26): as long as the client's own file system works, no run fails.
FailOpen == ioErrors = 0 => \A c \in Client : exit[c] # "failed"

\* A corrupt entry from the server does not outlive the run that fetched it
\* (main.rs:281-284), unless that run is killed or cannot remove it.
CorruptDiscarded ==
  kills = 0 /\ ioErrors = 0 => \A m \in Machine, v \in Version :
    local[m][v] # None /\ local[m][v].bad # "no" =>
      \E c \in Client : /\ MachineOf[c] = m /\ key[c] = v
                        /\ pc[c] \in {"lookup", "remoteRestore", "remoteHeader",
                                      "remoteEnd", "discard"}

\* Every run ends, whatever the server and the other clients do, those that are
\* killed with the lock in hand included (for the lock itself, see FairSpec).
RunsEnd == \A c \in Client : pc[c] # "idle" ~> pc[c] = "idle"
=============================================================================
