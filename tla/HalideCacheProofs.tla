------------------------- MODULE HalideCacheProofs -------------------------
(***************************************************************************)
(* Proofs about HalideCache for every number of clients, machines and      *)
(* versions and any failures: types, and, where nobody edits the sources   *)
(* of a build that runs (EditsWhileBusy = FALSE), that every entry is what *)
(* its key says and that a run that ends well leaves the outputs of the    *)
(* inputs it hashed; that corrupt entries are discarded; and, before the   *)
(* first damage or with one client on each machine, that a bad entry makes *)
(* no run fail.                                                            *)
(***************************************************************************)
EXTENDS HalideCache, TLAPS

\* The places where a client has an entry open, or receives or sends one.
Holding ==
  {"restore", "restoreHeader", "restoreEnd", "fetching", "remoteRestore",
   "remoteHeader", "remoteEnd", "uploading"}

\* A client has a key while it runs, and an entry where it needs one.
Control ==
  \A c \in Client : /\ pc[c] = "idle" <=> key[c] = None
                    /\ pc[c] \in Holding <=> held[c] # None
                    /\ pc[c] = "store" => out[c] \in [object : Output, header : Output]

SrcKept == \A c \in Client : key[c] # None => src[c] = key[c]

StoresGood ==
  \A v \in Version :
    /\ server[v] # None => Good(server[v], v)
    /\ \A m \in Machine : local[m][v] # None => Good(local[m][v], v)

HandsGood == \A c \in Client : held[c] # None => Good(held[c], key[c])

\* The outputs, at the places where they are those of the key.
OutputsGood ==
  \A c \in Client :
    /\ pc[c] \in {"restoreHeader", "remoteHeader"} => out[c].object = key[c]
    /\ pc[c] \in {"restoreEnd", "remoteEnd", "store"} => Good(out[c], key[c])
    /\ pc[c] \in {"upload", "uploading", "cleanup", "cleaning"} =>
         builder[c] = "failed" \/ Good(out[c], key[c])

\* The inductive invariant of HalideCache: the second conjunct holds as long as
\* no builder has outlived its client.
IInv ==
  /\ TypeOK
  /\ Control
  /\ ~EditsWhileBusy =>
       SrcKept /\ (NoOrphans => StoresGood /\ HandsGood /\ OutputsGood)
-----------------------------------------------------------------------------
\* A restore or a builder that comes to no end changes the outputs of its own
\* checkout only.
LEMMA StopsApart ==
  ASSUME TypeOK, NEW c \in Client,
         \/ Stops(c)
         \/ out' = [out EXCEPT ![c] = [object |-> "torn", header |-> "torn"]]
  PROVE  /\ out' \in [Client -> [object : Output \cup {None}, header : Output \cup {None}]]
         /\ \A d \in Client \ {c} : out'[d] = out[d]
<1> DEFINE Outs == [object : Output \cup {None}, header : Output \cup {None}]
<1>1. out \in [Client -> Outs] /\ out[c] \in Outs /\ "torn" \in Output
  BY DEF TypeOK, Output
<1>2. /\ [out[c] EXCEPT !.object = "torn"] \in Outs
      /\ [out[c] EXCEPT !.header = "torn"] \in Outs
      /\ [object |-> "torn", header |-> "torn"] \in Outs
  BY <1>1
<1>3. \/ UNCHANGED out
      \/ \E o \in Outs : out' = [out EXCEPT ![c] = o]
  <2>1. CASE out' = [out EXCEPT ![c].object = "torn"]
    BY <1>2, <2>1
  <2>2. CASE out' = [out EXCEPT ![c].header = "torn"]
    BY <1>2, <2>2
  <2>3. CASE out' = [out EXCEPT ![c] = [object |-> "torn", header |-> "torn"]]
    BY <1>2, <2>3
  <2> QED
    BY <2>1, <2>2, <2>3 DEF Stops
<1> HIDE DEF Outs
<1>4. out' \in [Client -> Outs] /\ \A d \in Client \ {c} : out'[d] = out[d]
  BY <1>1, <1>3
<1> QED
  BY <1>4 DEF Outs

\* Every step keeps the types ...
LEMMA TypeNext ==
  ASSUME TypeOK, Control, Next
  PROVE  TypeOK'
<1>m. ASSUME NEW c \in Client, Mine(c) # None, pc[c] # "idle"
      PROVE  Mine(c) \in Entry
  <2>1. key[c] \in Version /\ MachineOf[c] \in Machine
    BY <1>m, MachineAssumption DEF Control, TypeOK
  <2> QED
    BY <1>m, <2>1 DEF Mine, TypeOK
<1>n. ASSUME NEW c \in Client,
             \/ Hash(c) \/ Lookup(c) \/ Produce(c) \/ IoError(c) \/ RemoteIoError(c)
             \/ Edit(c) \/ Kill(c) \/ OrphanWrites(c) \/ OrphanEnds(c)
      PROVE  TypeOK'
  <2>1. CASE Hash(c)
    BY <2>1, NoneAssumption, MachineAssumption, BoundsAssumption
    DEF Hash, Goto, counts, TypeOK, Control, Holding, Entry, Output, Places
  <2>2. CASE LocalOpen(c)
    <3>1. Mine(c) \in Entry
      BY <1>m, <2>2 DEF LocalOpen
    <3>2. /\ held' = [held EXCEPT ![c] = Mine(c)] /\ pc' = [pc EXCEPT ![c] = "restore"]
          /\ UNCHANGED <<src, out, local, server, lock, key, exit, builder, orphan, counts>>
      BY <2>2 DEF LocalOpen, Goto
    <3> HIDE DEF Mine
    <3> QED
      BY <3>1, <3>2 DEF TypeOK, Places, counts
  <2>3. CASE LocalMiss(c)
    BY <2>3, NoneAssumption, MachineAssumption, BoundsAssumption
    DEF LocalMiss, Goto, Mine, counts, TypeOK, Control, Holding, Entry, Output,
        Places
  <2>4. CASE FetchedOpen(c)
    <3>1. Mine(c) \in Entry
      BY <1>m, <2>4 DEF FetchedOpen
    <3>2. /\ held' = [held EXCEPT ![c] = Mine(c)] /\ pc' = [pc EXCEPT ![c] = "remoteRestore"]
          /\ UNCHANGED <<src, out, local, server, lock, key, exit, builder, orphan, counts>>
      BY <2>4 DEF FetchedOpen, Goto
    <3> HIDE DEF Mine
    <3> QED
      BY <3>1, <3>2 DEF TypeOK, Places, counts
  <2>5. CASE FetchedMiss(c)
    BY <2>5, NoneAssumption, MachineAssumption, BoundsAssumption
    DEF FetchedMiss, Goto, Mine, counts, TypeOK, Control, Holding, Entry, Output,
        Places
  <2>6. CASE RestoreObject(c)
    <3>1. held[c] \in Entry
      BY <2>6 DEF Control, Holding, RestoreObject, TypeOK
    <3>2. held[c].object \in Output
      BY <3>1 DEF Entry
    <3>3. /\ out' = [out EXCEPT ![c].object = held[c].object] /\ pc' \in [Client -> Places]
          /\ UNCHANGED <<src, local, server, lock, key, held, exit, builder, orphan, counts>>
      BY <2>6 DEF RestoreObject, Goto, TypeOK, Places
    <3>o. out[c] \in [object : Output \cup {None}, header : Output \cup {None}]
      BY DEF TypeOK
    <3>5. [out[c] EXCEPT !.object = held[c].object] \in
            [object : Output \cup {None}, header : Output \cup {None}]
      BY <3>2, <3>o
    <3>6. out' \in [Client -> [object : Output \cup {None}, header : Output \cup {None}]]
      BY <3>3, <3>5 DEF TypeOK
    <3> QED
      BY <3>3, <3>6 DEF TypeOK, counts
  <2>7. CASE RestoreHeader(c)
    <3>1. held[c] \in Entry
      BY <2>7 DEF Control, Holding, RestoreHeader, TypeOK
    <3>2. held[c].header \in Output
      BY <3>1 DEF Entry
    <3>3. /\ out' = [out EXCEPT ![c].header = held[c].header] /\ pc' \in [Client -> Places]
          /\ UNCHANGED <<src, local, server, lock, key, held, exit, builder, orphan, counts>>
      BY <2>7 DEF RestoreHeader, Goto, TypeOK, Places
    <3>o. out[c] \in [object : Output \cup {None}, header : Output \cup {None}]
      BY DEF TypeOK
    <3>5. [out[c] EXCEPT !.header = held[c].header] \in
            [object : Output \cup {None}, header : Output \cup {None}]
      BY <3>2, <3>o
    <3>6. out' \in [Client -> [object : Output \cup {None}, header : Output \cup {None}]]
      BY <3>3, <3>5 DEF TypeOK
    <3> QED
      BY <3>3, <3>6 DEF TypeOK, counts
  <2>8. CASE LocalHit(c)
    BY <2>8, NoneAssumption, MachineAssumption, BoundsAssumption
    DEF LocalHit, Goto, Exit, counts, TypeOK, Control, Holding, Entry, Output,
        Places
  <2>9. CASE RemoteHit(c)
    BY <2>9, NoneAssumption, MachineAssumption, BoundsAssumption
    DEF RemoteHit, Goto, counts, TypeOK, Control, Holding, Entry, Output, Places
  <2>10. CASE LocalCorrupt(c)
    <3>1. out' \in [Client -> [object : Output \cup {None}, header : Output \cup {None}]]
      BY <2>10, StopsApart DEF LocalCorrupt
    <3> QED
      BY <2>10, <3>1, NoneAssumption, MachineAssumption, BoundsAssumption
      DEF LocalCorrupt, Goto, Exit, counts, TypeOK, Control, Holding, Entry, Output,
          Places
  <2>11. CASE RemoteCorrupt(c)
    <3>1. out' \in [Client -> [object : Output \cup {None}, header : Output \cup {None}]]
      BY <2>11, StopsApart DEF RemoteCorrupt
    <3> QED
      BY <2>11, <3>1, NoneAssumption, MachineAssumption, BoundsAssumption
      DEF RemoteCorrupt, Goto, counts, TypeOK, Control, Holding, Entry, Output, Places
  <2>12. CASE Discard(c)
    BY <2>12, NoneAssumption, MachineAssumption, BoundsAssumption
    DEF Discard, Goto, SetMine, counts, TypeOK, Control, Holding, Entry, Output,
        Places
  <2>13. CASE FetchMiss(c)
    BY <2>13, NoneAssumption, MachineAssumption, BoundsAssumption
    DEF FetchMiss, Goto, counts, TypeOK, Control, Holding, Entry, Output, Places
  <2>14. CASE FetchBegin(c)
    BY <2>14, NoneAssumption, MachineAssumption, BoundsAssumption
    DEF FetchBegin, Goto, counts, TypeOK, Control, Holding, Entry, Output, Places
  <2>15. CASE FetchEnd(c)
    BY <2>15, NoneAssumption, MachineAssumption, BoundsAssumption
    DEF FetchEnd, Goto, SetMine, counts, TypeOK, Control, Holding, Entry, Output,
        Places
  <2>16. CASE FetchFails(c)
    BY <2>16, NoneAssumption, MachineAssumption, BoundsAssumption
    DEF FetchFails, Goto, counts, TypeOK, Control, Holding, Entry, Output, Places
  <2>17. CASE Build(c)
    BY <2>17, NoneAssumption, MachineAssumption, BoundsAssumption
    DEF Build, Goto, counts, TypeOK, Control, Holding, Entry, Output, Places
  <2>18. CASE BuildFails(c)
    BY <2>18, NoneAssumption, MachineAssumption, BoundsAssumption
    DEF BuildFails, Goto, counts, TypeOK, Control, Holding, Entry, Output, Places
  <2>19. CASE Store(c)
    <3> DEFINE e == [object |-> out[c].object, header |-> out[c].header, bad |-> "no"]
    <3>1. out[c] \in [object : Output, header : Output]
      BY <2>19 DEF Control, Store
    <3>2. e \in Entry
      BY <3>1 DEF Entry
    <3>3. /\ SetMine(c, e) /\ pc' \in [Client -> Places]
          /\ UNCHANGED <<src, out, server, lock, key, held, exit, builder, orphan, counts>>
      BY <2>19 DEF Store, Goto, TypeOK, Places
    <3> HIDE DEF e
    <3> QED
      BY <3>2, <3>3 DEF SetMine, TypeOK, counts
  <2>20. CASE UploadBegin(c)
    <3>1. Mine(c) \in Entry
      BY <1>m, <2>20 DEF UploadBegin
    <3>2. /\ held' = [held EXCEPT ![c] = Mine(c)] /\ pc' = [pc EXCEPT ![c] = "uploading"]
          /\ UNCHANGED <<src, out, local, server, lock, key, exit, builder, orphan, counts>>
      BY <2>20 DEF UploadBegin, Goto
    <3> HIDE DEF Mine
    <3> QED
      BY <3>1, <3>2 DEF TypeOK, Places, counts
  <2>21. CASE UploadEnd(c)
    BY <2>21, NoneAssumption, MachineAssumption, BoundsAssumption
    DEF UploadEnd, Goto, counts, TypeOK, Control, Holding, Entry, Output, Places
  <2>22. CASE UploadFails(c)
    <3>1. server' \in [Version -> Entry \cup {None}]
      BY <2>22 DEF UploadFails, TypeOK
    <3>2. pc' \in [Client -> Places] /\ held' \in [Client -> Entry \cup {None}]
      BY <2>22 DEF UploadFails, Goto, TypeOK, Places
    <3>3. UNCHANGED <<src, out, local, lock, key, exit, builder, orphan, counts>>
      BY <2>22 DEF UploadFails
    <3> QED
      BY <3>1, <3>2, <3>3 DEF TypeOK, counts
  <2>23. CASE CleanUp(c)
    BY <2>23, NoneAssumption, MachineAssumption, BoundsAssumption
    DEF CleanUp, Goto, counts, TypeOK, Control, Holding, Entry, Output, Places
  <2>24. CASE Finish(c)
    BY <2>24, NoneAssumption, MachineAssumption, BoundsAssumption
    DEF Finish, Goto, Exit, counts, TypeOK, Control, Holding, Entry, Output, Places
  <2>25. CASE IoError(c)
    <3>1. /\ out' \in [Client -> [object : Output \cup {None}, header : Output \cup {None}]]
          /\ ioErrors' \in 0 .. MaxIoErrors
      BY <2>25, StopsApart, BoundsAssumption DEF IoError, TypeOK
    <3>2. UNCHANGED <<src, local, server, lock, orphan, kills, damage>>
      BY <2>25 DEF IoError
    <3>3. /\ pc' \in [Client -> Places] /\ held' \in [Client -> Entry \cup {None}]
          /\ key' \in [Client -> Version \cup {None}]
          /\ exit' \in [Client -> {"none", "ok", "failed", "killed"}]
          /\ builder' \in [Client -> {"none", "ok", "failed"}]
      BY <2>25 DEF IoError, Exit, Goto, TypeOK, Places
    <3> QED
      BY <3>1, <3>2, <3>3 DEF TypeOK
  <2>26. CASE RemoteIoError(c)
    <3>1. ioErrors' \in 0 .. MaxIoErrors
      BY <2>26, BoundsAssumption DEF RemoteIoError, TypeOK
    <3>2. /\ UNCHANGED <<src, local, server, lock, orphan, kills, damage>>
          /\ out' \in [Client -> [object : Output \cup {None}, header : Output \cup {None}]]
      BY <2>26, StopsApart DEF RemoteIoError
    <3>3. /\ pc' \in [Client -> Places] /\ held' \in [Client -> Entry \cup {None}]
          /\ key' \in [Client -> Version \cup {None}]
          /\ exit' \in [Client -> {"none", "ok", "failed", "killed"}]
          /\ builder' \in [Client -> {"none", "ok", "failed"}]
      <4>1. CASE pc[c] = "cleanup" /\ Exit(c, "ok")
        BY <4>1 DEF Exit, Goto, TypeOK, Places
      <4>2. CASE Goto(c, "discard") /\ held' = [held EXCEPT ![c] = None]
                   /\ UNCHANGED <<key, exit, builder>>
        BY <4>2 DEF Goto, TypeOK, Places
      <4>3. CASE Goto(c, "build") /\ UNCHANGED <<key, held, exit, builder>>
        BY <4>3 DEF Goto, TypeOK, Places
      <4> QED
        BY <2>26, <4>1, <4>2, <4>3 DEF RemoteIoError
    <3> QED
      BY <3>1, <3>2, <3>3 DEF TypeOK
  <2>27. CASE Edit(c)
    BY <2>27, NoneAssumption, MachineAssumption, BoundsAssumption
    DEF Edit, client, counts, TypeOK, Control, Holding, Entry, Output, Places
  <2>28. CASE Kill(c)
    <3>1. /\ kills' \in 0 .. MaxKills
          /\ UNCHANGED <<src, local, server, damage, ioErrors>>
      BY <2>28, BoundsAssumption DEF Kill, TypeOK
    <3>o. out' \in [Client -> [object : Output \cup {None}, header : Output \cup {None}]]
      BY <2>28, StopsApart DEF Kill, TypeOK
    <3>2. lock' \in [Machine -> Client \cup {None}]
      BY <2>28 DEF Kill, TypeOK
    <3>3. orphan' \in [Client -> Version \cup {"done", None}]
      BY <2>28 DEF Kill, TypeOK
    <3>4. /\ pc' \in [Client -> Places] /\ held' \in [Client -> Entry \cup {None}]
          /\ key' \in [Client -> Version \cup {None}]
          /\ exit' \in [Client -> {"none", "ok", "failed", "killed"}]
          /\ builder' \in [Client -> {"none", "ok", "failed"}]
      BY <2>28 DEF Kill, Exit, Goto, TypeOK, Places
    <3> QED
      BY <3>1, <3>o, <3>2, <3>3, <3>4 DEF TypeOK
  <2>29. CASE OrphanWrites(c)
    BY <2>29, NoneAssumption, MachineAssumption, BoundsAssumption
    DEF OrphanWrites, client, counts, TypeOK, Control, Holding, Entry, Output,
        Places
  <2>30. CASE OrphanEnds(c)
    BY <2>30, NoneAssumption, MachineAssumption, BoundsAssumption
    DEF OrphanEnds, client, counts, TypeOK, Control, Holding, Entry, Output, Places
  <2> QED
    BY <1>n, <2>1, <2>2, <2>3, <2>4, <2>5, <2>6, <2>7, <2>8, <2>9, <2>10, <2>11,
       <2>12, <2>13, <2>14, <2>15, <2>16, <2>17, <2>18, <2>19, <2>20, <2>21, <2>22,
       <2>23, <2>24, <2>25, <2>26, <2>27, <2>28, <2>29, <2>30 DEF Lookup, Produce
<1>3. CASE Evict
  <2>1. PICK v \in Version :
          \/ server' = [server EXCEPT ![v] = None] /\ UNCHANGED local
          \/ /\ \E m \in Machine : local' = [local EXCEPT ![m][v] = None]
             /\ UNCHANGED server
    BY <1>3 DEF Evict
  <2>2. /\ server' \in [Version -> Entry \cup {None}]
        /\ local' \in [Machine -> [Version -> Entry \cup {None}]]
    <3>1. CASE server' = [server EXCEPT ![v] = None] /\ UNCHANGED local
      BY <3>1 DEF TypeOK
    <3>2. ASSUME NEW m \in Machine, local' = [local EXCEPT ![m][v] = None], UNCHANGED server
          PROVE  /\ server' \in [Version -> Entry \cup {None}]
                 /\ local' \in [Machine -> [Version -> Entry \cup {None}]]
      BY <3>2 DEF TypeOK
    <3> QED
      BY <2>1, <3>1, <3>2
  <2>3. UNCHANGED <<src, out, lock, client, orphan, counts>>
    BY <1>3 DEF Evict
  <2> QED
    BY <2>2, <2>3 DEF TypeOK, client, counts
<1>4. CASE Damage
  <2>1. PICK v \in Version, b \in {"start", "header", "end"} :
          server[v] # None /\ server' = [server EXCEPT ![v].bad = b]
    BY <1>4 DEF Damage
  <2>2. server[v] \in Entry
    BY <2>1 DEF TypeOK
  <2>3. [server[v] EXCEPT !.bad = b] \in Entry
    BY <2>2 DEF Entry
  <2>4. server' \in [Version -> Entry \cup {None}]
    BY <2>1, <2>3 DEF TypeOK
  <2>5. /\ damage' \in 0 .. MaxDamage
        /\ UNCHANGED <<src, out, local, lock, client, orphan, kills, ioErrors>>
    BY <1>4, BoundsAssumption DEF Damage, TypeOK
  <2> QED
    BY <2>4, <2>5 DEF TypeOK, client
<1> QED
  BY <1>n, <1>3, <1>4 DEF Next

\* ... and what a client has at each place.
LEMMA ControlNext ==
  ASSUME TypeOK, Control, Next
  PROVE  Control'
<1>n. ASSUME NEW c \in Client,
             \/ Hash(c) \/ Lookup(c) \/ Produce(c) \/ IoError(c) \/ RemoteIoError(c)
             \/ Edit(c) \/ Kill(c) \/ OrphanWrites(c) \/ OrphanEnds(c)
      PROVE  Control'
  <2>1. CASE Hash(c)
    BY <2>1, NoneAssumption
    DEF Hash, Goto, counts, TypeOK, Control, Holding, Entry, Output
  <2>2. CASE LocalOpen(c)
    BY <2>2, NoneAssumption
    DEF LocalOpen, Goto, Mine, counts, TypeOK, Control, Holding, Entry, Output
  <2>3. CASE LocalMiss(c)
    BY <2>3, NoneAssumption
    DEF LocalMiss, Goto, Mine, counts, TypeOK, Control, Holding, Entry, Output
  <2>4. CASE FetchedOpen(c)
    BY <2>4, NoneAssumption
    DEF FetchedOpen, Goto, Mine, counts, TypeOK, Control, Holding, Entry, Output
  <2>5. CASE FetchedMiss(c)
    BY <2>5, NoneAssumption
    DEF FetchedMiss, Goto, Mine, counts, TypeOK, Control, Holding, Entry, Output
  <2>6. CASE RestoreObject(c)
    BY <2>6, NoneAssumption
    DEF RestoreObject, Goto, counts, TypeOK, Control, Holding, Entry, Output
  <2>7. CASE RestoreHeader(c)
    BY <2>7, NoneAssumption
    DEF RestoreHeader, Goto, counts, TypeOK, Control, Holding, Entry, Output
  <2>8. CASE LocalHit(c)
    BY <2>8, NoneAssumption
    DEF LocalHit, Goto, Exit, counts, TypeOK, Control, Holding, Entry, Output
  <2>9. CASE RemoteHit(c)
    BY <2>9, NoneAssumption
    DEF RemoteHit, Goto, counts, TypeOK, Control, Holding, Entry, Output
  <2>10. CASE LocalCorrupt(c)
    <3>1. \A d \in Client \ {c} : out'[d] = out[d]
      BY <2>10, StopsApart DEF LocalCorrupt
    <3> QED
      BY <2>10, <3>1, NoneAssumption
      DEF LocalCorrupt, Goto, Exit, counts, TypeOK, Control, Holding, Entry, Output
  <2>11. CASE RemoteCorrupt(c)
    <3>1. \A d \in Client \ {c} : out'[d] = out[d]
      BY <2>11, StopsApart DEF RemoteCorrupt
    <3> QED
      BY <2>11, <3>1, NoneAssumption
      DEF RemoteCorrupt, Goto, counts, TypeOK, Control, Holding, Entry, Output
  <2>12. CASE Discard(c)
    BY <2>12, NoneAssumption
    DEF Discard, Goto, SetMine, counts, TypeOK, Control, Holding, Entry, Output
  <2>13. CASE FetchMiss(c)
    BY <2>13, NoneAssumption
    DEF FetchMiss, Goto, counts, TypeOK, Control, Holding, Entry, Output
  <2>14. CASE FetchBegin(c)
    BY <2>14, NoneAssumption
    DEF FetchBegin, Goto, counts, TypeOK, Control, Holding, Entry, Output
  <2>15. CASE FetchEnd(c)
    BY <2>15, NoneAssumption
    DEF FetchEnd, Goto, SetMine, counts, TypeOK, Control, Holding, Entry, Output
  <2>16. CASE FetchFails(c)
    BY <2>16, NoneAssumption
    DEF FetchFails, Goto, counts, TypeOK, Control, Holding, Entry, Output
  <2>17. CASE Build(c)
    BY <2>17, NoneAssumption
    DEF Build, Goto, counts, TypeOK, Control, Holding, Entry, Output
  <2>18. CASE BuildFails(c)
    BY <2>18, NoneAssumption
    DEF BuildFails, Goto, counts, TypeOK, Control, Holding, Entry, Output
  <2>19. CASE Store(c)
    BY <2>19, NoneAssumption
    DEF Store, Goto, SetMine, counts, TypeOK, Control, Holding, Entry, Output
  <2>20. CASE UploadBegin(c)
    BY <2>20, NoneAssumption
    DEF UploadBegin, Goto, Mine, counts, TypeOK, Control, Holding, Entry, Output
  <2>21. CASE UploadEnd(c)
    BY <2>21, NoneAssumption
    DEF UploadEnd, Goto, counts, TypeOK, Control, Holding, Entry, Output
  <2>22. CASE UploadFails(c)
    BY <2>22, NoneAssumption
    DEF UploadFails, Goto, counts, TypeOK, Control, Holding, Entry, Output
  <2>23. CASE CleanUp(c)
    BY <2>23, NoneAssumption
    DEF CleanUp, Goto, counts, TypeOK, Control, Holding, Entry, Output
  <2>24. CASE Finish(c)
    BY <2>24, NoneAssumption
    DEF Finish, Goto, Exit, counts, TypeOK, Control, Holding, Entry, Output
  <2>25. CASE IoError(c)
    <3>1. \A d \in Client \ {c} : out'[d] = out[d]
      BY <2>25, StopsApart DEF IoError
    <3> QED
      BY <2>25, <3>1, NoneAssumption
      DEF IoError, Goto, Exit, TypeOK, Control, Holding, Entry, Output
  <2>26. CASE RemoteIoError(c)
    <3>1. \A d \in Client \ {c} : out'[d] = out[d]
      BY <2>26, StopsApart DEF RemoteIoError
    <3> QED
      BY <2>26, <3>1, NoneAssumption
      DEF RemoteIoError, Goto, Exit, TypeOK, Control, Holding, Entry, Output
  <2>27. CASE Edit(c)
    BY <2>27, NoneAssumption
    DEF Edit, client, counts, TypeOK, Control, Holding, Entry, Output
  <2>28. CASE Kill(c)
    <3>1. \A d \in Client \ {c} : out'[d] = out[d]
      BY <2>28, StopsApart DEF Kill
    <3> QED
      BY <2>28, <3>1, NoneAssumption
      DEF Kill, Goto, Exit, TypeOK, Control, Holding, Entry, Output
  <2>29. CASE OrphanWrites(c)
    BY <2>29, NoneAssumption
    DEF OrphanWrites, client, counts, TypeOK, Control, Holding, Entry, Output
  <2>30. CASE OrphanEnds(c)
    BY <2>30, NoneAssumption
    DEF OrphanEnds, client, counts, TypeOK, Control, Holding, Entry, Output
  <2> QED
    BY <1>n, <2>1, <2>2, <2>3, <2>4, <2>5, <2>6, <2>7, <2>8, <2>9, <2>10, <2>11,
       <2>12, <2>13, <2>14, <2>15, <2>16, <2>17, <2>18, <2>19, <2>20, <2>21, <2>22,
       <2>23, <2>24, <2>25, <2>26, <2>27, <2>28, <2>29, <2>30 DEF Lookup, Produce
<1>2. CASE Evict
  BY <1>2, NoneAssumption
  DEF Evict, client, counts, TypeOK, Control, Holding, Entry, Output
<1>3. CASE Damage
  BY <1>3, NoneAssumption
  DEF Damage, client, TypeOK, Control, Holding, Entry, Output
<1> QED
  BY <1>n, <1>2, <1>3 DEF Next

\* The sources of a client that runs are those it hashed.
LEMMA SrcNext ==
  ASSUME TypeOK, Control, SrcKept, ~EditsWhileBusy, Next
  PROVE  SrcKept'
<1>n. ASSUME NEW c \in Client,
             \/ Hash(c) \/ Lookup(c) \/ Produce(c) \/ IoError(c) \/ RemoteIoError(c)
             \/ Edit(c) \/ Kill(c) \/ OrphanWrites(c) \/ OrphanEnds(c)
      PROVE  SrcKept'
  <2>1. CASE Hash(c)
    BY <2>1, NoneAssumption
    DEF Hash, Goto, counts, TypeOK, Control, SrcKept
  <2>2. CASE LocalOpen(c)
    BY <2>2, NoneAssumption
    DEF LocalOpen, Goto, Mine, counts, TypeOK, Control, SrcKept
  <2>3. CASE LocalMiss(c)
    BY <2>3, NoneAssumption
    DEF LocalMiss, Goto, Mine, counts, TypeOK, Control, SrcKept
  <2>4. CASE FetchedOpen(c)
    BY <2>4, NoneAssumption
    DEF FetchedOpen, Goto, Mine, counts, TypeOK, Control, SrcKept
  <2>5. CASE FetchedMiss(c)
    BY <2>5, NoneAssumption
    DEF FetchedMiss, Goto, Mine, counts, TypeOK, Control, SrcKept
  <2>6. CASE RestoreObject(c)
    BY <2>6, NoneAssumption
    DEF RestoreObject, Goto, counts, TypeOK, Control, SrcKept
  <2>7. CASE RestoreHeader(c)
    BY <2>7, NoneAssumption
    DEF RestoreHeader, Goto, counts, TypeOK, Control, SrcKept
  <2>8. CASE LocalHit(c)
    BY <2>8, NoneAssumption
    DEF LocalHit, Goto, Exit, counts, TypeOK, Control, SrcKept
  <2>9. CASE RemoteHit(c)
    BY <2>9, NoneAssumption
    DEF RemoteHit, Goto, counts, TypeOK, Control, SrcKept
  <2>10. CASE LocalCorrupt(c)
    BY <2>10, NoneAssumption
    DEF LocalCorrupt, Goto, Exit, counts, TypeOK, Control, SrcKept
  <2>11. CASE RemoteCorrupt(c)
    BY <2>11, NoneAssumption
    DEF RemoteCorrupt, Goto, counts, TypeOK, Control, SrcKept
  <2>12. CASE Discard(c)
    BY <2>12, NoneAssumption
    DEF Discard, Goto, SetMine, counts, TypeOK, Control, SrcKept
  <2>13. CASE FetchMiss(c)
    BY <2>13, NoneAssumption
    DEF FetchMiss, Goto, counts, TypeOK, Control, SrcKept
  <2>14. CASE FetchBegin(c)
    BY <2>14, NoneAssumption
    DEF FetchBegin, Goto, counts, TypeOK, Control, SrcKept
  <2>15. CASE FetchEnd(c)
    BY <2>15, NoneAssumption
    DEF FetchEnd, Goto, SetMine, counts, TypeOK, Control, SrcKept
  <2>16. CASE FetchFails(c)
    BY <2>16, NoneAssumption
    DEF FetchFails, Goto, counts, TypeOK, Control, SrcKept
  <2>17. CASE Build(c)
    BY <2>17, NoneAssumption
    DEF Build, Goto, counts, TypeOK, Control, SrcKept
  <2>18. CASE BuildFails(c)
    BY <2>18, NoneAssumption
    DEF BuildFails, Goto, counts, TypeOK, Control, SrcKept
  <2>19. CASE Store(c)
    BY <2>19, NoneAssumption
    DEF Store, Goto, SetMine, counts, TypeOK, Control, SrcKept
  <2>20. CASE UploadBegin(c)
    BY <2>20, NoneAssumption
    DEF UploadBegin, Goto, Mine, counts, TypeOK, Control, SrcKept
  <2>21. CASE UploadEnd(c)
    BY <2>21, NoneAssumption
    DEF UploadEnd, Goto, counts, TypeOK, Control, SrcKept
  <2>22. CASE UploadFails(c)
    BY <2>22, NoneAssumption
    DEF UploadFails, Goto, counts, TypeOK, Control, SrcKept
  <2>23. CASE CleanUp(c)
    BY <2>23, NoneAssumption
    DEF CleanUp, Goto, counts, TypeOK, Control, SrcKept
  <2>24. CASE Finish(c)
    BY <2>24, NoneAssumption
    DEF Finish, Goto, Exit, counts, TypeOK, Control, SrcKept
  <2>25. CASE IoError(c)
    BY <2>25, NoneAssumption
    DEF IoError, Goto, Exit, TypeOK, Control, SrcKept
  <2>26. CASE RemoteIoError(c)
    BY <2>26, NoneAssumption
    DEF RemoteIoError, Goto, Exit, TypeOK, Control, SrcKept
  <2>27. CASE Edit(c)
    BY <2>27, NoneAssumption
    DEF Edit, client, counts, TypeOK, Control, SrcKept
  <2>28. CASE Kill(c)
    BY <2>28, NoneAssumption
    DEF Kill, Goto, Exit, TypeOK, Control, SrcKept
  <2>29. CASE OrphanWrites(c)
    BY <2>29, NoneAssumption
    DEF OrphanWrites, client, counts, TypeOK, Control, SrcKept
  <2>30. CASE OrphanEnds(c)
    BY <2>30, NoneAssumption
    DEF OrphanEnds, client, counts, TypeOK, Control, SrcKept
  <2> QED
    BY <1>n, <2>1, <2>2, <2>3, <2>4, <2>5, <2>6, <2>7, <2>8, <2>9, <2>10, <2>11,
       <2>12, <2>13, <2>14, <2>15, <2>16, <2>17, <2>18, <2>19, <2>20, <2>21, <2>22,
       <2>23, <2>24, <2>25, <2>26, <2>27, <2>28, <2>29, <2>30 DEF Lookup, Produce
<1>2. CASE Evict
  BY <1>2, NoneAssumption
  DEF Evict, client, counts, TypeOK, Control, SrcKept
<1>3. CASE Damage
  BY <1>3, NoneAssumption
  DEF Damage, client, TypeOK, Control, SrcKept
<1> QED
  BY <1>n, <1>2, <1>3 DEF Next

\* What is written to a store is right: it comes from the outputs of a build, from
\* the server, or from another store.
LEMMA StoresNext ==
  ASSUME TypeOK, Control, SrcKept, NoOrphans, StoresGood, HandsGood, OutputsGood, Next
  PROVE  StoresGood'
<1>n. ASSUME NEW c \in Client,
             \/ Hash(c) \/ Lookup(c) \/ Produce(c) \/ IoError(c) \/ RemoteIoError(c)
             \/ Edit(c) \/ Kill(c) \/ OrphanWrites(c) \/ OrphanEnds(c)
      PROVE  StoresGood'
  <2>1. CASE Hash(c)
    BY <2>1, NoneAssumption, MachineAssumption
    DEF Hash, Goto, counts, TypeOK, Control, Holding, StoresGood, HandsGood
  <2>2. CASE LocalOpen(c)
    BY <2>2, NoneAssumption, MachineAssumption
    DEF LocalOpen, Goto, Mine, counts, TypeOK, Control, Holding, StoresGood,
        HandsGood
  <2>3. CASE LocalMiss(c)
    BY <2>3, NoneAssumption, MachineAssumption
    DEF LocalMiss, Goto, Mine, counts, TypeOK, Control, Holding, StoresGood,
        HandsGood
  <2>4. CASE FetchedOpen(c)
    BY <2>4, NoneAssumption, MachineAssumption
    DEF FetchedOpen, Goto, Mine, counts, TypeOK, Control, Holding, StoresGood,
        HandsGood
  <2>5. CASE FetchedMiss(c)
    BY <2>5, NoneAssumption, MachineAssumption
    DEF FetchedMiss, Goto, Mine, counts, TypeOK, Control, Holding, StoresGood,
        HandsGood
  <2>6. CASE RestoreObject(c)
    BY <2>6, NoneAssumption, MachineAssumption
    DEF RestoreObject, Goto, counts, TypeOK, Control, Holding, StoresGood, HandsGood
  <2>7. CASE RestoreHeader(c)
    BY <2>7, NoneAssumption, MachineAssumption
    DEF RestoreHeader, Goto, counts, TypeOK, Control, Holding, StoresGood, HandsGood
  <2>8. CASE LocalHit(c)
    BY <2>8, NoneAssumption, MachineAssumption
    DEF LocalHit, Goto, Exit, counts, TypeOK, Control, Holding, StoresGood,
        HandsGood
  <2>9. CASE RemoteHit(c)
    BY <2>9, NoneAssumption, MachineAssumption
    DEF RemoteHit, Goto, counts, TypeOK, Control, Holding, StoresGood, HandsGood
  <2>10. CASE LocalCorrupt(c)
    BY <2>10, NoneAssumption, MachineAssumption
    DEF LocalCorrupt, Goto, Exit, counts, TypeOK, Control, Holding, StoresGood,
        HandsGood
  <2>11. CASE RemoteCorrupt(c)
    BY <2>11, NoneAssumption, MachineAssumption
    DEF RemoteCorrupt, Goto, counts, TypeOK, Control, Holding, StoresGood, HandsGood
  <2>12. CASE Discard(c)
    BY <2>12, NoneAssumption, MachineAssumption
    DEF Discard, Goto, SetMine, counts, TypeOK, Control, Holding, StoresGood,
        HandsGood
  <2>13. CASE FetchMiss(c)
    BY <2>13, NoneAssumption, MachineAssumption
    DEF FetchMiss, Goto, counts, TypeOK, Control, Holding, StoresGood, HandsGood
  <2>14. CASE FetchBegin(c)
    BY <2>14, NoneAssumption, MachineAssumption
    DEF FetchBegin, Goto, counts, TypeOK, Control, Holding, StoresGood, HandsGood
  <2>15. CASE FetchEnd(c)
    BY <2>15, NoneAssumption, MachineAssumption
    DEF FetchEnd, Goto, SetMine, counts, TypeOK, Control, Holding, StoresGood,
        HandsGood
  <2>16. CASE FetchFails(c)
    BY <2>16, NoneAssumption, MachineAssumption
    DEF FetchFails, Goto, counts, TypeOK, Control, Holding, StoresGood, HandsGood
  <2>17. CASE Build(c)
    BY <2>17, NoneAssumption, MachineAssumption
    DEF Build, Goto, counts, TypeOK, Control, Holding, StoresGood, HandsGood
  <2>18. CASE BuildFails(c)
    BY <2>18, NoneAssumption, MachineAssumption
    DEF BuildFails, Goto, counts, TypeOK, Control, Holding, StoresGood, HandsGood
  <2>19. CASE Store(c)
    <3>1. /\ c \in Client /\ key[c] \in Version /\ MachineOf[c] \in Machine
          /\ Good(out[c], key[c])
      BY <2>19, MachineAssumption DEF Store, TypeOK, Control, OutputsGood
    <3> DEFINE e == [object |-> out[c].object, header |-> out[c].header, bad |-> "no"]
    <3>2. Good(e, key[c])
      BY <3>1 DEF Good
    <3>3. SetMine(c, e) /\ UNCHANGED server
      BY <2>19 DEF Store
    <3> HIDE DEF e
    <3> QED
      BY <3>1, <3>2, <3>3 DEF SetMine, StoresGood, TypeOK
  <2>20. CASE UploadBegin(c)
    BY <2>20, NoneAssumption, MachineAssumption
    DEF UploadBegin, Goto, Mine, counts, TypeOK, Control, Holding, StoresGood,
        HandsGood
  <2>21. CASE UploadEnd(c)
    BY <2>21, NoneAssumption, MachineAssumption
    DEF UploadEnd, Goto, counts, TypeOK, Control, Holding, StoresGood, HandsGood
  <2>22. CASE UploadFails(c)
    BY <2>22, NoneAssumption, MachineAssumption
    DEF UploadFails, Goto, counts, TypeOK, Control, Holding, StoresGood, HandsGood
  <2>23. CASE CleanUp(c)
    BY <2>23, NoneAssumption, MachineAssumption
    DEF CleanUp, Goto, counts, TypeOK, Control, Holding, StoresGood, HandsGood
  <2>24. CASE Finish(c)
    BY <2>24, NoneAssumption, MachineAssumption
    DEF Finish, Goto, Exit, counts, TypeOK, Control, Holding, StoresGood, HandsGood
  <2>25. CASE IoError(c)
    BY <2>25, NoneAssumption, MachineAssumption
    DEF IoError, Goto, Exit, TypeOK, Control, Holding, StoresGood, HandsGood
  <2>26. CASE RemoteIoError(c)
    BY <2>26, NoneAssumption, MachineAssumption
    DEF RemoteIoError, Goto, Exit, TypeOK, Control, Holding, StoresGood, HandsGood
  <2>27. CASE Edit(c)
    BY <2>27, NoneAssumption, MachineAssumption
    DEF Edit, client, counts, TypeOK, Control, Holding, StoresGood, HandsGood
  <2>28. CASE Kill(c)
    BY <2>28, NoneAssumption, MachineAssumption
    DEF Kill, Goto, Exit, TypeOK, Control, Holding, StoresGood, HandsGood
  <2>29. CASE OrphanWrites(c)
    BY <2>29, NoneAssumption, MachineAssumption
    DEF OrphanWrites, client, counts, TypeOK, Control, Holding, StoresGood,
        HandsGood
  <2>30. CASE OrphanEnds(c)
    BY <2>30, NoneAssumption, MachineAssumption
    DEF OrphanEnds, client, counts, TypeOK, Control, Holding, StoresGood, HandsGood
  <2> QED
    BY <1>n, <2>1, <2>2, <2>3, <2>4, <2>5, <2>6, <2>7, <2>8, <2>9, <2>10, <2>11,
       <2>12, <2>13, <2>14, <2>15, <2>16, <2>17, <2>18, <2>19, <2>20, <2>21, <2>22,
       <2>23, <2>24, <2>25, <2>26, <2>27, <2>28, <2>29, <2>30 DEF Lookup, Produce
<1>2. CASE Evict
  <2>1. PICK v \in Version :
          \/ server' = [server EXCEPT ![v] = None] /\ UNCHANGED local
          \/ /\ \E m \in Machine : local' = [local EXCEPT ![m][v] = None]
             /\ UNCHANGED server
    BY <1>2 DEF Evict
  <2>2. CASE server' = [server EXCEPT ![v] = None] /\ UNCHANGED local
    BY <2>2 DEF StoresGood, TypeOK
  <2>3. ASSUME NEW m \in Machine, local' = [local EXCEPT ![m][v] = None], UNCHANGED server
        PROVE  StoresGood'
    BY <2>3 DEF StoresGood, TypeOK
  <2> QED
    BY <2>1, <2>2, <2>3
<1>3. CASE Damage
  <2>1. PICK v \in Version, b \in {"start", "header", "end"} :
          server[v] # None /\ server' = [server EXCEPT ![v].bad = b]
    BY <1>3 DEF Damage
  <2>2. server[v] \in Entry /\ Good(server[v], v)
    BY <2>1 DEF TypeOK, StoresGood
  <2>3. Good([server[v] EXCEPT !.bad = b], v)
    BY <2>2 DEF Entry, Good
  <2>4. UNCHANGED local
    BY <1>3 DEF Damage
  <2> QED
    BY <2>1, <2>3, <2>4 DEF TypeOK, StoresGood
<1> QED
  BY <1>n, <1>2, <1>3 DEF Next

\* What is taken in hand comes from a store.
LEMMA HandsNext ==
  ASSUME TypeOK, Control, SrcKept, NoOrphans, StoresGood, HandsGood, Next
  PROVE  HandsGood'
<1>m. ASSUME NEW c \in Client, Mine(c) # None, pc[c] # "idle"
      PROVE  Good(Mine(c), key[c])
  <2>1. key[c] \in Version /\ MachineOf[c] \in Machine
    BY <1>m, MachineAssumption DEF Control, TypeOK
  <2> QED
    BY <1>m, <2>1 DEF Mine, StoresGood
<1>n. ASSUME NEW c \in Client,
             \/ Hash(c) \/ Lookup(c) \/ Produce(c) \/ IoError(c) \/ RemoteIoError(c)
             \/ Edit(c) \/ Kill(c) \/ OrphanWrites(c) \/ OrphanEnds(c)
      PROVE  HandsGood'
  <2>1. CASE Hash(c)
    BY <2>1, NoneAssumption, MachineAssumption
    DEF Hash, Goto, counts, TypeOK, Control, Holding, StoresGood, HandsGood
  <2>2. CASE LocalOpen(c)
    <3>1. Mine(c) # None => Good(Mine(c), key[c])
      BY <1>m, <2>2 DEF LocalOpen
    <3>2. held' = [held EXCEPT ![c] = Mine(c)] /\ UNCHANGED key
      BY <2>2 DEF LocalOpen
    <3> HIDE DEF Mine
    <3> QED
      BY <3>1, <3>2 DEF HandsGood, TypeOK
  <2>3. CASE LocalMiss(c)
    BY <2>3, NoneAssumption, MachineAssumption
    DEF LocalMiss, Goto, Mine, counts, TypeOK, Control, Holding, StoresGood,
        HandsGood
  <2>4. CASE FetchedOpen(c)
    <3>1. Mine(c) # None => Good(Mine(c), key[c])
      BY <1>m, <2>4 DEF FetchedOpen
    <3>2. held' = [held EXCEPT ![c] = Mine(c)] /\ UNCHANGED key
      BY <2>4 DEF FetchedOpen
    <3> HIDE DEF Mine
    <3> QED
      BY <3>1, <3>2 DEF HandsGood, TypeOK
  <2>5. CASE FetchedMiss(c)
    BY <2>5, NoneAssumption, MachineAssumption
    DEF FetchedMiss, Goto, Mine, counts, TypeOK, Control, Holding, StoresGood,
        HandsGood
  <2>6. CASE RestoreObject(c)
    BY <2>6, NoneAssumption, MachineAssumption
    DEF RestoreObject, Goto, counts, TypeOK, Control, Holding, StoresGood, HandsGood
  <2>7. CASE RestoreHeader(c)
    BY <2>7, NoneAssumption, MachineAssumption
    DEF RestoreHeader, Goto, counts, TypeOK, Control, Holding, StoresGood, HandsGood
  <2>8. CASE LocalHit(c)
    BY <2>8, NoneAssumption, MachineAssumption
    DEF LocalHit, Goto, Exit, counts, TypeOK, Control, Holding, StoresGood,
        HandsGood
  <2>9. CASE RemoteHit(c)
    BY <2>9, NoneAssumption, MachineAssumption
    DEF RemoteHit, Goto, counts, TypeOK, Control, Holding, StoresGood, HandsGood
  <2>10. CASE LocalCorrupt(c)
    BY <2>10, NoneAssumption, MachineAssumption
    DEF LocalCorrupt, Goto, Exit, counts, TypeOK, Control, Holding, StoresGood,
        HandsGood
  <2>11. CASE RemoteCorrupt(c)
    BY <2>11, NoneAssumption, MachineAssumption
    DEF RemoteCorrupt, Goto, counts, TypeOK, Control, Holding, StoresGood, HandsGood
  <2>12. CASE Discard(c)
    BY <2>12, NoneAssumption, MachineAssumption
    DEF Discard, Goto, SetMine, counts, TypeOK, Control, Holding, StoresGood,
        HandsGood
  <2>13. CASE FetchMiss(c)
    BY <2>13, NoneAssumption, MachineAssumption
    DEF FetchMiss, Goto, counts, TypeOK, Control, Holding, StoresGood, HandsGood
  <2>14. CASE FetchBegin(c)
    BY <2>14, NoneAssumption, MachineAssumption
    DEF FetchBegin, Goto, counts, TypeOK, Control, Holding, StoresGood, HandsGood
  <2>15. CASE FetchEnd(c)
    BY <2>15, NoneAssumption, MachineAssumption
    DEF FetchEnd, Goto, SetMine, counts, TypeOK, Control, Holding, StoresGood,
        HandsGood
  <2>16. CASE FetchFails(c)
    BY <2>16, NoneAssumption, MachineAssumption
    DEF FetchFails, Goto, counts, TypeOK, Control, Holding, StoresGood, HandsGood
  <2>17. CASE Build(c)
    BY <2>17, NoneAssumption, MachineAssumption
    DEF Build, Goto, counts, TypeOK, Control, Holding, StoresGood, HandsGood
  <2>18. CASE BuildFails(c)
    BY <2>18, NoneAssumption, MachineAssumption
    DEF BuildFails, Goto, counts, TypeOK, Control, Holding, StoresGood, HandsGood
  <2>19. CASE Store(c)
    BY <2>19, NoneAssumption, MachineAssumption
    DEF Store, Goto, SetMine, counts, TypeOK, Control, Holding, StoresGood,
        HandsGood
  <2>20. CASE UploadBegin(c)
    <3>1. Mine(c) # None => Good(Mine(c), key[c])
      BY <1>m, <2>20 DEF UploadBegin
    <3>2. held' = [held EXCEPT ![c] = Mine(c)] /\ UNCHANGED key
      BY <2>20 DEF UploadBegin
    <3> HIDE DEF Mine
    <3> QED
      BY <3>1, <3>2 DEF HandsGood, TypeOK
  <2>21. CASE UploadEnd(c)
    BY <2>21, NoneAssumption, MachineAssumption
    DEF UploadEnd, Goto, counts, TypeOK, Control, Holding, StoresGood, HandsGood
  <2>22. CASE UploadFails(c)
    BY <2>22, NoneAssumption, MachineAssumption
    DEF UploadFails, Goto, counts, TypeOK, Control, Holding, StoresGood, HandsGood
  <2>23. CASE CleanUp(c)
    BY <2>23, NoneAssumption, MachineAssumption
    DEF CleanUp, Goto, counts, TypeOK, Control, Holding, StoresGood, HandsGood
  <2>24. CASE Finish(c)
    BY <2>24, NoneAssumption, MachineAssumption
    DEF Finish, Goto, Exit, counts, TypeOK, Control, Holding, StoresGood, HandsGood
  <2>25. CASE IoError(c)
    BY <2>25, NoneAssumption, MachineAssumption
    DEF IoError, Goto, Exit, TypeOK, Control, Holding, StoresGood, HandsGood
  <2>26. CASE RemoteIoError(c)
    BY <2>26, NoneAssumption, MachineAssumption
    DEF RemoteIoError, Goto, Exit, TypeOK, Control, Holding, StoresGood, HandsGood
  <2>27. CASE Edit(c)
    BY <2>27, NoneAssumption, MachineAssumption
    DEF Edit, client, counts, TypeOK, Control, Holding, StoresGood, HandsGood
  <2>28. CASE Kill(c)
    BY <2>28, NoneAssumption, MachineAssumption
    DEF Kill, Goto, Exit, TypeOK, Control, Holding, StoresGood, HandsGood
  <2>29. CASE OrphanWrites(c)
    BY <2>29, NoneAssumption, MachineAssumption
    DEF OrphanWrites, client, counts, TypeOK, Control, Holding, StoresGood,
        HandsGood
  <2>30. CASE OrphanEnds(c)
    BY <2>30, NoneAssumption, MachineAssumption
    DEF OrphanEnds, client, counts, TypeOK, Control, Holding, StoresGood, HandsGood
  <2> QED
    BY <1>n, <2>1, <2>2, <2>3, <2>4, <2>5, <2>6, <2>7, <2>8, <2>9, <2>10, <2>11,
       <2>12, <2>13, <2>14, <2>15, <2>16, <2>17, <2>18, <2>19, <2>20, <2>21, <2>22,
       <2>23, <2>24, <2>25, <2>26, <2>27, <2>28, <2>29, <2>30 DEF Lookup, Produce
<1>3. CASE Evict
  BY <1>3, NoneAssumption, MachineAssumption
  DEF Evict, client, counts, TypeOK, Control, Holding, StoresGood, HandsGood
<1>4. CASE Damage
  BY <1>4, NoneAssumption, MachineAssumption
  DEF Damage, client, TypeOK, Control, Holding, StoresGood, HandsGood
<1> QED
  BY <1>n, <1>3, <1>4 DEF Next

\* The outputs come from an entry in hand, or from the builder.
LEMMA OutputsNext ==
  ASSUME TypeOK, Control, SrcKept, NoOrphans, NoOrphans', HandsGood, OutputsGood, Next
  PROVE  OutputsGood'
<1>n. ASSUME NEW c \in Client,
             \/ Hash(c) \/ Lookup(c) \/ Produce(c) \/ IoError(c) \/ RemoteIoError(c)
             \/ Edit(c) \/ Kill(c) \/ OrphanWrites(c) \/ OrphanEnds(c)
      PROVE  OutputsGood'
  <2>1. CASE Hash(c)
    BY <2>1, NoneAssumption
    DEF Hash, Goto, counts, TypeOK, Control, Holding, SrcKept, NoOrphans, HandsGood,
        OutputsGood, Good
  <2>2. CASE LocalOpen(c)
    BY <2>2, NoneAssumption
    DEF LocalOpen, Goto, Mine, counts, TypeOK, Control, Holding, SrcKept, NoOrphans,
        HandsGood, OutputsGood, Good
  <2>3. CASE LocalMiss(c)
    BY <2>3, NoneAssumption
    DEF LocalMiss, Goto, Mine, counts, TypeOK, Control, Holding, SrcKept, NoOrphans,
        HandsGood, OutputsGood, Good
  <2>4. CASE FetchedOpen(c)
    BY <2>4, NoneAssumption
    DEF FetchedOpen, Goto, Mine, counts, TypeOK, Control, Holding, SrcKept,
        NoOrphans, HandsGood, OutputsGood, Good
  <2>5. CASE FetchedMiss(c)
    BY <2>5, NoneAssumption
    DEF FetchedMiss, Goto, Mine, counts, TypeOK, Control, Holding, SrcKept,
        NoOrphans, HandsGood, OutputsGood, Good
  <2>6. CASE RestoreObject(c)
    BY <2>6, NoneAssumption
    DEF RestoreObject, Goto, counts, TypeOK, Control, Holding, SrcKept, NoOrphans,
        HandsGood, OutputsGood, Good
  <2>7. CASE RestoreHeader(c)
    BY <2>7, NoneAssumption
    DEF RestoreHeader, Goto, counts, TypeOK, Control, Holding, SrcKept, NoOrphans,
        HandsGood, OutputsGood, Good
  <2>8. CASE LocalHit(c)
    BY <2>8, NoneAssumption
    DEF LocalHit, Goto, Exit, counts, TypeOK, Control, Holding, SrcKept, NoOrphans,
        HandsGood, OutputsGood, Good
  <2>9. CASE RemoteHit(c)
    BY <2>9, NoneAssumption
    DEF RemoteHit, Goto, counts, TypeOK, Control, Holding, SrcKept, NoOrphans,
        HandsGood, OutputsGood, Good
  <2>10. CASE LocalCorrupt(c)
    <3>1. \A d \in Client \ {c} : out'[d] = out[d]
      BY <2>10, StopsApart DEF LocalCorrupt
    <3> QED
      BY <2>10, <3>1, NoneAssumption
      DEF LocalCorrupt, Goto, Exit, counts, TypeOK, Control, Holding, SrcKept,
          NoOrphans, HandsGood, OutputsGood, Good
  <2>11. CASE RemoteCorrupt(c)
    <3>1. \A d \in Client \ {c} : out'[d] = out[d]
      BY <2>11, StopsApart DEF RemoteCorrupt
    <3> QED
      BY <2>11, <3>1, NoneAssumption
      DEF RemoteCorrupt, Goto, counts, TypeOK, Control, Holding, SrcKept, NoOrphans,
          HandsGood, OutputsGood, Good
  <2>12. CASE Discard(c)
    BY <2>12, NoneAssumption
    DEF Discard, Goto, SetMine, counts, TypeOK, Control, Holding, SrcKept,
        NoOrphans, HandsGood, OutputsGood, Good
  <2>13. CASE FetchMiss(c)
    BY <2>13, NoneAssumption
    DEF FetchMiss, Goto, counts, TypeOK, Control, Holding, SrcKept, NoOrphans,
        HandsGood, OutputsGood, Good
  <2>14. CASE FetchBegin(c)
    BY <2>14, NoneAssumption
    DEF FetchBegin, Goto, counts, TypeOK, Control, Holding, SrcKept, NoOrphans,
        HandsGood, OutputsGood, Good
  <2>15. CASE FetchEnd(c)
    BY <2>15, NoneAssumption
    DEF FetchEnd, Goto, SetMine, counts, TypeOK, Control, Holding, SrcKept,
        NoOrphans, HandsGood, OutputsGood, Good
  <2>16. CASE FetchFails(c)
    BY <2>16, NoneAssumption
    DEF FetchFails, Goto, counts, TypeOK, Control, Holding, SrcKept, NoOrphans,
        HandsGood, OutputsGood, Good
  <2>17. CASE Build(c)
    BY <2>17, NoneAssumption
    DEF Build, Goto, counts, TypeOK, Control, Holding, SrcKept, NoOrphans,
        HandsGood, OutputsGood, Good
  <2>18. CASE BuildFails(c)
    BY <2>18, NoneAssumption
    DEF BuildFails, Goto, counts, TypeOK, Control, Holding, SrcKept, NoOrphans,
        HandsGood, OutputsGood, Good
  <2>19. CASE Store(c)
    BY <2>19, NoneAssumption
    DEF Store, Goto, SetMine, counts, TypeOK, Control, Holding, SrcKept, NoOrphans,
        HandsGood, OutputsGood, Good
  <2>20. CASE UploadBegin(c)
    BY <2>20, NoneAssumption
    DEF UploadBegin, Goto, Mine, counts, TypeOK, Control, Holding, SrcKept,
        NoOrphans, HandsGood, OutputsGood, Good
  <2>21. CASE UploadEnd(c)
    BY <2>21, NoneAssumption
    DEF UploadEnd, Goto, counts, TypeOK, Control, Holding, SrcKept, NoOrphans,
        HandsGood, OutputsGood, Good
  <2>22. CASE UploadFails(c)
    BY <2>22, NoneAssumption
    DEF UploadFails, Goto, counts, TypeOK, Control, Holding, SrcKept, NoOrphans,
        HandsGood, OutputsGood, Good
  <2>23. CASE CleanUp(c)
    BY <2>23, NoneAssumption
    DEF CleanUp, Goto, counts, TypeOK, Control, Holding, SrcKept, NoOrphans,
        HandsGood, OutputsGood, Good
  <2>24. CASE Finish(c)
    BY <2>24, NoneAssumption
    DEF Finish, Goto, Exit, counts, TypeOK, Control, Holding, SrcKept, NoOrphans,
        HandsGood, OutputsGood, Good
  <2>25. CASE IoError(c)
    <3>1. \A d \in Client \ {c} : out'[d] = out[d]
      BY <2>25, StopsApart DEF IoError
    <3> QED
      BY <2>25, <3>1, NoneAssumption
      DEF IoError, Goto, Exit, TypeOK, Control, Holding, SrcKept, NoOrphans,
          HandsGood, OutputsGood, Good
  <2>26. CASE RemoteIoError(c)
    <3>1. \A d \in Client \ {c} : out'[d] = out[d]
      BY <2>26, StopsApart DEF RemoteIoError
    <3> QED
      BY <2>26, <3>1, NoneAssumption
      DEF RemoteIoError, Goto, Exit, TypeOK, Control, Holding, SrcKept, NoOrphans,
          HandsGood, OutputsGood, Good
  <2>27. CASE Edit(c)
    BY <2>27, NoneAssumption
    DEF Edit, client, counts, TypeOK, Control, Holding, SrcKept, NoOrphans,
        HandsGood, OutputsGood, Good
  <2>28. CASE Kill(c)
    <3>1. \A d \in Client \ {c} : out'[d] = out[d]
      BY <2>28, StopsApart DEF Kill
    <3> QED
      BY <2>28, <3>1, NoneAssumption
      DEF Kill, Goto, Exit, TypeOK, Control, Holding, SrcKept, NoOrphans, HandsGood,
          OutputsGood, Good
  <2>29. CASE OrphanWrites(c)
    BY <2>29, NoneAssumption
    DEF OrphanWrites, client, counts, TypeOK, Control, Holding, SrcKept, NoOrphans,
        HandsGood, OutputsGood, Good
  <2>30. CASE OrphanEnds(c)
    BY <2>30, NoneAssumption
    DEF OrphanEnds, client, counts, TypeOK, Control, Holding, SrcKept, NoOrphans,
        HandsGood, OutputsGood, Good
  <2> QED
    BY <1>n, <2>1, <2>2, <2>3, <2>4, <2>5, <2>6, <2>7, <2>8, <2>9, <2>10, <2>11,
       <2>12, <2>13, <2>14, <2>15, <2>16, <2>17, <2>18, <2>19, <2>20, <2>21, <2>22,
       <2>23, <2>24, <2>25, <2>26, <2>27, <2>28, <2>29, <2>30 DEF Lookup, Produce
<1>2. CASE Evict
  BY <1>2, NoneAssumption
  DEF Evict, client, counts, TypeOK, Control, Holding, SrcKept, NoOrphans,
      HandsGood, OutputsGood, Good
<1>3. CASE Damage
  BY <1>3, NoneAssumption
  DEF Damage, client, TypeOK, Control, Holding, SrcKept, NoOrphans, HandsGood,
      OutputsGood, Good
<1> QED
  BY <1>n, <1>2, <1>3 DEF Next

\* NoOrphans is not true again once it was not.
LEMMA OrphansStay ==
  ASSUME TypeOK, Next, NoOrphans'
  PROVE  NoOrphans
<1>1. CASE UNCHANGED orphan
  BY <1>1 DEF NoOrphans
<1>2. ASSUME NEW c \in Client, Kill(c), ~UNCHANGED orphan
      PROVE  NoOrphans
  <2>1. orphan' = [orphan EXCEPT ![c] = src[c]] /\ src[c] \in Version
    BY <1>2 DEF Kill, TypeOK
  <2>2. orphan'[c] \in Version
    BY <2>1 DEF TypeOK
  <2> QED
    BY <2>2, NoneAssumption DEF NoOrphans
<1>3. ASSUME NEW c \in Client, OrphanEnds(c)
      PROVE  NoOrphans
  <2>1. orphan'[c] = "done"
    BY <1>3 DEF OrphanEnds, TypeOK
  <2> QED
    BY <2>1, NoneAssumption DEF NoOrphans
<1>4. ASSUME NEW c \in Client,
             Hash(c) \/ Lookup(c) \/ Produce(c) \/ IoError(c) \/ RemoteIoError(c)
               \/ Edit(c) \/ OrphanWrites(c)
      PROVE  UNCHANGED orphan
  <2>1. CASE Lookup(c)
    BY <2>1 DEF Lookup, LocalOpen, LocalMiss, FetchedOpen, FetchedMiss, RestoreObject,
                RestoreHeader, LocalHit, RemoteHit, LocalCorrupt, RemoteCorrupt, Discard,
                FetchMiss, FetchBegin, FetchEnd, FetchFails
  <2>2. CASE Produce(c)
    BY <2>2 DEF Produce, Build, BuildFails, Store, UploadBegin, UploadEnd, UploadFails,
                CleanUp, Finish
  <2> QED
    BY <1>4, <2>1, <2>2 DEF Hash, IoError, RemoteIoError, Edit, OrphanWrites
<1>5. CASE Evict \/ Damage
  BY <1>1, <1>5 DEF Evict, Damage
<1> QED
  BY <1>1, <1>2, <1>3, <1>4, <1>5 DEF Next

\* The invariant holds at the start ...
LEMMA InitEstablishes == Init => IInv
<1> SUFFICES ASSUME Init PROVE IInv
  OBVIOUS
<1>1. TypeOK
  BY BoundsAssumption DEF Init, TypeOK, Places
<1>2. Control
  BY DEF Init, Control, Holding
<1>3. SrcKept /\ StoresGood /\ HandsGood /\ OutputsGood
  BY DEF Init, SrcKept, StoresGood, HandsGood, OutputsGood
<1> QED
  BY <1>1, <1>2, <1>3 DEF IInv

\* ... and every step preserves it.
LEMMA NextPreserves == IInv /\ [Next]_vars => IInv'
<1> SUFFICES ASSUME IInv, [Next]_vars PROVE IInv'
  OBVIOUS
<1>1. CASE UNCHANGED vars
  BY <1>1 DEF vars, client, counts, IInv, TypeOK, Control, SrcKept, StoresGood, HandsGood,
              OutputsGood, NoOrphans
<1>2. CASE Next
  <2>1. TypeOK' /\ Control'
    BY <1>2, TypeNext, ControlNext DEF IInv
  <2>2. ASSUME ~EditsWhileBusy
        PROVE  SrcKept'
    BY <1>2, <2>2, SrcNext DEF IInv
  <2>3. ASSUME ~EditsWhileBusy, NoOrphans'
        PROVE  StoresGood' /\ HandsGood' /\ OutputsGood'
    <3>1. NoOrphans
      BY <1>2, <2>3, OrphansStay DEF IInv
    <3> QED
      BY <1>2, <2>3, <3>1, StoresNext, HandsNext, OutputsNext DEF IInv
  <2> QED
    BY <2>1, <2>2, <2>3 DEF IInv
<1> QED
  BY <1>1, <1>2

\* So it holds in every behaviour.
THEOREM Invariance == Spec => []IInv
<1>1. Init => IInv
  BY InitEstablishes
<1>2. IInv /\ [Next]_vars => IInv'
  BY NextPreserves
<1> QED
  BY <1>1, <1>2, PTL DEF Spec
-----------------------------------------------------------------------------
\* Every variable keeps its type.
THEOREM TypeCorrect == Spec => []TypeOK
<1>1. IInv => TypeOK
  BY DEF IInv
<1> QED
  BY <1>1, Invariance, PTL

\* If no build's sources are edited while it runs, every entry, in every store and
\* in every hand, is what the builder makes of the inputs its key was computed
\* from, whichever clients are killed, entries damaged or evicted and calls failed,
\* as long as no builder outlives its client.
THEOREM EntriesStayTrue ==
  ASSUME ~EditsWhileBusy
  PROVE  Spec => []EntriesMatchKeys
<1>1. IInv => EntriesMatchKeys
  BY DEF IInv, EntriesMatchKeys, EntriesSurviveKills, StoresGood, HandsGood
<1> QED
  BY <1>1, Invariance, PTL

\* A run that ends well has left the outputs of the inputs it hashed, whether it
\* built them, or restored or fetched them, wholly or in part.
THEOREM OutputsStayTrue ==
  ASSUME ~EditsWhileBusy
  PROVE  Spec => OutputsMatchKey
<1> DEFINE Match(c) ==
      NoOrphans /\ Ends(c) /\ builder[c] # "failed" => Good(out[c]', key[c])
<1>1. ASSUME IInv, Next, NEW c \in Client, NoOrphans, Ends(c), builder[c] # "failed"
      PROVE  Good(out[c]', key[c])
  <2>1. TypeOK /\ OutputsGood
    BY <1>1 DEF IInv
  <2>2. exit'[c] # exit[c] /\ exit'[c] = "ok"
    BY <1>1 DEF Ends
  <2>3. PICK d \in Client : \/ LocalHit(d) \/ LocalCorrupt(d) \/ Finish(d) \/ Hash(d)
                             \/ IoError(d) \/ RemoteIoError(d) \/ Kill(d)
    <3>1. ASSUME NEW d \in Client, Lookup(d), ~LocalHit(d), ~LocalCorrupt(d)
          PROVE  UNCHANGED exit
      BY <3>1 DEF Lookup, LocalOpen, LocalMiss, FetchedOpen, FetchedMiss, RestoreObject,
                  RestoreHeader, RemoteHit, RemoteCorrupt, Discard, FetchMiss, FetchBegin,
                  FetchEnd, FetchFails
    <3>2. ASSUME NEW d \in Client, Produce(d), ~Finish(d)
          PROVE  UNCHANGED exit
      BY <3>2 DEF Produce, Build, BuildFails, Store, UploadBegin, UploadEnd, UploadFails,
                  CleanUp
    <3>3. ASSUME NEW d \in Client, Edit(d) \/ OrphanWrites(d) \/ OrphanEnds(d)
          PROVE  UNCHANGED exit
      BY <3>3 DEF Edit, OrphanWrites, OrphanEnds, client
    <3>4. ASSUME Evict \/ Damage
          PROVE  UNCHANGED exit
      BY <3>4 DEF Evict, Damage, client
    <3> QED
      BY <1>1, <2>2, <3>1, <3>2, <3>3, <3>4 DEF Next
  <2>4. d = c
    BY <2>1, <2>2, <2>3 DEF LocalHit, LocalCorrupt, Finish, Hash, IoError, RemoteIoError,
                            Kill, Exit, TypeOK
  <2>5. exit'[d] # exit[d] /\ exit'[d] = "ok"
    BY <2>2, <2>4
  <2>6. LocalHit(d) \/ Finish(d) \/ (RemoteIoError(d) /\ pc[d] = "cleanup")
    <3>1. CASE LocalCorrupt(d) \/ IoError(d) \/ Kill(d)
      <4>1. Exit(d, "failed") \/ Exit(d, "killed")
        BY <3>1 DEF LocalCorrupt, IoError, Kill
      <4> QED
        BY <2>1, <2>5, <4>1 DEF Exit, TypeOK
    <3>2. CASE Hash(d)
      BY <2>1, <2>5, <3>2 DEF Hash, TypeOK
    <3>3. CASE RemoteIoError(d)
      BY <2>5, <3>3 DEF RemoteIoError
    <3> QED
      BY <2>3, <3>1, <3>2, <3>3
  <2>7. /\ pc[d] \in {"restoreEnd", "cleanup", "cleaning"} /\ UNCHANGED out
    BY <2>6 DEF LocalHit, Finish, RemoteIoError, Stops
  <2>8. Good(out[c], key[c])
    BY <1>1, <2>1, <2>4, <2>7 DEF OutputsGood
  <2> QED
    BY <2>7, <2>8
<1>2. IInv /\ [Next]_vars => [\A c \in Client : Match(c)]_vars
  BY <1>1
<1> QED
  BY <1>2, Invariance, PTL DEF Spec, OutputsMatchKey
-----------------------------------------------------------------------------
\* unpack has passed the places where it would have rejected the entry.
Passed ==
  \A c \in Client :
    /\ pc[c] \in {"restoreHeader", "remoteHeader"} => held[c].bad # "start"
    /\ pc[c] \in {"restoreEnd", "remoteEnd"} => held[c].bad \notin {"start", "header"}

\* c has stored the corrupt entry and has yet to open it, or is about to find that
\* it is corrupt, or to remove it.
Tracks(c, m, v) ==
  /\ MachineOf[c] = m /\ key[c] = v
  /\ \/ pc[c] \in {"lookup", "discard"}
     \/ pc[c] \in {"remoteRestore", "remoteHeader", "remoteEnd"} /\ held[c].bad # "no"

Tracked ==
  kills = 0 /\ ioErrors = 0 =>
    \A m \in Machine, v \in Version :
      local[m][v] # None /\ local[m][v].bad # "no" => \E c \in Client : Tracks(c, m, v)

\* A place of unpack is reached only past the ones before.
LEMMA PassedNext ==
  ASSUME TypeOK, Control, Passed, Next
  PROVE  Passed'
<1>n. ASSUME NEW c \in Client,
             \/ Hash(c) \/ Lookup(c) \/ Produce(c) \/ IoError(c) \/ RemoteIoError(c)
             \/ Edit(c) \/ Kill(c) \/ OrphanWrites(c) \/ OrphanEnds(c)
      PROVE  Passed'
  <2>1. CASE Hash(c)
    BY <2>1, NoneAssumption
    DEF Hash, Goto, counts, TypeOK, Control, Passed
  <2>2. CASE LocalOpen(c)
    BY <2>2, NoneAssumption
    DEF LocalOpen, Goto, Mine, counts, TypeOK, Control, Passed
  <2>3. CASE LocalMiss(c)
    BY <2>3, NoneAssumption
    DEF LocalMiss, Goto, Mine, counts, TypeOK, Control, Passed
  <2>4. CASE FetchedOpen(c)
    BY <2>4, NoneAssumption
    DEF FetchedOpen, Goto, Mine, counts, TypeOK, Control, Passed
  <2>5. CASE FetchedMiss(c)
    BY <2>5, NoneAssumption
    DEF FetchedMiss, Goto, Mine, counts, TypeOK, Control, Passed
  <2>6. CASE RestoreObject(c)
    BY <2>6, NoneAssumption
    DEF RestoreObject, Goto, counts, TypeOK, Control, Passed
  <2>7. CASE RestoreHeader(c)
    BY <2>7, NoneAssumption
    DEF RestoreHeader, Goto, counts, TypeOK, Control, Passed
  <2>8. CASE LocalHit(c)
    BY <2>8, NoneAssumption
    DEF LocalHit, Goto, Exit, counts, TypeOK, Control, Passed
  <2>9. CASE RemoteHit(c)
    BY <2>9, NoneAssumption
    DEF RemoteHit, Goto, counts, TypeOK, Control, Passed
  <2>10. CASE LocalCorrupt(c)
    BY <2>10, NoneAssumption
    DEF LocalCorrupt, Goto, Exit, counts, TypeOK, Control, Passed
  <2>11. CASE RemoteCorrupt(c)
    BY <2>11, NoneAssumption
    DEF RemoteCorrupt, Goto, counts, TypeOK, Control, Passed
  <2>12. CASE Discard(c)
    BY <2>12, NoneAssumption
    DEF Discard, Goto, SetMine, counts, TypeOK, Control, Passed
  <2>13. CASE FetchMiss(c)
    BY <2>13, NoneAssumption
    DEF FetchMiss, Goto, counts, TypeOK, Control, Passed
  <2>14. CASE FetchBegin(c)
    BY <2>14, NoneAssumption
    DEF FetchBegin, Goto, counts, TypeOK, Control, Passed
  <2>15. CASE FetchEnd(c)
    BY <2>15, NoneAssumption
    DEF FetchEnd, Goto, SetMine, counts, TypeOK, Control, Passed
  <2>16. CASE FetchFails(c)
    BY <2>16, NoneAssumption
    DEF FetchFails, Goto, counts, TypeOK, Control, Passed
  <2>17. CASE Build(c)
    BY <2>17, NoneAssumption
    DEF Build, Goto, counts, TypeOK, Control, Passed
  <2>18. CASE BuildFails(c)
    BY <2>18, NoneAssumption
    DEF BuildFails, Goto, counts, TypeOK, Control, Passed
  <2>19. CASE Store(c)
    BY <2>19, NoneAssumption
    DEF Store, Goto, SetMine, counts, TypeOK, Control, Passed
  <2>20. CASE UploadBegin(c)
    BY <2>20, NoneAssumption
    DEF UploadBegin, Goto, Mine, counts, TypeOK, Control, Passed
  <2>21. CASE UploadEnd(c)
    BY <2>21, NoneAssumption
    DEF UploadEnd, Goto, counts, TypeOK, Control, Passed
  <2>22. CASE UploadFails(c)
    BY <2>22, NoneAssumption
    DEF UploadFails, Goto, counts, TypeOK, Control, Passed
  <2>23. CASE CleanUp(c)
    BY <2>23, NoneAssumption
    DEF CleanUp, Goto, counts, TypeOK, Control, Passed
  <2>24. CASE Finish(c)
    BY <2>24, NoneAssumption
    DEF Finish, Goto, Exit, counts, TypeOK, Control, Passed
  <2>25. CASE IoError(c)
    BY <2>25, NoneAssumption
    DEF IoError, Goto, Exit, TypeOK, Control, Passed
  <2>26. CASE RemoteIoError(c)
    BY <2>26, NoneAssumption
    DEF RemoteIoError, Goto, Exit, TypeOK, Control, Passed
  <2>27. CASE Edit(c)
    BY <2>27, NoneAssumption
    DEF Edit, client, counts, TypeOK, Control, Passed
  <2>28. CASE Kill(c)
    BY <2>28, NoneAssumption
    DEF Kill, Goto, Exit, TypeOK, Control, Passed
  <2>29. CASE OrphanWrites(c)
    BY <2>29, NoneAssumption
    DEF OrphanWrites, client, counts, TypeOK, Control, Passed
  <2>30. CASE OrphanEnds(c)
    BY <2>30, NoneAssumption
    DEF OrphanEnds, client, counts, TypeOK, Control, Passed
  <2> QED
    BY <1>n, <2>1, <2>2, <2>3, <2>4, <2>5, <2>6, <2>7, <2>8, <2>9, <2>10, <2>11,
       <2>12, <2>13, <2>14, <2>15, <2>16, <2>17, <2>18, <2>19, <2>20, <2>21, <2>22,
       <2>23, <2>24, <2>25, <2>26, <2>27, <2>28, <2>29, <2>30 DEF Lookup, Produce
<1>2. CASE Evict
  BY <1>2, NoneAssumption
  DEF Evict, client, counts, TypeOK, Control, Passed
<1>3. CASE Damage
  BY <1>3, NoneAssumption
  DEF Damage, client, TypeOK, Control, Passed
<1> QED
  BY <1>n, <1>2, <1>3 DEF Next

\* A step of c leaves the others where they are.
LEMMA OthersKept ==
  ASSUME TypeOK, NEW c \in Client,
         \/ Hash(c) \/ Lookup(c) \/ Produce(c) \/ IoError(c) \/ RemoteIoError(c)
         \/ Edit(c) \/ Kill(c) \/ OrphanWrites(c) \/ OrphanEnds(c)
  PROVE  \A d \in Client \ {c} : pc'[d] = pc[d] /\ key'[d] = key[d] /\ held'[d] = held[d]
<1>1. CASE Hash(c)
  BY <1>1
  DEF Hash, Goto, counts, TypeOK
<1>2. CASE LocalOpen(c)
  BY <1>2
  DEF LocalOpen, Goto, Mine, counts, TypeOK
<1>3. CASE LocalMiss(c)
  BY <1>3
  DEF LocalMiss, Goto, Mine, counts, TypeOK
<1>4. CASE FetchedOpen(c)
  BY <1>4
  DEF FetchedOpen, Goto, Mine, counts, TypeOK
<1>5. CASE FetchedMiss(c)
  BY <1>5
  DEF FetchedMiss, Goto, Mine, counts, TypeOK
<1>6. CASE RestoreObject(c)
  BY <1>6
  DEF RestoreObject, Goto, counts, TypeOK
<1>7. CASE RestoreHeader(c)
  BY <1>7
  DEF RestoreHeader, Goto, counts, TypeOK
<1>8. CASE LocalHit(c)
  BY <1>8
  DEF LocalHit, Goto, Exit, counts, TypeOK
<1>9. CASE RemoteHit(c)
  BY <1>9
  DEF RemoteHit, Goto, counts, TypeOK
<1>10. CASE LocalCorrupt(c)
  BY <1>10
  DEF LocalCorrupt, Goto, Exit, counts, TypeOK
<1>11. CASE RemoteCorrupt(c)
  BY <1>11
  DEF RemoteCorrupt, Goto, counts, TypeOK
<1>12. CASE Discard(c)
  BY <1>12
  DEF Discard, Goto, SetMine, counts, TypeOK
<1>13. CASE FetchMiss(c)
  BY <1>13
  DEF FetchMiss, Goto, counts, TypeOK
<1>14. CASE FetchBegin(c)
  BY <1>14
  DEF FetchBegin, Goto, counts, TypeOK
<1>15. CASE FetchEnd(c)
  BY <1>15
  DEF FetchEnd, Goto, SetMine, counts, TypeOK
<1>16. CASE FetchFails(c)
  BY <1>16
  DEF FetchFails, Goto, counts, TypeOK
<1>17. CASE Build(c)
  BY <1>17
  DEF Build, Goto, counts, TypeOK
<1>18. CASE BuildFails(c)
  BY <1>18
  DEF BuildFails, Goto, counts, TypeOK
<1>19. CASE Store(c)
  BY <1>19
  DEF Store, Goto, SetMine, counts, TypeOK
<1>20. CASE UploadBegin(c)
  BY <1>20
  DEF UploadBegin, Goto, Mine, counts, TypeOK
<1>21. CASE UploadEnd(c)
  BY <1>21
  DEF UploadEnd, Goto, counts, TypeOK
<1>22. CASE UploadFails(c)
  BY <1>22
  DEF UploadFails, Goto, counts, TypeOK
<1>23. CASE CleanUp(c)
  BY <1>23
  DEF CleanUp, Goto, counts, TypeOK
<1>24. CASE Finish(c)
  BY <1>24
  DEF Finish, Goto, Exit, counts, TypeOK
<1>25. CASE IoError(c)
  BY <1>25
  DEF IoError, Goto, Exit, TypeOK
<1>26. CASE RemoteIoError(c)
  BY <1>26
  DEF RemoteIoError, Goto, Exit, TypeOK
<1>27. CASE Edit(c)
  BY <1>27
  DEF Edit, client, counts, TypeOK
<1>28. CASE Kill(c)
  BY <1>28
  DEF Kill, Goto, Exit, TypeOK
<1>29. CASE OrphanWrites(c)
  BY <1>29
  DEF OrphanWrites, client, counts, TypeOK
<1>30. CASE OrphanEnds(c)
  BY <1>30
  DEF OrphanEnds, client, counts, TypeOK
<1> QED
  BY <1>1, <1>2, <1>3, <1>4, <1>5, <1>6, <1>7, <1>8, <1>9, <1>10, <1>11,
     <1>12, <1>13, <1>14, <1>15, <1>16, <1>17, <1>18, <1>19, <1>20, <1>21, <1>22,
     <1>23, <1>24, <1>25, <1>26, <1>27, <1>28, <1>29, <1>30 DEF Lookup, Produce

\* What c tracks it goes on tracking, unless it removes it.
LEMMA OwnTracks ==
  ASSUME TypeOK, Control, Passed, NEW c \in Client, Lookup(c),
         NEW m \in Machine, NEW v \in Version, Tracks(c, m, v),
         local[m][v] # None, local[m][v].bad # "no", local'[m][v] = local[m][v]
  PROVE  Tracks(c, m, v)'
<1>1. CASE FetchedOpen(c)
  BY <1>1 DEF FetchedOpen, Mine, Goto, Tracks, TypeOK
<1>2. CASE FetchedMiss(c)
  BY <1>2 DEF FetchedMiss, Mine, Tracks
<1>3. CASE RestoreObject(c)
  BY <1>3 DEF RestoreObject, Goto, Tracks, TypeOK
<1>4. CASE RestoreHeader(c)
  BY <1>4 DEF RestoreHeader, Goto, Tracks, TypeOK
<1>5. CASE RemoteHit(c)
  <2>1. held[c] \in Entry
    BY <1>5 DEF RemoteHit, Control, Holding, TypeOK
  <2>2. held[c].bad = "no"
    BY <1>5, <2>1 DEF RemoteHit, Passed, Entry
  <2> QED
    BY <1>5, <2>2 DEF RemoteHit, Tracks
<1>6. CASE RemoteCorrupt(c)
  BY <1>6 DEF RemoteCorrupt, Goto, Tracks, TypeOK
<1>7. CASE Discard(c)
  <2>1. local'[m][v] = None
    BY <1>7 DEF Discard, SetMine, Tracks, TypeOK
  <2> QED
    BY <2>1
<1>8. CASE \/ LocalOpen(c) \/ LocalMiss(c) \/ LocalHit(c) \/ LocalCorrupt(c)
           \/ FetchMiss(c) \/ FetchBegin(c) \/ FetchEnd(c) \/ FetchFails(c)
  BY <1>8 DEF LocalOpen, LocalMiss, LocalHit, LocalCorrupt, FetchMiss, FetchBegin, FetchEnd,
              FetchFails, Tracks
<1> QED
  BY <1>1, <1>2, <1>3, <1>4, <1>5, <1>6, <1>7, <1>8 DEF Lookup

\* A corrupt entry enters a machine's store with FetchEnd, and whoever put it there
\* leaves it only by removing it or by finding another in its place.
LEMMA TrackedNext ==
  ASSUME TypeOK, TypeOK', Control, Passed, Tracked, Next
  PROVE  Tracked'
<1> SUFFICES ASSUME kills' = 0, ioErrors' = 0, NEW m \in Machine, NEW v \in Version,
                    local'[m][v] # None, local'[m][v].bad # "no"
             PROVE  \E c \in Client : Tracks(c, m, v)'
  BY DEF Tracked
<1>1. local[m][v] \in Entry \cup {None}
  BY DEF TypeOK
<1>2. ASSUME NEW c \in Client, \/ Hash(c) \/ Produce(c) \/ Edit(c) \/ OrphanWrites(c)
                               \/ OrphanEnds(c) \/ Lookup(c)
      PROVE  kills = 0 /\ ioErrors = 0
  <2>1. UNCHANGED counts
    BY <1>2 DEF Hash, Edit, OrphanWrites, OrphanEnds, Lookup, LocalOpen, LocalMiss,
                FetchedOpen, FetchedMiss, RestoreObject, RestoreHeader, LocalHit, RemoteHit,
                LocalCorrupt, RemoteCorrupt, Discard, FetchMiss, FetchBegin, FetchEnd,
                FetchFails, Produce, Build, BuildFails, Store, UploadBegin, UploadEnd,
                UploadFails, CleanUp, Finish
  <2> QED
    BY <2>1 DEF counts
<1>3. ASSUME kills = 0, ioErrors = 0, local[m][v] = local'[m][v]
      PROVE  \E d \in Client : Tracks(d, m, v)
  BY <1>3 DEF Tracked
<1>4. ASSUME NEW c \in Client, Lookup(c)
      PROVE  \E d \in Client : Tracks(d, m, v)'
  <2>1. CASE local'[m][v] = local[m][v]
    <3>1. PICK d \in Client : Tracks(d, m, v)
      BY <1>2, <1>3, <1>4, <2>1
    <3>2. CASE d = c
      <4>1. Tracks(c, m, v)
        BY <3>1, <3>2 DEF Tracks
      <4> QED
        BY <1>4, <2>1, <4>1, OwnTracks
    <3>3. CASE d # c
      <4>1. pc'[d] = pc[d] /\ key'[d] = key[d] /\ held'[d] = held[d]
        BY <1>4, <3>3, OthersKept
      <4> QED
        BY <3>1, <4>1 DEF Tracks
    <3> QED
      BY <3>2, <3>3
  <2>2. CASE local'[m][v] # local[m][v]
    <3>1. CASE Discard(c)
      BY <2>2, <3>1 DEF Discard, SetMine, TypeOK
    <3>2. CASE FetchEnd(c)
      <4>1. MachineOf[c] = m /\ key[c] = v
        BY <2>2, <3>2 DEF FetchEnd, SetMine, TypeOK
      <4> QED
        BY <3>2, <4>1 DEF FetchEnd, Goto, Tracks, TypeOK
    <3>3. CASE ~Discard(c) /\ ~FetchEnd(c)
      BY <1>4, <2>2, <3>3 DEF Lookup, LocalOpen, LocalMiss, FetchedOpen, FetchedMiss,
           RestoreObject, RestoreHeader, LocalHit, RemoteHit, LocalCorrupt, RemoteCorrupt,
           FetchMiss, FetchBegin, FetchFails
    <3> QED
      BY <3>1, <3>2, <3>3
  <2> QED
    BY <2>1, <2>2
<1>5. ASSUME NEW c \in Client, \/ Hash(c) \/ Produce(c) \/ Edit(c) \/ OrphanWrites(c)
                               \/ OrphanEnds(c)
      PROVE  \E d \in Client : Tracks(d, m, v)'
  <2>1. local'[m][v] = local[m][v]
    <3>1. CASE Store(c)
      <4> DEFINE e == [object |-> out[c].object, header |-> out[c].header, bad |-> "no"]
      <4>1. e.bad = "no" /\ SetMine(c, e)
        BY <3>1 DEF Store
      <4> HIDE DEF e
      <4> QED
        BY <4>1 DEF SetMine, TypeOK
    <3>2. CASE ~Store(c)
      BY <1>5, <3>2 DEF Hash, Edit, OrphanWrites, OrphanEnds, Produce, Build, BuildFails,
                        UploadBegin, UploadEnd, UploadFails, CleanUp, Finish
    <3> QED
      BY <3>1, <3>2
  <2>2. PICK d \in Client : Tracks(d, m, v)
    BY <1>2, <1>3, <1>5, <2>1
  <2>3. pc'[d] = pc[d] /\ key'[d] = key[d] /\ held'[d] = held[d]
    <3>1. CASE d # c
      BY <1>5, <3>1, OthersKept
    <3>2. CASE d = c
      <4>1. pc[c] \in {"lookup", "discard", "remoteRestore", "remoteHeader", "remoteEnd"}
        BY <2>2, <3>2 DEF Tracks
      <4>2. UNCHANGED <<pc, key, held>>
        BY <1>5, <4>1 DEF Hash, Edit, OrphanWrites, OrphanEnds, client, Produce, Build,
             BuildFails, Store, UploadBegin, UploadEnd, UploadFails, CleanUp, Finish
      <4> QED
        BY <4>2
    <3> QED
      BY <3>1, <3>2
  <2> QED
    BY <2>2, <2>3 DEF Tracks
<1>6. ASSUME NEW c \in Client, IoError(c) \/ RemoteIoError(c) \/ Kill(c)
      PROVE  FALSE
  BY <1>6 DEF IoError, RemoteIoError, Kill, TypeOK
<1>7. CASE Evict \/ Damage
  <2>1. UNCHANGED <<client, kills, ioErrors>>
    BY <1>7 DEF Evict, Damage, counts
  <2>2. local'[m][v] = local[m][v]
    <3>1. CASE Damage
      BY <3>1 DEF Damage
    <3>2. CASE Evict
      <4>1. \/ UNCHANGED local
            \/ \E n \in Machine, u \in Version : local' = [local EXCEPT ![n][u] = None]
        BY <3>2 DEF Evict
      <4>2. ASSUME NEW n \in Machine, NEW u \in Version,
                   local' = [local EXCEPT ![n][u] = None]
            PROVE  local'[m][v] = local[m][v]
        BY <4>2 DEF TypeOK
      <4> QED
        BY <4>1, <4>2
    <3> QED
      BY <1>7, <3>1, <3>2
  <2>3. PICK d \in Client : Tracks(d, m, v)
    BY <1>3, <2>1, <2>2
  <2> QED
    BY <2>1, <2>3 DEF Tracks, client
<1> QED
  BY <1>4, <1>5, <1>6, <1>7 DEF Next

\* A corrupt entry does not outlive the run that fetched it, however many clients
\* share the store, unless one is killed or cannot remove it.
THEOREM CorruptStaysTracked == Spec => []CorruptDiscarded
<1> DEFINE TInv == IInv /\ Passed /\ Tracked
<1>1. Init => TInv
  BY InitEstablishes DEF Init, Passed, Tracked
<1>2. TInv /\ [Next]_vars => TInv'
  <2> SUFFICES ASSUME TInv, [Next]_vars PROVE TInv'
    OBVIOUS
  <2>1. IInv'
    BY NextPreserves
  <2>2. CASE UNCHANGED vars
    <3>1. Passed' /\ Tracked'
      BY <2>2 DEF vars, client, counts, Passed, Tracked, Tracks
    <3> QED
      BY <2>1, <3>1
  <2>3. CASE Next
    BY <2>1, <2>3, PassedNext, TrackedNext DEF IInv
  <2> QED
    BY <2>2, <2>3
<1>3. TInv => CorruptDiscarded
  BY DEF CorruptDiscarded, Tracked, Tracks
<1> QED
  BY <1>1, <1>2, <1>3, PTL DEF Spec
-----------------------------------------------------------------------------
(* Which runs fail *)

\* A run fails where main returns an error: on a corrupt entry of its own store,
\* or when its own file system fails.
LEMMA RunsFailBy ==
  ASSUME TypeOK, NEW d \in Client, Next, exit'[d] = "failed", exit[d] # "failed"
  PROVE  LocalCorrupt(d) \/ IoError(d)
<1>n. ASSUME NEW c \in Client,
             \/ Hash(c) \/ Lookup(c) \/ Produce(c) \/ IoError(c) \/ RemoteIoError(c)
             \/ Edit(c) \/ Kill(c) \/ OrphanWrites(c) \/ OrphanEnds(c)
      PROVE  LocalCorrupt(d) \/ IoError(d)
  <2>1. CASE Hash(c) \/ Edit(c) \/ OrphanWrites(c) \/ OrphanEnds(c)
    BY <2>1 DEF Hash, Edit, OrphanWrites, OrphanEnds, client, TypeOK
  <2>2. CASE IoError(c)
    BY <2>2 DEF IoError, Exit, TypeOK
  <2>3. CASE RemoteIoError(c)
    BY <2>3 DEF RemoteIoError, Exit, TypeOK
  <2>4. CASE Kill(c)
    BY <2>4 DEF Kill, Exit, TypeOK
  <2>5. CASE LocalCorrupt(c)
    BY <2>5 DEF LocalCorrupt, Exit, TypeOK
  <2>6. CASE LocalHit(c) \/ Finish(c)
    BY <2>6 DEF LocalHit, Finish, Exit, TypeOK
  <2>7. CASE Lookup(c) \/ Produce(c)
    <3>1. LocalCorrupt(c) \/ LocalHit(c) \/ Finish(c) \/ UNCHANGED exit
      BY <2>7
      DEF Lookup, Produce, LocalOpen, LocalMiss, FetchedOpen, FetchedMiss,
          RestoreObject, RestoreHeader, RemoteHit, RemoteCorrupt, Discard, FetchMiss,
          FetchBegin, FetchEnd, FetchFails, Build, BuildFails, Store, UploadBegin,
          UploadEnd, UploadFails, CleanUp
    <3> QED
      BY <2>5, <2>6, <3>1
  <2> QED
    BY <1>n, <2>1, <2>2, <2>3, <2>4, <2>7
<1>2. CASE Evict \/ Damage
  BY <1>2 DEF Evict, Damage, client
<1> QED
  BY <1>n, <1>2 DEF Next

\* An entry that unpack does not reject.
Whole(e) == e # None => e.bad = "no"

AllWhole ==
  /\ \A v \in Version : Whole(server[v]) /\ \A m \in Machine : Whole(local[m][v])
  /\ \A c \in Client : Whole(held[c])

\* A client stores what it has in hand or what it has built, and takes in hand
\* what is stored: it damages nothing.
LEMMA ClientsDamageNothing ==
  ASSUME TypeOK, Control, AllWhole, NEW c \in Client,
         \/ Hash(c) \/ Lookup(c) \/ Produce(c) \/ IoError(c) \/ RemoteIoError(c)
         \/ Edit(c) \/ Kill(c) \/ OrphanWrites(c) \/ OrphanEnds(c)
  PROVE  AllWhole'
<1> DEFINE built == [object |-> out[c].object, header |-> out[c].header, bad |-> "no"]
<1>1. UNCHANGED server \/ server' = [server EXCEPT ![key[c]] = held[c]]
  BY DEF Hash, Lookup, Produce, IoError, RemoteIoError, Edit, Kill, OrphanWrites,
         OrphanEnds, LocalOpen, LocalMiss, FetchedOpen, FetchedMiss, RestoreObject,
         RestoreHeader, LocalHit, RemoteHit, LocalCorrupt, RemoteCorrupt, Discard,
         FetchMiss, FetchBegin, FetchEnd, FetchFails, Build, BuildFails, Store,
         UploadBegin, UploadEnd, UploadFails, CleanUp, Finish
<1>2. \/ UNCHANGED local
      \/ SetMine(c, None) \/ SetMine(c, held[c]) \/ SetMine(c, built)
  BY DEF Hash, Lookup, Produce, IoError, RemoteIoError, Edit, Kill, OrphanWrites,
         OrphanEnds, LocalOpen, LocalMiss, FetchedOpen, FetchedMiss, RestoreObject,
         RestoreHeader, LocalHit, RemoteHit, LocalCorrupt, RemoteCorrupt, Discard,
         FetchMiss, FetchBegin, FetchEnd, FetchFails, Build, BuildFails, Store,
         UploadBegin, UploadEnd, UploadFails, CleanUp, Finish
<1>3. \/ UNCHANGED held
      \/ held' = [held EXCEPT ![c] = None]
      \/ pc[c] # "idle" /\ held' = [held EXCEPT ![c] = Mine(c)]
      \/ pc[c] # "idle" /\ held' = [held EXCEPT ![c] = server[key[c]]]
  BY DEF Hash, Lookup, Produce, IoError, RemoteIoError, Edit, Kill, OrphanWrites,
         OrphanEnds, LocalOpen, LocalMiss, FetchedOpen, FetchedMiss, RestoreObject,
         RestoreHeader, LocalHit, RemoteHit, LocalCorrupt, RemoteCorrupt, Discard,
         FetchMiss, FetchBegin, FetchEnd, FetchFails, Build, BuildFails, Store,
         UploadBegin, UploadEnd, UploadFails, CleanUp, Finish, Exit, client
<1>4. Whole(None) /\ Whole(held[c]) /\ Whole(built)
  BY DEF AllWhole, Whole
<1>5. pc[c] # "idle" => Whole(Mine(c)) /\ Whole(server[key[c]])
  BY MachineAssumption DEF AllWhole, Mine, Control, TypeOK
<1> HIDE DEF built
<1>6. \A v \in Version : Whole(server'[v])
  BY <1>1, <1>4 DEF AllWhole, TypeOK
<1>7. \A m \in Machine, v \in Version : Whole(local'[m][v])
  BY <1>2, <1>4 DEF AllWhole, SetMine, TypeOK
<1>8. \A d \in Client : Whole(held'[d])
  BY <1>3, <1>4, <1>5 DEF AllWhole, TypeOK
<1> QED
  BY <1>6, <1>7, <1>8 DEF AllWhole
\* What goes wrong is counted, and the counters only grow.
LEMMA CountsGrow ==
  ASSUME TypeOK, Next
  PROVE  /\ kills' = 0 => kills = 0
         /\ ioErrors' = 0 => ioErrors = 0
         /\ damage' = 0 => damage = 0 /\ ~Damage
<1>1. kills \in Nat /\ damage \in Nat /\ ioErrors \in Nat
  BY BoundsAssumption DEF TypeOK
<1>2. ASSUME NEW c \in Client,
             \/ Hash(c) \/ Lookup(c) \/ Produce(c) \/ IoError(c) \/ RemoteIoError(c)
             \/ Edit(c) \/ Kill(c) \/ OrphanWrites(c) \/ OrphanEnds(c)
      PROVE  /\ kills' = kills \/ kills' = kills + 1
             /\ ioErrors' = ioErrors \/ ioErrors' = ioErrors + 1
             /\ damage' = damage
  BY <1>2
  DEF Hash, Lookup, Produce, IoError, RemoteIoError, Edit, Kill, OrphanWrites,
      OrphanEnds, LocalOpen, LocalMiss, FetchedOpen, FetchedMiss, RestoreObject,
      RestoreHeader, LocalHit, RemoteHit, LocalCorrupt, RemoteCorrupt, Discard,
      FetchMiss, FetchBegin, FetchEnd, FetchFails, Build, BuildFails, Store,
      UploadBegin, UploadEnd, UploadFails, CleanUp, Finish, counts
<1>3. /\ kills' = kills \/ kills' = kills + 1
      /\ ioErrors' = ioErrors \/ ioErrors' = ioErrors + 1
      /\ damage' = damage \/ damage' = damage + 1
  <2>1. CASE Evict
    BY <2>1 DEF Evict, counts
  <2>2. CASE Damage
    BY <2>2 DEF Damage
  <2> QED
    BY <1>2, <2>1, <2>2 DEF Next
<1>4. Damage => damage' = damage + 1
  BY DEF Damage
<1> QED
  BY <1>1, <1>3, <1>4

\* An undamaged server makes no run fail.
UndamagedOpen == damage = 0 => AllWhole /\ FailOpen

LEMMA UndamagedNext ==
  ASSUME TypeOK, Control, UndamagedOpen, Next
  PROVE  UndamagedOpen'
<1>1. damage \in Nat /\ ioErrors \in Nat
  BY BoundsAssumption DEF TypeOK
<1>2. SUFFICES ASSUME damage' = 0 PROVE AllWhole' /\ FailOpen'
  BY DEF UndamagedOpen
<1>3. ~Damage /\ damage = 0
  BY <1>2, CountsGrow
<1>4. AllWhole /\ FailOpen
  BY <1>3 DEF UndamagedOpen
<1>5. AllWhole'
  <2>1. CASE Evict
    <3>1. PICK v \in Version :
            \/ server' = [server EXCEPT ![v] = None] /\ UNCHANGED local
            \/ /\ \E m \in Machine : local' = [local EXCEPT ![m][v] = None]
               /\ UNCHANGED server
      BY <2>1 DEF Evict
    <3>2. UNCHANGED held /\ Whole(None)
      BY <2>1 DEF Evict, client, Whole
    <3>3. CASE server' = [server EXCEPT ![v] = None] /\ UNCHANGED local
      BY <1>4, <3>2, <3>3 DEF AllWhole, TypeOK
    <3>4. ASSUME NEW m \in Machine, local' = [local EXCEPT ![m][v] = None],
                 UNCHANGED server
          PROVE  AllWhole'
      BY <1>4, <3>2, <3>4 DEF AllWhole, TypeOK
    <3> QED
      BY <3>1, <3>3, <3>4
  <2> QED
    BY <1>3, <1>4, <2>1, ClientsDamageNothing DEF Next
<1>6. FailOpen'
  <2>1. SUFFICES ASSUME ioErrors' = 0, NEW c \in Client, exit'[c] = "failed"
                 PROVE  FALSE
    BY DEF FailOpen
  <2>2. ~LocalCorrupt(c)
    <3>1. SUFFICES ASSUME LocalCorrupt(c) PROVE FALSE
      OBVIOUS
    <3>2. held[c] # None /\ held[c].bad # "no"
      BY <3>1 DEF LocalCorrupt, Rejects, Control, Holding
    <3> QED
      BY <1>4, <3>2 DEF AllWhole, Whole
  <2>3. ~IoError(c) /\ ioErrors = 0
    BY <1>1, <2>1, CountsGrow DEF IoError
  <2>4. exit[c] # "failed"
    BY <1>4, <2>3 DEF FailOpen
  <2> QED
    BY <2>1, <2>2, <2>3, <2>4, RunsFailBy
<1> QED
  BY <1>5, <1>6

\* As long as no blob of the server has been damaged, no run fails unless its own
\* file system does, whatever clients share a machine, whichever are killed, and
\* whatever the server answers (main.rs:26): unpack is never given an entry that
\* it rejects, since a killed, cut off or failed transfer leaves none.
THEOREM FailOpenUndamaged == Spec => [](damage = 0 => FailOpen)
<1>1. Init => UndamagedOpen
  BY NoneAssumption DEF Init, UndamagedOpen, AllWhole, Whole, FailOpen
<1>2. IInv /\ UndamagedOpen /\ [Next]_vars => UndamagedOpen'
  <2> SUFFICES ASSUME IInv, UndamagedOpen, [Next]_vars PROVE UndamagedOpen'
    OBVIOUS
  <2>1. CASE Next
    BY <2>1, UndamagedNext DEF IInv
  <2>2. CASE UNCHANGED vars
    BY <2>2 DEF vars, client, counts, UndamagedOpen, AllWhole, Whole, FailOpen
  <2> QED
    BY <2>1, <2>2
<1>3. UndamagedOpen => (damage = 0 => FailOpen)
  BY DEF UndamagedOpen
<1> QED
  BY <1>1, <1>2, <1>3, Invariance, PTL DEF Spec

-----------------------------------------------------------------------------
\* No two clients share a store.
Alone == \A c, d \in Client : MachineOf[c] = MachineOf[d] => c = d

Restoring == {"restore", "restoreHeader", "restoreEnd"}

\* A client restores from its own store what it has opened there.
LEMMA RestoringFrom ==
  ASSUME TypeOK, NEW d \in Client, Next, pc'[d] \in Restoring, ~LocalOpen(d)
  PROVE  pc[d] \in Restoring /\ held'[d] = held[d]
<1> USE DEF Restoring
<1>n. ASSUME NEW c \in Client,
             \/ Hash(c) \/ Lookup(c) \/ Produce(c) \/ IoError(c) \/ RemoteIoError(c)
             \/ Edit(c) \/ Kill(c) \/ OrphanWrites(c) \/ OrphanEnds(c)
      PROVE  pc[d] \in Restoring /\ held'[d] = held[d]
  <2>1. ASSUME c # d PROVE pc'[d] = pc[d] /\ held'[d] = held[d]
    BY <1>n, <2>1, OthersKept
  <2>2. CASE c = d
    <3>1. CASE RestoreObject(c) \/ RestoreHeader(c)
      BY <2>2, <3>1 DEF RestoreObject, RestoreHeader, Goto, TypeOK
    <3>2. CASE Edit(c) \/ OrphanWrites(c) \/ OrphanEnds(c)
      BY <2>2, <3>2 DEF Edit, OrphanWrites, OrphanEnds, client
    <3>3. ASSUME NEW place \in Places \ Restoring, Goto(c, place) PROVE FALSE
      BY <2>2, <3>3 DEF Goto, TypeOK
    <3>4. \/ RestoreObject(c) \/ RestoreHeader(c) \/ LocalOpen(c)
          \/ Edit(c) \/ OrphanWrites(c) \/ OrphanEnds(c)
          \/ \E place \in Places \ Restoring : Goto(c, place)
      BY <1>n DEF Hash, Lookup, Produce, IoError, RemoteIoError, Kill, LocalMiss,
          FetchedOpen, FetchedMiss, LocalHit, RemoteHit, LocalCorrupt, RemoteCorrupt,
          Discard, FetchMiss, FetchBegin, FetchEnd, FetchFails, Build, BuildFails,
          Store, UploadBegin, UploadEnd, UploadFails, CleanUp, Finish, Exit, Places
    <3> QED
      BY <2>2, <3>1, <3>2, <3>3, <3>4
  <2> QED
    BY <2>1, <2>2
<1>2. CASE Evict \/ Damage
  BY <1>2 DEF Evict, Damage, client
<1> QED
  BY <1>n, <1>2 DEF Next

\* A client that is alone with its store opens no corrupt entry at its first
\* lookup: the run that fetched it has removed it.
AloneOpen ==
  kills = 0 /\ ioErrors = 0 =>
    /\ \A c \in Client : pc[c] \in Restoring => held[c].bad = "no"
    /\ \A c \in Client : exit[c] # "failed"

LEMMA AloneNext ==
  ASSUME Alone, TypeOK, Control, CorruptDiscarded, AloneOpen, Next
  PROVE  AloneOpen'
<1>1. SUFFICES ASSUME kills' = 0, ioErrors' = 0, NEW c \in Client
               PROVE  /\ pc'[c] \in Restoring => held'[c].bad = "no"
                      /\ exit'[c] # "failed"
  BY DEF AloneOpen
<1>2. kills = 0 /\ ioErrors = 0
  BY <1>1, CountsGrow
<1>3. pc[c] \in Restoring => held[c].bad = "no"
  BY <1>2 DEF AloneOpen
<1>4. exit[c] # "failed"
  BY <1>2 DEF AloneOpen
<1>5. exit'[c] # "failed"
  <2>1. ~LocalCorrupt(c)
    BY <1>3 DEF LocalCorrupt, Rejects, Restoring
  <2>2. ~IoError(c)
    BY <1>1, <1>2 DEF IoError
  <2> QED
    BY <1>4, <2>1, <2>2, RunsFailBy
<1>6. ASSUME pc'[c] \in Restoring PROVE held'[c].bad = "no"
  <2>1. CASE LocalOpen(c)
    <3>1. /\ MachineOf[c] \in Machine /\ key[c] \in Version
          /\ Mine(c) # None /\ held'[c] = Mine(c) /\ pc[c] = "local"
      BY <2>1, MachineAssumption DEF LocalOpen, Control, TypeOK
    <3>2. SUFFICES ASSUME Mine(c).bad # "no" PROVE FALSE
      BY <3>1
    <3>3. PICK d \in Client :
            /\ MachineOf[d] = MachineOf[c]
            /\ pc[d] \in {"lookup", "remoteRestore", "remoteHeader", "remoteEnd",
                          "discard"}
      BY <1>2, <3>1, <3>2 DEF CorruptDiscarded, Mine
    <3> QED
      BY <3>1, <3>3 DEF Alone
  <2>2. CASE ~LocalOpen(c)
    <3>1. pc[c] \in Restoring /\ held'[c] = held[c]
      BY <1>6, <2>2, RestoringFrom
    <3> QED
      BY <1>3, <3>1
  <2> QED
    BY <2>1, <2>2
<1> QED
  BY <1>5, <1>6

\* "Failures talking to the server are reported but never fail the build"
\* (main.rs:26): a client that shares its machine with no other, and none of which
\* is killed, builds whatever the server sends, damaged blobs included, unless its
\* own file system fails.
THEOREM FailOpenAlone == Alone => (Spec => [](kills = 0 => FailOpen))
<1> SUFFICES ASSUME Alone PROVE Spec => [](kills = 0 => FailOpen)
  OBVIOUS
<1>1. Init => AloneOpen
  BY DEF Init, AloneOpen, Restoring
<1>2. IInv /\ CorruptDiscarded /\ AloneOpen /\ [Next]_vars => AloneOpen'
  <2> SUFFICES ASSUME IInv, CorruptDiscarded, AloneOpen, [Next]_vars
               PROVE  AloneOpen'
    OBVIOUS
  <2>1. CASE Next
    BY <2>1, AloneNext DEF IInv
  <2>2. CASE UNCHANGED vars
    BY <2>2 DEF vars, client, counts, AloneOpen
  <2> QED
    BY <2>1, <2>2
<1>3. AloneOpen => (kills = 0 => FailOpen)
  BY DEF AloneOpen, FailOpen
<1> QED
  BY <1>1, <1>2, <1>3, Invariance, CorruptStaysTracked, PTL DEF Spec
=============================================================================
