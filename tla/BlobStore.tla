----------------------------- MODULE BlobStore -----------------------------
(***************************************************************************)
(* What the `lager` store promises its callers, whatever the file system   *)
(* underneath does: a map from addresses to whole blobs, on which putting, *)
(* getting and removing take effect at one instant each, and which a       *)
(* killed process or a power failure can never leave half-changed.         *)
(*                                                                         *)
(* Lager.tla is shown to implement this specification (LagerBlobStore).    *)
(***************************************************************************)
CONSTANTS
  Address,    \* the keys
  Blob,       \* the contents that may be put
  Thread,     \* the callers
  Process,    \* the operating-system processes the callers live in
  ProcessOf,  \* the process of each caller
  None        \* neither an address nor a blob

VARIABLES
  store,      \* the blob of each address, or None
  saved,      \* the store a power failure falls back to
  want,       \* the put each caller has in flight, or None
  held,       \* the blob each caller has been given to read, or None
  ret         \* what each caller's last operation returned

vars == <<store, saved, want, held, ret>>

Returned == {"none", "created", "replaced", "missing", "err"}

TypeOK ==
  /\ store \in [Address -> Blob \cup {None}]
  /\ saved \in [Address -> Blob \cup {None}]
  /\ want \in [Thread -> (Address \X Blob) \cup {None}]
  /\ held \in [Thread -> Blob \cup {None}]
  /\ ret \in [Thread -> Returned]

Init ==
  /\ store = [a \in Address |-> None]
  /\ saved = [a \in Address |-> None]
  /\ want = [t \in Thread |-> None]
  /\ held = [t \in Thread |-> None]
  /\ ret = [t \in Thread |-> "none"]

Resting(t) == want[t] = None /\ held[t] = None

\* The caller asks for b to be put at a; nothing is stored yet.
BeginPut(t, a, b) ==
  /\ Resting(t)
  /\ want' = [want EXCEPT ![t] = <<a, b>>]
  /\ ret' = [ret EXCEPT ![t] = "none"]
  /\ UNCHANGED <<store, saved, held>>

\* The put takes effect and returns, reporting the entry as new or as one
\* replaced (the report may be out of date by the time it is made).
Put(t) ==
  /\ want[t] # None
  /\ store' = [store EXCEPT ![want[t][1]] = want[t][2]]
  /\ want' = [want EXCEPT ![t] = None]
  /\ \E r \in {"created", "replaced"} : ret' = [ret EXCEPT ![t] = r]
  /\ UNCHANGED <<saved, held>>

\* The put fails: the caller is told so, and the store is as it was.
FailPut(t) ==
  /\ want[t] # None
  /\ want' = [want EXCEPT ![t] = None]
  /\ ret' = [ret EXCEPT ![t] = "err"]
  /\ UNCHANGED <<store, saved, held>>

\* The caller is given the blob stored at a to read.
Get(t, a) ==
  /\ Resting(t)
  /\ store[a] # None
  /\ held' = [held EXCEPT ![t] = store[a]]
  /\ ret' = [ret EXCEPT ![t] = "none"]
  /\ UNCHANGED <<store, saved, want>>

\* The caller is told that nothing is stored at a, and nothing is.
Miss(t, a) ==
  /\ Resting(t)
  /\ store[a] = None
  /\ ret' = [ret EXCEPT ![t] = "missing"]
  /\ UNCHANGED <<store, saved, want, held>>

\* The caller is done with the blob it was given, or was refused it.
EndGet(t) ==
  /\ held[t] # None
  /\ held' = [held EXCEPT ![t] = None]
  /\ \E r \in {"none", "err"} : ret' = [ret EXCEPT ![t] = r]
  /\ UNCHANGED <<store, saved, want>>

Remove(t, a) ==
  /\ Resting(t)
  /\ store' = [store EXCEPT ![a] = None]
  /\ ret' = [ret EXCEPT ![t] = "none"]
  /\ UNCHANGED <<saved, want, held>>

\* An operation that fails before it does anything.
Refuse(t) ==
  /\ Resting(t)
  /\ ret' = [ret EXCEPT ![t] = "err"]
  /\ UNCHANGED <<store, saved, want, held>>

\* The callers in S die; what they had not finished never happens.
Die(S) ==
  /\ want' = [t \in Thread |-> IF t \in S THEN None ELSE want[t]]
  /\ held' = [t \in Thread |-> IF t \in S THEN None ELSE held[t]]
  /\ ret' = [t \in Thread |-> IF t \in S THEN "none" ELSE ret[t]]

Kill(p) ==
  /\ Die({t \in Thread : ProcessOf[t] = p})
  /\ UNCHANGED <<store, saved>>

\* The store of this instant becomes the one a power failure falls back to.
Commit ==
  /\ saved' = store
  /\ UNCHANGED <<store, want, held, ret>>

PowerLoss ==
  /\ Die(Thread)
  /\ store' = saved
  /\ UNCHANGED saved

Next ==
  \/ \E t \in Thread :
       \/ \E a \in Address, b \in Blob : BeginPut(t, a, b)
       \/ Put(t) \/ FailPut(t) \/ EndGet(t) \/ Refuse(t)
       \/ \E a \in Address : Get(t, a) \/ Miss(t, a) \/ Remove(t, a)
  \/ \E p \in Process : Kill(p)
  \/ Commit
  \/ PowerLoss

Spec == Init /\ [][Next]_vars
=============================================================================
