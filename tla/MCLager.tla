------------------------------ MODULE MCLager ------------------------------
(***************************************************************************)
(* Instances of Lager for TLC: two threads of one process (the server's    *)
(* blocking pool) and one of another, or two processes of one thread each  *)
(* (two clients); a blob produced without a write and a blob of one write. *)
(***************************************************************************)
EXTENDS LagerProofs, TLC

CONSTANTS t1, t2, t3, p1, p2, pid1, pid2, small, large

MCSize == small :> 0 @@ large :> 1
ThreadsShareProcess == t1 :> p1 @@ t2 :> p1 @@ t3 :> p2
OneEach == t1 :> p1 @@ t2 :> p2
DistinctPids == p1 :> pid1 @@ p2 :> pid2

\* Inodes are interchangeable; so are the two threads of p1, and two
\* processes of one thread each.
RaceSymmetry == Permutations(Ino) \cup Permutations({t1, t2})
CrashSymmetry ==
  Permutations(Ino) \cup
    {t1 :> t2 @@ t2 :> t1 @@ p1 :> p2 @@ p2 :> p1 @@ pid1 :> pid2 @@ pid2 :> pid1}
=============================================================================
