----------------------------- MODULE MCMetrics -----------------------------
(***************************************************************************)
(* Instances of Metrics for TLC: minutes of two seconds, a ring of two or  *)
(* three buckets, a table of two clients, a window of two latencies, and   *)
(* ages below one second, below two, or above.                             *)
(***************************************************************************)
EXTENDS Metrics, TLC

MCAgeBounds == <<1, 2>>

\* Passes that evict nothing, one entry, or two, one of them last used at a
\* time still to come.
MCEvictedLists == {<<>>, <<0>>, <<1, 3>>}

ClientSymmetry == Permutations(Client)
=============================================================================
