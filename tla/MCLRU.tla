------------------------------- MODULE MCLRU -------------------------------
(***************************************************************************)
(* Instances of LRU for TLC: time runs for a few instants, a file is stale *)
(* when it is older than one or two, and the entries have one size or two. *)
(***************************************************************************)
EXTENDS LRU, TLC

AddressSymmetry == Permutations(Address)
PassSymmetry == AddressSymmetry \cup Permutations(User) \cup Permutations(Evictor)
=============================================================================
