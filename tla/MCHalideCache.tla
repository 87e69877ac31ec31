--------------------------- MODULE MCHalideCache ---------------------------
(***************************************************************************)
(* Instances of HalideCache for TLC: two clients, each on a machine of its *)
(* own or both on one.                                                     *)
(***************************************************************************)
EXTENDS HalideCache, TLC

CONSTANTS c1, c2, m1, m2

OneEach == (c1 :> m1) @@ (c2 :> m2)
Together == (c1 :> m1) @@ (c2 :> m1)

VersionSymmetry == Permutations(Version)
=============================================================================
