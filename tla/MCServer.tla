------------------------------ MODULE MCServer ------------------------------
(***************************************************************************)
(* Instances of Server for TLC, with the invariant of its proofs.          *)
(***************************************************************************)
EXTENDS ServerProofs, TLC

CONSTANTS p1, p2, g1
=============================================================================
