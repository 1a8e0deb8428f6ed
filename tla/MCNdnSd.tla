------------------------------ MODULE MCNdnSd ------------------------------
(***************************************************************************)
(* Instances of NdnSd for TLC.                                             *)
(***************************************************************************)
EXTENDS NdnSd, TLC

Fd2 == 4 .. 5
Fd3 == 4 .. 6

(* Handles are interchangeable: nothing orders them.                       *)
RefSymmetry == Permutations(Ref)

=============================================================================
