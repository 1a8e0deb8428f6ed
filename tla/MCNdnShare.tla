---------------------------- MODULE MCNdnShare ----------------------------
(***************************************************************************)
(* Instances of NdnShare for TLC.                                          *)
(***************************************************************************)
EXTENDS NdnShare, TLC

CONSTANTS o1, o2, o3, f1, f2

(* Two objects have the same last component; one has two segments.         *)
LastName3 == o1 :> f1 @@ o2 :> f1 @@ o3 :> f2
LastSegment3 == o1 :> 1 @@ o2 :> 0 @@ o3 :> 0

=============================================================================
