----------------------------- MODULE MCNdnApp -----------------------------
(***************************************************************************)
(* Instances of NdnApp for TLC.                                            *)
(***************************************************************************)
EXTENDS NdnApp, TLC

Both == {"TCP", "UDP"}
AllFaults == {"channel", "resolve", "emptyPrefix", "addFace", "addRoute"}

(* Interfaces are interchangeable, and so are instances.                   *)
Symmetry == Permutations(Name) \cup Permutations(Iface)

=============================================================================
