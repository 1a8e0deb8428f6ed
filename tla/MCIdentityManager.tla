------------------------- MODULE MCIdentityManager -------------------------
(***************************************************************************)
(* Instances of IdentityManager for TLC.  A unit of time is a quarter of   *)
(* an hour: the window is 1 and the instance's lifetime 4, as in the code. *)
(***************************************************************************)
EXTENDS IdentityManager, TLC

Quarter == 1
Hour == 4

=============================================================================
