---------------------------- MODULE MCIdleWatch ----------------------------
(***************************************************************************)
(* Small instances of IdleWatch for TLC.  Connections are interchangeable, *)
(* and so are watchers; the instances check liveness too, so they do not   *)
(* use that symmetry.                                                      *)
(***************************************************************************)
EXTENDS IdleWatch

=============================================================================
