----------------------------- MODULE MCGateway -----------------------------
(***************************************************************************)
(* Small instances of Gateway for TLC.                                     *)
(***************************************************************************)
EXTENDS Gateway

=============================================================================
