--------------------------- MODULE MCHostControl ---------------------------
(***************************************************************************)
(* Small instances of HostControl for TLC.                                 *)
(***************************************************************************)
EXTENDS HostControl, TLC

Symmetry == Permutations(Requests)

=============================================================================
