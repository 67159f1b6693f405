---------------------------- MODULE MCWorldRegen ----------------------------
(***************************************************************************)
(* Small instances of WorldRegen for TLC.                                  *)
(***************************************************************************)
EXTENDS WorldRegen, TLC

Symmetry == Permutations(Extras) \union Permutations(Templates)

=============================================================================
