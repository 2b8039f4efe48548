---------------------------- MODULE MCPhpSession ----------------------------
(***************************************************************************)
(* Small instances of PhpSession for TLC.                                  *)
(***************************************************************************)
EXTENDS PhpSession, TLC

SessionSymmetry == Permutations(Handles) \cup Permutations(Objects)
=============================================================================
