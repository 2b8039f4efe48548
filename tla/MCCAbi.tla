------------------------------- MODULE MCCAbi -------------------------------
(***************************************************************************)
(* Small instances of CAbi for TLC.                                        *)
(***************************************************************************)
EXTENDS CAbi, TLC

\* A negative index, the first member, and one past the last.
MCIndices == {-1, 0, 1}

AbiSymmetry == Permutations(Threads) \cup Permutations(Handles)
=============================================================================
