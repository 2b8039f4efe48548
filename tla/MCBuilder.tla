----------------------------- MODULE MCBuilder -----------------------------
(***************************************************************************)
(* Small instances of Builder for TLC: a C int of 4 and a uint64_t of 6    *)
(* bits.                                                                   *)
(***************************************************************************)
EXTENDS Builder

\* A negative integer, zero, a Strict and a Pinned mode, and one that is
\* Strict again once it is cut to a C int.
MCInts == {-1, 0, 2, 3, 18}
=============================================================================
