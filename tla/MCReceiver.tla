----------------------------- MODULE MCReceiver -----------------------------
(***************************************************************************)
(* Small instances of Receiver for TLC.                                    *)
(***************************************************************************)
EXTENDS Receiver, TLC

\* A negative, a zero, an ordinary and a too large max_count.
MCMaxCounts == {-1, 0, 1, 5}

ThreadSymmetry == Permutations(Threads)
=============================================================================
