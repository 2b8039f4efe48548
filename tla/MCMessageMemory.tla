-------------------------- MODULE MCMessageMemory ---------------------------
(***************************************************************************)
(* A small instance of MessageMemory for TLC.                              *)
(***************************************************************************)
EXTENDS MessageMemory

=============================================================================
