------------------------------ MODULE MCDrain -------------------------------
(***************************************************************************)
(* Small instances of Drain for TLC.                                       *)
(***************************************************************************)
EXTENDS Drain

\* Several reports for a single child, fewer where there are more children.
MCMessages ==
    [s \in AllScripts |-> IF s \in {"consumer_group", "hol_congestion"} THEN 2 ELSE 4]

\* The smallest numbers with a last count after a report, for liveness.
MCFewMessages == [s \in AllScripts |-> IF s = "consumer_group" THEN 1 ELSE 2]
=============================================================================
