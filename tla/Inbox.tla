------------------------------- MODULE Inbox -------------------------------
(***************************************************************************)
(* What a receiving handle (subscription, group subscription or stream)    *)
(* promises the threads that share it, whatever its locking does:          *)
(*   - messages leave in the order in which they arrived;                  *)
(*   - a call takes a contiguous run of 1..MaxBatch of them at one instant,*)
(*     so no message is lost, duplicated or split between two calls;       *)
(*   - a caller is told "closed" only when nothing is left and nothing can *)
(*     arrive any more.                                                    *)
(* A message is its arrival number.                                        *)
(***************************************************************************)
EXTENDS Naturals, Sequences

CONSTANTS Callers,   \* the threads that share the handle
          MaxBatch   \* the most one call may take

VARIABLES queue,     \* arrived and not yet taken
          sent,      \* how many have arrived
          open,      \* more may arrive
          got,       \* got[t]: what the calls of t have taken, in order
          told       \* the callers that have been told "closed"

vars == <<queue, sent, open, got, told>>

Init ==
    /\ queue = << >>
    /\ sent = 0
    /\ open = TRUE
    /\ got = [t \in Callers |-> << >>]
    /\ told = {}

Send ==
    /\ open
    /\ sent' = sent + 1
    /\ queue' = Append(queue, sent + 1)
    /\ UNCHANGED <<open, got, told>>

Shut ==
    /\ open
    /\ open' = FALSE
    /\ UNCHANGED <<queue, sent, got, told>>

Take(t, n) ==
    /\ n <= Len(queue)
    /\ got' = [got EXCEPT ![t] = @ \o SubSeq(queue, 1, n)]
    /\ queue' = SubSeq(queue, n + 1, Len(queue))
    /\ UNCHANGED <<sent, open, told>>

TellClosed(t) ==
    /\ ~open
    /\ queue = << >>
    /\ told' = told \cup {t}
    /\ UNCHANGED <<queue, sent, open, got>>

Next ==
    \/ Send
    \/ Shut
    \/ \E t \in Callers : \E n \in 1..MaxBatch : Take(t, n)
    \/ \E t \in Callers : TellClosed(t)

Spec == Init /\ [][Next]_vars
=============================================================================
