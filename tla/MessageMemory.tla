--------------------------- MODULE MessageMemory ----------------------------
(***************************************************************************)
(* The out structs of the C ABI and the blocks they point to.  A caller    *)
(* has one VireonMessage and one VireonMsgBatch.  It receives into a       *)
(* struct that holds nothing (sdk_msg_to_c: the caller must free), and     *)
(* frees in any order and as often as it likes, single messages of a batch *)
(* included.  The allocator gives freed addresses out again.               *)
(***************************************************************************)
EXTENDS Integers, Sequences, FiniteSets

CONSTANTS Addrs,    \* bound: addresses of the heap
          Null,     \* the null pointer
          MaxBatch  \* bound: messages in a batch

ASSUME MemoryAssumption == Null \notin Addrs /\ MaxBatch \in Nat \ {0}

VARIABLES heap,  \* the addresses that are allocated
          out,   \* a VireonMessage
          batch, \* a VireonMsgBatch
          msgs   \* the array at batch.msgs

vars == <<heap, out, batch, msgs>>

\* impl Default for VireonMessage and VireonMsgBatch.
NoMessage == [topic |-> Null, payload |-> Null, payload_len |-> 0]
NoBatch == [msgs |-> Null, count |-> 0]

Init ==
    /\ heap = {}
    /\ out = NoMessage
    /\ batch = NoBatch
    /\ msgs = << >>

\* The messages sdk_msg_to_c may make: a topic always, a payload block when
\* there are bytes.
Messages == [topic : Addrs, payload : Addrs, payload_len : {1}]
                \cup [topic : Addrs, payload : {Null}, payload_len : {0}]

Pointers(m) == {m.topic, m.payload} \ {Null}

\* sdk_msg_to_c with blocks of its own from the free addresses.
sdk_msg_to_c(m, used) ==
    /\ m \in Messages
    /\ m.topic # m.payload
    /\ Pointers(m) \cap used = {}

\* recv or rpc writes a message; when it returns 1 or -1, out is untouched.
Receive ==
    /\ out = NoMessage
    /\ \E m \in Messages :
          /\ sdk_msg_to_c(m, heap)
          /\ out' = m
          /\ heap' = heap \cup Pointers(m)
    /\ UNCHANGED <<batch, msgs>>

\* recv_batch writes an array of messages.
ReceiveBatch ==
    /\ batch = NoBatch
    /\ \E n \in 1..MaxBatch : \E a \in Addrs \ heap : \E ms \in [1..n -> Messages] :
          /\ \A i \in 1..n :
                sdk_msg_to_c(ms[i], heap \cup {a} \cup UNION {Pointers(ms[j]) : j \in 1..(i - 1)})
          /\ msgs' = ms
          /\ batch' = [msgs |-> a, count |-> n]
          /\ heap' = heap \cup {a} \cup UNION {Pointers(ms[i]) : i \in 1..n}
    /\ UNCHANGED out

\* Mutant of Cleared: the pointers stay after the blocks are freed.
ClearedNot(m) == m

HasPayload(m) == m.payload # Null /\ m.payload_len > 0

\* Mutant of Cleared: the length of the payload stays.
ClearedKeepsLength(m) ==
    IF HasPayload(m) THEN [m EXCEPT !.topic = Null, !.payload = Null] ELSE [m EXCEPT !.topic = Null]

\* What vireon_msg_free leaves of a message, and the blocks it frees.
Cleared(m) ==
    IF HasPayload(m) THEN NoMessage ELSE [m EXCEPT !.topic = Null]

FreedBy(m) ==
    ({m.topic} \cup (IF HasPayload(m) THEN {m.payload} ELSE {})) \ {Null}

vireon_msg_free ==
    \/ /\ out' = Cleared(out)
       /\ heap' = heap \ FreedBy(out)
       /\ UNCHANGED <<batch, msgs>>
    \/ /\ \E i \in 1..batch.count :
             /\ msgs' = [msgs EXCEPT ![i] = Cleared(@)]
             /\ heap' = heap \ FreedBy(msgs[i])
       /\ UNCHANGED <<out, batch>>

\* Every message, then the array, then the struct is reset.
vireon_batch_free ==
    /\ heap' = heap \ ((UNION {FreedBy(msgs[i]) : i \in 1..batch.count})
                         \cup (IF batch.count > 0 THEN {batch.msgs} \ {Null} ELSE {}))
    /\ batch' = NoBatch
    /\ msgs' = << >>
    /\ UNCHANGED out

Next == Receive \/ ReceiveBatch \/ vireon_msg_free \/ vireon_batch_free

Spec == Init /\ [][Next]_vars

-----------------------------------------------------------------------------
Structs == Messages \cup {NoMessage}

\* Type invariant: a message holds a payload exactly when it has a length.
TypeOK ==
    /\ heap \subseteq Addrs
    /\ out \in Structs
    /\ batch \in [msgs : Addrs \cup {Null}, count : 0..MaxBatch]
    /\ msgs \in Seq(Structs) /\ Len(msgs) = batch.count

\* Whatever the caller frees and in whatever order, every pointer in a struct
\* is the only one to its block, and the allocated blocks are exactly those
\* pointed to: nothing is freed twice (also not when its address was used
\* again), nothing is read after it was freed, and nothing leaks.
HeapOwned ==
    /\ heap = Pointers(out) \cup ({batch.msgs} \ {Null})
                 \cup UNION {Pointers(msgs[i]) : i \in 1..Len(msgs)}
    /\ \A i \in 1..Len(msgs) :
          /\ Pointers(msgs[i]) \cap Pointers(out) = {}
          /\ batch.msgs \notin Pointers(msgs[i])
          /\ \A j \in 1..Len(msgs) : i # j => Pointers(msgs[i]) \cap Pointers(msgs[j]) = {}
    /\ batch.msgs \notin Pointers(out)
=============================================================================
