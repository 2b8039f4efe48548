------------------------- MODULE MessageMemoryProofs -------------------------
(***************************************************************************)
(* Proofs about MessageMemory for any heap and any size of a batch.        *)
(***************************************************************************)
EXTENDS MessageMemory, TLAPS

\* A batch has an array exactly when it has messages, so that the count by
\* which vireon_batch_free decides speaks for the pointer.
ArrayCounted == batch.msgs = Null <=> batch.count = 0

IInv == TypeOK /\ ArrayCounted /\ HeapOwned

\* vireon_msg_free releases all that a message of sdk_msg_to_c holds, although
\* it looks at the length for the payload, and leaves the default struct.
LEMMA FreeIsTotal ==
    ASSUME NEW m \in Structs
    PROVE  /\ FreedBy(m) = Pointers(m)
           /\ Cleared(m) = NoMessage
           /\ Pointers(m) \subseteq Addrs
<1> USE MemoryAssumption DEF Pointers, FreedBy, HasPayload, Cleared, NoMessage
<1>1. CASE m \in [topic : Addrs, payload : Addrs, payload_len : {1}]
  BY <1>1
<1>2. CASE m \in [topic : Addrs, payload : {Null}, payload_len : {0}]
  BY <1>2
<1>3. CASE m = NoMessage
  BY <1>3
<1>4. QED
  BY <1>1, <1>2, <1>3 DEF Structs, Messages

\* A default struct points to nothing.
LEMMA NothingHeld == NoMessage \in Structs /\ Pointers(NoMessage) = {}
BY DEF Structs, Pointers, NoMessage

\* The blocks of the batch: the array and what its messages point to.
InBatch == ({batch.msgs} \ {Null}) \cup UNION {Pointers(msgs[i]) : i \in 1..Len(msgs)}

\* The single message and the batch share no block.
LEMMA BatchApart == HeapOwned => Pointers(out) \cap InBatch = {}
BY DEF HeapOwned, InBatch

\* The caller starts with default structs and an empty heap.
LEMMA InitIInv == Init => IInv
BY NothingHeld, MemoryAssumption
   DEF Init, IInv, TypeOK, ArrayCounted, HeapOwned, NoMessage, NoBatch

\* recv and rpc write fresh blocks into a struct that holds nothing.
LEMMA ReceiveStep == IInv /\ Receive => IInv'
<1> SUFFICES ASSUME IInv, Receive
             PROVE  IInv'
  OBVIOUS
<1>1. PICK m \in Messages : /\ Pointers(m) \cap heap = {}
                            /\ out' = m /\ heap' = heap \cup Pointers(m)
  BY DEF Receive, sdk_msg_to_c
<1>2. UNCHANGED <<batch, msgs>> /\ Pointers(out) = {}
  BY NothingHeld DEF Receive
<1>3. m \in Structs /\ Pointers(m) \subseteq Addrs
  BY FreeIsTotal DEF Structs
<1>4. TypeOK'
  BY <1>1, <1>2, <1>3 DEF IInv, TypeOK
<1>5. ArrayCounted'
  BY <1>2 DEF IInv, ArrayCounted
<1>6. /\ \A i \in 1..Len(msgs) : Pointers(msgs[i]) \subseteq heap
      /\ batch.msgs # Null => batch.msgs \in heap
      /\ Null \notin Pointers(m)
  BY DEF IInv, HeapOwned, Pointers
<1>7. HeapOwned'
  BY <1>1, <1>2, <1>6 DEF IInv, HeapOwned
<1>8. QED
  BY <1>4, <1>5, <1>7 DEF IInv

\* recv_batch writes an array of messages whose blocks are all fresh and all
\* different.
LEMMA ReceiveBatchStep == IInv /\ ReceiveBatch => IInv'
<1> SUFFICES ASSUME IInv, ReceiveBatch
             PROVE  IInv'
  OBVIOUS
<1> DEFINE Writes(n, a, ms) ==
         /\ \A i \in 1..n :
               sdk_msg_to_c(ms[i], heap \cup {a} \cup UNION {Pointers(ms[j]) : j \in 1..(i - 1)})
         /\ msgs' = ms
         /\ batch' = [msgs |-> a, count |-> n]
         /\ heap' = heap \cup {a} \cup UNION {Pointers(ms[i]) : i \in 1..n}
<1> PICK n \in 1..MaxBatch : \E a \in Addrs \ heap : \E ms \in [1..n -> Messages] :
            Writes(n, a, ms)
  BY DEF ReceiveBatch
<1>1. PICK a \in Addrs \ heap, ms \in [1..n -> Messages] : Writes(n, a, ms)
  OBVIOUS
<1>2. out' = out /\ msgs = << >> /\ heap = Pointers(out)
  <2>1. out' = out /\ batch.msgs = Null /\ batch.count = 0
    BY DEF ReceiveBatch, NoBatch
  <2>2. Len(msgs) = 0 /\ msgs = << >>
    BY <2>1 DEF IInv, TypeOK
  <2>3. QED
    BY <2>1, <2>2 DEF IInv, HeapOwned
<1>3. /\ a # Null /\ a \notin Pointers(out)
      /\ \A i \in 1..n : ms[i] \in Structs
  BY <1>2, MemoryAssumption DEF Structs
<1>4. ms \in Seq(Structs) /\ Len(ms) = n
  BY <1>3, MemoryAssumption
<1>5. \A i \in 1..n :
         /\ Pointers(ms[i]) \subseteq Addrs
         /\ Pointers(ms[i]) \cap Pointers(out) = {}
         /\ a \notin Pointers(ms[i])
         /\ \A j \in 1..(i - 1) : Pointers(ms[i]) \cap Pointers(ms[j]) = {}
  BY <1>1, <1>2, <1>3, FreeIsTotal DEF sdk_msg_to_c
<1>6. \A i, j \in 1..n : i # j => Pointers(ms[i]) \cap Pointers(ms[j]) = {}
  <2>1. ASSUME NEW i \in 1..n, NEW j \in 1..n, i # j
        PROVE  Pointers(ms[i]) \cap Pointers(ms[j]) = {}
    <3>1. n \in Nat
      BY MemoryAssumption
    <3>2. i \in 1..(j - 1) \/ j \in 1..(i - 1)
      BY <2>1, <3>1
    <3>3. QED
      BY <1>5, <3>2
  <2>2. QED
    BY <2>1
<1>7. TypeOK'
  <2>1. heap' \subseteq Addrs
    BY <1>1, <1>5 DEF IInv, TypeOK
  <2>2. batch' \in [msgs : Addrs \cup {Null}, count : 0..MaxBatch] /\ batch'.count = n
    BY <1>1, MemoryAssumption
  <2>3. QED
    BY <1>1, <1>2, <1>4, <2>1, <2>2 DEF IInv, TypeOK
<1>8. ArrayCounted'
  BY <1>1, <1>3, MemoryAssumption DEF ArrayCounted
<1>9. HeapOwned'
  <2>1. batch'.msgs = a /\ Len(msgs') = n
    BY <1>1, <1>4
  <2>2. heap' = Pointers(out') \cup ({batch'.msgs} \ {Null})
                   \cup UNION {Pointers(msgs'[i]) : i \in 1..Len(msgs')}
    BY <1>1, <1>2, <1>3, <2>1
  <2>3. QED
    BY <1>1, <1>2, <1>3, <1>5, <1>6, <2>1, <2>2 DEF HeapOwned
<1>10. QED
  BY <1>7, <1>8, <1>9 DEF IInv

\* Freeing a message, alone or inside a batch, once or again, takes away its
\* own blocks only.
LEMMA MsgFreeStep == IInv /\ vireon_msg_free => IInv'
<1> SUFFICES ASSUME IInv, vireon_msg_free
             PROVE  IInv'
  OBVIOUS
<1>1. CASE /\ out' = Cleared(out)
           /\ heap' = heap \ FreedBy(out)
           /\ UNCHANGED <<batch, msgs>>
  <2>1. out' = NoMessage /\ heap' = heap \ Pointers(out)
    BY <1>1, FreeIsTotal DEF IInv, TypeOK
  <2>2. TypeOK' /\ ArrayCounted'
    BY <1>1, <2>1, NothingHeld DEF IInv, TypeOK, ArrayCounted
  <2>3. Pointers(out) \cap InBatch = {}
    BY BatchApart DEF IInv
  <2>4. heap = Pointers(out) \cup InBatch
    BY DEF IInv, HeapOwned, InBatch
  <2>5. heap' = InBatch /\ InBatch' = InBatch
    BY <1>1, <2>1, <2>3, <2>4 DEF InBatch
  <2>6. heap' = Pointers(out') \cup InBatch'
    BY <2>1, <2>5, NothingHeld
  <2>7. HeapOwned'
    BY <1>1, <2>1, <2>6, NothingHeld DEF IInv, HeapOwned, InBatch
  <2>8. QED
    BY <2>2, <2>7 DEF IInv
<1>2. ASSUME NEW i \in 1..batch.count,
             msgs' = [msgs EXCEPT ![i] = Cleared(@)],
             heap' = heap \ FreedBy(msgs[i]),
             UNCHANGED <<out, batch>>
      PROVE  IInv'
  <2>1. i \in 1..Len(msgs) /\ msgs[i] \in Structs
    BY DEF IInv, TypeOK
  <2>2. msgs' = [msgs EXCEPT ![i] = NoMessage] /\ heap' = heap \ Pointers(msgs[i])
    BY <1>2, <2>1, FreeIsTotal DEF IInv, TypeOK
  <2>3. /\ msgs' \in Seq(Structs) /\ Len(msgs') = Len(msgs)
        /\ msgs'[i] = NoMessage
        /\ \A j \in 1..Len(msgs) : j # i => msgs'[j] = msgs[j]
    BY <2>1, <2>2, NothingHeld DEF IInv, TypeOK
  <2>4. TypeOK' /\ ArrayCounted'
    BY <1>2, <2>2, <2>3 DEF IInv, TypeOK, ArrayCounted
  <2>5. /\ \A j \in 1..Len(msgs) : j # i =>
              Pointers(msgs'[j]) = Pointers(msgs[j]) /\ Pointers(msgs[j]) \cap Pointers(msgs[i]) = {}
        /\ Pointers(msgs'[i]) = {}
        /\ Pointers(msgs[i]) \cap Pointers(out) = {} /\ batch.msgs \notin Pointers(msgs[i])
    BY <2>1, <2>3, NothingHeld DEF IInv, HeapOwned
  <2>6. heap' = Pointers(out) \cup ({batch.msgs} \ {Null})
                   \cup UNION {Pointers(msgs'[j]) : j \in 1..Len(msgs)}
    <3> DEFINE Old == UNION {Pointers(msgs[j]) : j \in 1..Len(msgs)}
               New == UNION {Pointers(msgs'[j]) : j \in 1..Len(msgs)}
               Mine == Pointers(msgs[i])
    <3>1. \A x : x \in New <=> x \in Old /\ x \notin Mine
      BY <2>1, <2>5
    <3>2. heap = Pointers(out) \cup ({batch.msgs} \ {Null}) \cup Old
      BY DEF IInv, HeapOwned
    <3>3. /\ heap' = heap \ Mine
          /\ Mine \cap Pointers(out) = {} /\ batch.msgs \notin Mine
      BY <2>2, <2>5
    <3> HIDE DEF Old, New, Mine
    <3>4. heap' = Pointers(out) \cup ({batch.msgs} \ {Null}) \cup New
      BY <3>1, <3>2, <3>3
    <3>5. QED
      BY <3>4 DEF New
  <2>7. HeapOwned'
    BY <1>2, <2>1, <2>3, <2>5, <2>6 DEF IInv, HeapOwned
  <2>8. QED
    BY <2>4, <2>7 DEF IInv
<1>3. QED
  BY <1>1, <1>2 DEF vireon_msg_free

\* Freeing a batch leaves the blocks of the single message and nothing else,
\* whichever of its messages were freed before.
LEMMA BatchFreeStep == IInv /\ vireon_batch_free => IInv'
<1> SUFFICES ASSUME IInv, vireon_batch_free
             PROVE  IInv'
  OBVIOUS
<1>1. batch' = NoBatch /\ msgs' = << >> /\ out' = out
  BY DEF vireon_batch_free
<1>2. \A i \in 1..batch.count : FreedBy(msgs[i]) = Pointers(msgs[i])
  BY FreeIsTotal DEF IInv, TypeOK
<1>3. batch.count \in Nat /\ Len(msgs) = batch.count
  BY MemoryAssumption DEF IInv, TypeOK
<1>4. (IF batch.count > 0 THEN {batch.msgs} \ {Null} ELSE {}) = {batch.msgs} \ {Null}
  BY <1>3 DEF IInv, ArrayCounted
<1>5. heap' = heap \ InBatch
  <2> DEFINE Array == {batch.msgs} \ {Null}
             Held == UNION {Pointers(msgs[i]) : i \in 1..Len(msgs)}
             FreedArray == IF batch.count > 0 THEN {batch.msgs} \ {Null} ELSE {}
             FreedHeld == UNION {FreedBy(msgs[i]) : i \in 1..batch.count}
  <2>1. FreedHeld = Held
    BY <1>2, <1>3
  <2>2. FreedArray = Array
    BY <1>4
  <2>3. InBatch = Array \cup Held
    BY DEF InBatch
  <2>4. heap' = heap \ (FreedHeld \cup FreedArray)
    BY DEF vireon_batch_free
  <2> HIDE DEF Array, Held, FreedArray, FreedHeld
  <2>5. QED
    BY <2>1, <2>2, <2>3, <2>4
<1>6. heap' = Pointers(out)
  <2>1. heap = Pointers(out) \cup InBatch
    BY DEF IInv, HeapOwned, InBatch
  <2>2. QED
    BY <1>5, <2>1, BatchApart DEF IInv
<1>7. batch'.msgs = Null /\ batch'.count = 0 /\ Len(msgs') = 0
  BY <1>1 DEF NoBatch
<1>8. TypeOK' /\ ArrayCounted'
  BY <1>1, <1>5, <1>7, MemoryAssumption DEF IInv, TypeOK, ArrayCounted, NoBatch
<1>9. HeapOwned'
  BY <1>1, <1>6, <1>7 DEF HeapOwned, Pointers
<1>10. QED
  BY <1>8, <1>9 DEF IInv

\* Whatever the caller receives and frees, the combined invariant holds.
LEMMA Inductive == Spec => []IInv
<1>1. IInv /\ UNCHANGED vars => IInv'
  BY DEF IInv, TypeOK, ArrayCounted, HeapOwned, vars
<1>2. IInv /\ [Next]_vars => IInv'
  BY <1>1, ReceiveStep, ReceiveBatchStep, MsgFreeStep, BatchFreeStep DEF Next
<1>3. QED
  BY InitIInv, <1>2, PTL DEF Spec

\* In every out struct a payload pointer comes with a length, and the array of
\* a batch is as long as its count, for every order of receiving and freeing.
THEOREM TypeCorrect == Spec => []TypeOK
<1>1. IInv => TypeOK
  BY DEF IInv
<1>2. QED
  BY Inductive, <1>1, PTL

\* vireon_msg_free and vireon_batch_free, called in any order and as often as
\* the caller likes, free each block of sdk_msg_to_c and recv_batch exactly
\* once and never one that was given out again.
THEOREM HeapCorrect == Spec => []HeapOwned
<1>1. IInv => HeapOwned
  BY DEF IInv
<1>2. QED
  BY Inductive, <1>1, PTL
=============================================================================
