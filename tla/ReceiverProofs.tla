--------------------------- MODULE ReceiverProofs ---------------------------
(***************************************************************************)
(* Proofs about Receiver for any number of threads, messages and any       *)
(* batch capacity.                                                         *)
(***************************************************************************)
EXTENDS Receiver, TLAPS

\* recv_batch's clamp (max_count as usize).min(BATCH_CAP).max(1) always gives
\* a usable batch size, whatever i32 the caller passed.
LEMMA BatchLimitInRange ==
    ASSUME NEW n \in MaxCounts
    PROVE  BatchLimit(n) \in 1..BatchCap
BY ReceiverAssumption DEF BatchLimit, AsUsize

\* An entry point of the C ABI does nothing but queue the thread on the mutex
\* with an operation and a legal batch size.
LEMMA CallsEnter ==
    ASSUME NEW t \in Threads, Calls(t)
    PROVE  \E o \in AllOps, n \in 1..BatchCap : Enter(t, o, n)
<1>1. 1 \in 1..BatchCap
  BY ReceiverAssumption
<1>2. {"recv", "publish", "try_publish", "stream_id", "pending_bytes"} \subseteq AllOps
  BY DEF AllOps, RecvOps, PublishOps
<1>3. CASE \E n \in MaxCounts :
             \/ vireon_sub_recv_batch(t, n)
             \/ vireon_group_sub_recv_batch(t, n)
             \/ vireon_stream_recv_batch(t, n)
  <2>1. PICK n \in MaxCounts : Enter(t, "recv", BatchLimit(n))
    BY <1>3 DEF vireon_sub_recv_batch, vireon_group_sub_recv_batch,
                vireon_stream_recv_batch
  <2>2. QED
    BY <2>1, <1>2, BatchLimitInRange
<1>4. CASE \/ vireon_sub_recv(t) \/ vireon_group_sub_recv(t) \/ vireon_stream_recv(t)
           \/ vireon_stream_publish(t) \/ vireon_stream_try_publish(t)
           \/ vireon_stream_id(t) \/ vireon_stream_pending_bytes(t)
  BY <1>1, <1>2, <1>4 DEF vireon_sub_recv, vireon_group_sub_recv, vireon_stream_recv,
       vireon_stream_publish, vireon_stream_try_publish, vireon_stream_id,
       vireon_stream_pending_bytes
<1>5. QED
  BY <1>3, <1>4 DEF Calls

\* Closing, in any of its three forms, only reclaims an unused handle.
LEMMA ClosesClose == Closes => Close
BY DEF Closes, vireon_sub_close, vireon_group_sub_close, vireon_stream_close

\* Taking the first off a non-empty queue leaves a queue (pop_front in sdk recv
\* and try_recv, and the queue of the mutex).
LEMMA HeadTail ==
    ASSUME NEW S, NEW q \in Seq(S), q # << >>
    PROVE  Head(q) \in S /\ Tail(q) \in Seq(S)
OBVIOUS

\* The second moves up, and so do all behind it.
LEMMA TailMovesUp ==
    ASSUME NEW S, NEW q \in Seq(S), q # << >>
    PROVE  /\ Len(q) \in Nat /\ Len(q) > 0 /\ q[1] = Head(q) /\ Len(Tail(q)) = Len(q) - 1
           /\ \A i \in 1..Len(Tail(q)) : Tail(q)[i] = q[i + 1]
OBVIOUS

\* A message appended to what follows is appended to the whole.
LEMMA AppendWhole ==
    ASSUME NEW m \in Nat, NEW p \in Seq(Nat), NEW q \in Seq(Nat)
    PROVE  p \o Append(q, m) = Append(p \o q, m)
OBVIOUS
-----------------------------------------------------------------------------
\* Every step preserves the type invariant.
LEMMA TypeStep == TypeOK /\ [Next]_vars => TypeOK'
<1> SUFFICES ASSUME TypeOK, [Next]_vars
             PROVE  TypeOK'
  OBVIOUS
<1> USE ReceiverAssumption DEF TypeOK, sdkVars, lockVars, callVars, histVars
<1>1. CASE Deliver
  BY <1>1 DEF Deliver
<1>2. CASE End
  BY <1>2 DEF End
<1>3. CASE Transmit
  BY <1>3 DEF Transmit
<1>4. ASSUME NEW t \in Threads, Calls(t)
      PROVE  TypeOK'
  <2>1. PICK o \in AllOps, n \in 1..BatchCap : Enter(t, o, n)
    BY <1>4, CallsEnter
  <2>2. /\ pc' = [pc EXCEPT ![t] = "wait"] /\ op' = [op EXCEPT ![t] = o]
        /\ limit' = [limit EXCEPT ![t] = n] /\ waitq' = Append(waitq, t)
        /\ UNCHANGED <<kind, alive, slot, ended, buffer, arrived, pending, holder, batch, ret, got,
                       eof>>
    BY <2>1 DEF Enter
  <2>3. /\ pc' \in [Threads -> {"idle", "wait", "held", "ret"}]
        /\ op' \in [Threads -> AllOps] /\ limit' \in [Threads -> 1..BatchCap]
    BY <2>2
  <2>4. waitq' \in Seq(Threads)
    BY <2>2
  <2>5. QED
    BY <2>2, <2>3, <2>4
<1>5. ASSUME NEW t \in Threads, Lock(t)
      PROVE  TypeOK'
  <2>1. /\ holder' = t /\ pc' = [pc EXCEPT ![t] = "held"]
        /\ waitq' = Tail(waitq) /\ waitq # << >> /\ waitq \in Seq(Threads)
    BY <1>5 DEF Lock
  <2>2. waitq' \in Seq(Threads)
    BY ONLY <2>1, HeadTail
  <2>3. pc' \in [Threads -> {"idle", "wait", "held", "ret"}]
    BY <2>1
  <2>4. UNCHANGED <<kind, alive, slot, buffer, arrived, pending, ended, op, limit, batch, ret,
                    got, eof>>
    BY <1>5 DEF Lock
  <2>5. holder' \in Threads \cup {NoThread}
    BY <2>1
  <2>6. QED
    BY <2>2, <2>3, <2>4, <2>5
<1>6. ASSUME NEW t \in Threads, RecvOnNone(t)
      PROVE  TypeOK'
  BY <1>6 DEF RecvOnNone, Finish
<1>7. ASSUME NEW t \in Threads, RecvFirst(t)
      PROVE  TypeOK'
  <2>1. Head(buffer) \in Nat /\ Tail(buffer) \in Seq(Nat)
    <3>1. buffer # << >> /\ buffer \in Seq(Nat)
      BY <1>7 DEF RecvFirst
    <3>2. QED
      BY ONLY <3>1, HeadTail
  <2>2. <<Head(buffer)>> \in Seq(Nat)
    BY <2>1
  <2>3. QED
    BY <1>7, <2>1, <2>2 DEF RecvFirst
<1>8. ASSUME NEW t \in Threads, RecvEnd(t)
      PROVE  TypeOK'
  BY <1>8 DEF RecvEnd, Finish
<1>9. ASSUME NEW t \in Threads, TryRecv(t)
      PROVE  TypeOK'
  <2>1. Head(buffer) \in Nat /\ Tail(buffer) \in Seq(Nat)
    <3>1. buffer # << >> /\ buffer \in Seq(Nat)
      BY <1>9 DEF TryRecv
    <3>2. QED
      BY ONLY <3>1, HeadTail
  <2>2. Append(batch[t], Head(buffer)) \in Seq(Nat)
    BY <2>1
  <2>3. QED
    BY <1>9, <2>1, <2>2 DEF TryRecv
<1>10. ASSUME NEW t \in Threads, BatchDone(t)
       PROVE  TypeOK'
  <2>1. /\ pc' = [pc EXCEPT ![t] = "ret"] /\ ret' = [ret EXCEPT ![t] = 0] /\ holder' = NoThread
        /\ UNCHANGED <<kind, alive, slot, ended, buffer, arrived, pending, waitq, op, limit, batch,
                       got, eof>>
    BY <1>10 DEF BatchDone, Finish
  <2>2. pc' \in [Threads -> {"idle", "wait", "held", "ret"}] /\ ret' \in [Threads -> Int]
    BY <2>1
  <2>3. QED
    BY <2>1, <2>2
<1>11. ASSUME NEW t \in Threads, PublishOk(t)
       PROVE  TypeOK'
  BY <1>11 DEF PublishOk, Finish
<1>12. ASSUME NEW t \in Threads,
              PublishFull(t) \/ PublishError(t) \/ NotConnected(t) \/ Query(t)
       PROVE  TypeOK'
  <2>1. PICK r \in Int : Finish(t, r)
    <3>1. CASE PublishFull(t) \/ PublishError(t) \/ NotConnected(t)
      <4>1. Finish(t, -1) /\ -1 \in Int
        BY <3>1 DEF PublishFull, PublishError, NotConnected
      <4>2. QED
        BY <4>1
    <3>2. CASE Query(t)
      <4> DEFINE r == CASE slot = "none" -> 0
                        [] op[t] = "stream_id" /\ slot = "some" -> StreamId
                        [] op[t] = "pending_bytes" /\ slot = "some" -> pending
      <4>1. Finish(t, r) /\ op[t] \in {"stream_id", "pending_bytes"}
        BY <3>2, Zenon DEF Query, Holding
      <4>2. r \in Int
        BY <4>1
      <4> HIDE DEF r
      <4>3. QED
        BY <4>1, <4>2
    <3>3. QED
      BY <1>12, <3>1, <3>2
  <2>2. UNCHANGED <<kind, alive, slot, ended, buffer, arrived, pending, batch, got, eof>>
    BY <1>12 DEF PublishFull, PublishError, NotConnected, Query
  <2>3. QED
    BY <2>1, <2>2 DEF Finish
<1>13. ASSUME NEW t \in Threads, Return(t)
       PROVE  TypeOK'
  <2>1. "recv" \in AllOps /\ 1 \in 1..BatchCap
    BY DEF AllOps, RecvOps
  <2>2. got[t] \o batch[t] \in Seq(Nat)
    OBVIOUS
  <2>3. /\ pc' = [pc EXCEPT ![t] = "idle"] /\ op' = [op EXCEPT ![t] = "recv"]
        /\ limit' = [limit EXCEPT ![t] = 1] /\ ret' = [ret EXCEPT ![t] = 0]
        /\ got' = [got EXCEPT ![t] = got[t] \o batch[t]] /\ batch' = [batch EXCEPT ![t] = << >>]
        /\ UNCHANGED <<kind, alive, slot, ended, buffer, arrived, pending, holder, waitq, eof>>
    BY <1>13 DEF Return
  <2>4. /\ pc' \in [Threads -> {"idle", "wait", "held", "ret"}]
        /\ op' \in [Threads -> AllOps]
    BY <2>1, <2>3
  <2>5. limit' \in [Threads -> 1..BatchCap] /\ ret' \in [Threads -> Int]
    BY <2>1, <2>3
  <2>6. got' \in [Threads -> Seq(Nat)] /\ batch' \in [Threads -> Seq(Nat)]
    BY <2>2, <2>3
  <2>7. QED
    BY <2>3, <2>4, <2>5, <2>6
<1>14. CASE Closes
  BY <1>14, ClosesClose DEF Close
<1>15. CASE UNCHANGED vars
  BY <1>15 DEF vars
<1>16. QED
  BY <1>1, <1>2, <1>3, <1>4, <1>5, <1>6, <1>7, <1>8, <1>9, <1>10, <1>11, <1>12,
     <1>13, <1>14, <1>15 DEF Next, Progress, Reclaimed

\* The state of the handle, its mutex and the calls stays well typed
\* (subscription.rs and stream.rs, all entry points).
THEOREM TypeCorrect == Spec => []TypeOK
<1>1. Init => TypeOK
  <2> SUFFICES ASSUME Init PROVE TypeOK
    OBVIOUS
  <2>1. "recv" \in AllOps /\ 1 \in 1..BatchCap /\ 0 \in 0..SendCap /\ kind \in AllKinds
    BY ReceiverAssumption DEF Init, AllOps, RecvOps
  <2>2. << >> \in Seq(Nat) /\ << >> \in Seq(Threads)
    OBVIOUS
  <2>3. alive \in BOOLEAN /\ ended \in BOOLEAN
    BY DEF Init
  <2>4. /\ pc \in [Threads -> {"idle", "wait", "held", "ret"}]
        /\ op \in [Threads -> AllOps]
        /\ limit \in [Threads -> 1..BatchCap]
        /\ batch \in [Threads -> Seq(Nat)]
        /\ ret \in [Threads -> Int]
        /\ got \in [Threads -> Seq(Nat)]
    BY <2>1, <2>2 DEF Init
  <2>5. /\ slot \in {"some", "none"}
        /\ buffer \in Seq(Nat)
        /\ arrived \in Nat
        /\ pending \in 0..SendCap
        /\ holder \in Threads \cup {NoThread}
        /\ waitq \in Seq(Threads)
        /\ eof \subseteq Threads
    BY <2>1, <2>2 DEF Init
  <2>6. QED
    BY <2>1, <2>3, <2>4, <2>5 DEF TypeOK
<1>2. QED
  BY <1>1, TypeStep, PTL DEF Spec
-----------------------------------------------------------------------------
(***************************************************************************)
(* Every step of a thread that holds the guard either keeps it, or drops   *)
(* it with Finish.  The lemmas below only need to know that much.          *)
(***************************************************************************)

\* The actions in which a thread ends its async block and drops the guard.
Finishes(t) ==
    \/ RecvOnNone(t) \/ RecvEnd(t) \/ BatchDone(t)
    \/ PublishOk(t) \/ PublishFull(t) \/ PublishError(t) \/ NotConnected(t) \/ Query(t)

\* Ending the async block needs the guard, and releases it.
LEMMA FinishesFinish ==
    ASSUME NEW t \in Threads, Finishes(t)
    PROVE  /\ pc[t] = "held"
           /\ \E r : Finish(t, r)
           /\ UNCHANGED <<alive, batch, got, buffer, arrived>>
<1> USE DEF Holding, sdkVars, histVars
<1>1. CASE RecvOnNone(t) \/ RecvEnd(t)
  BY <1>1 DEF RecvOnNone, RecvEnd
<1>2. CASE BatchDone(t)
  BY <1>2 DEF BatchDone
<1>3. CASE PublishOk(t)
  BY <1>3 DEF PublishOk
<1>4. CASE PublishFull(t) \/ PublishError(t) \/ NotConnected(t)
  BY <1>4 DEF PublishFull, PublishError, NotConnected
<1>5. CASE Query(t)
  BY <1>5 DEF Query
<1>6. QED
  BY <1>1, <1>2, <1>3, <1>4, <1>5 DEF Finishes

\* Next, with the thread steps grouped by what they do to the guard.
LEMMA NextCases ==
    ASSUME [Next]_vars
    PROVE  \/ Deliver \/ End \/ Transmit \/ Close \/ UNCHANGED vars
           \/ \E t \in Threads :
                 \/ \E o \in AllOps, n \in 1..BatchCap : Enter(t, o, n)
                 \/ Lock(t) \/ RecvFirst(t) \/ TryRecv(t) \/ Finishes(t) \/ Return(t)
<1>1. ASSUME NEW t \in Threads, Calls(t)
      PROVE  \E o \in AllOps, n \in 1..BatchCap : Enter(t, o, n)
  BY <1>1, CallsEnter
<1>2. QED
  BY <1>1, ClosesClose DEF Next, Progress, Reclaimed, Finishes

\* Every step preserves the lock invariant.
LEMMA LockStep == TypeOK /\ LockInv /\ [Next]_vars => LockInv'
<1> SUFFICES ASSUME TypeOK, LockInv, [Next]_vars
             PROVE  LockInv'
  OBVIOUS
<1> USE ReceiverAssumption DEF sdkVars, lockVars, callVars, histVars
<1>1. CASE UNCHANGED <<alive, holder, waitq, pc>>
  BY <1>1 DEF LockInv
<1>2. ASSUME NEW t \in Threads, NEW o \in AllOps, NEW n \in 1..BatchCap, Enter(t, o, n)
      PROVE  LockInv'
  <2>1. /\ alive /\ alive' = alive /\ pc[t] = "idle" /\ holder' = holder
        /\ pc' = [pc EXCEPT ![t] = "wait"]
        /\ waitq' = Append(waitq, t)
    BY <1>2 DEF Enter
  <2>2. /\ Len(waitq') = Len(waitq) + 1
        /\ waitq'[Len(waitq) + 1] = t
        /\ \A i \in 1..Len(waitq) : waitq'[i] = waitq[i]
    BY <2>1 DEF TypeOK
  <2>3. \A i \in 1..Len(waitq) : waitq[i] # t
    BY <2>1 DEF LockInv
  <2>4. Len(waitq) \in Nat
    BY DEF TypeOK
  <2>5. \A u \in Threads : pc'[u] = "wait" <=> \E i \in 1..Len(waitq') : waitq'[i] = u
    <3>1. ASSUME NEW u \in Threads, u # t
          PROVE  pc'[u] = "wait" <=> \E i \in 1..Len(waitq') : waitq'[i] = u
      <4>1. pc'[u] = pc[u]
        BY <3>1, <2>1 DEF TypeOK
      <4>2. (\E i \in 1..Len(waitq') : waitq'[i] = u)
               <=> \E i \in 1..Len(waitq) : waitq[i] = u
        BY <3>1, <2>2, <2>4
      <4>3. QED
        BY <4>1, <4>2 DEF LockInv
    <3>2. pc'[t] = "wait" /\ \E i \in 1..Len(waitq') : waitq'[i] = t
      <4>1. Len(waitq) + 1 \in 1..Len(waitq')
        BY <2>2, <2>4
      <4>2. QED
        BY <4>1, <2>1, <2>2 DEF TypeOK
    <3>3. QED
      BY <3>1, <3>2
  <2>6. \A i, j \in 1..Len(waitq') : waitq'[i] = waitq'[j] => i = j
    BY <2>2, <2>3, <2>4 DEF LockInv
  <2>7. \A u \in Threads : pc'[u] = "held" <=> holder' = u
    BY <2>1 DEF LockInv, TypeOK
  <2>8. QED
    BY <2>1, <2>5, <2>6, <2>7 DEF LockInv
<1>3. ASSUME NEW t \in Threads, Lock(t)
      PROVE  LockInv'
  <2>1. /\ alive' = alive /\ pc[t] = "wait" /\ holder = NoThread /\ holder' = t
        /\ pc' = [pc EXCEPT ![t] = "held"]
        /\ waitq # << >> /\ Head(waitq) = t /\ waitq' = Tail(waitq)
    BY <1>3 DEF Lock
  <2>2. /\ Len(waitq) \in Nat /\ Len(waitq) > 0
        /\ waitq[1] = t
        /\ Len(waitq') = Len(waitq) - 1
        /\ \A i \in 1..Len(waitq') : waitq'[i] = waitq[i + 1]
    <3>1. waitq \in Seq(Threads)
      BY DEF TypeOK
    <3>2. QED
      BY ONLY <2>1, <3>1, TailMovesUp
  <2>3. \A i \in 1..Len(waitq') : waitq'[i] # t
    BY <2>2 DEF LockInv
  <2>4. ASSUME NEW u \in Threads
        PROVE  pc'[u] = "wait" <=> \E i \in 1..Len(waitq') : waitq'[i] = u
    <3>1. CASE u = t
      BY <3>1, <2>1, <2>3 DEF TypeOK
    <3>2. CASE u # t
      <4>1. pc'[u] = pc[u]
        BY <3>2, <2>1 DEF TypeOK
      <4>2. ASSUME NEW i \in 1..Len(waitq), waitq[i] = u
            PROVE  \E j \in 1..Len(waitq') : waitq'[j] = u
        <5>1. i - 1 \in 1..Len(waitq') /\ (i - 1) + 1 = i
          BY <4>2, <2>2, <3>2
        <5>2. QED
          BY <5>1, <4>2, <2>2
      <4>3. ASSUME NEW i \in 1..Len(waitq'), waitq'[i] = u
            PROVE  \E j \in 1..Len(waitq) : waitq[j] = u
        <5>1. i + 1 \in 1..Len(waitq)
          BY <2>2
        <5>2. QED
          BY <5>1, <4>3, <2>2
      <4>4. QED
        BY <4>1, <4>2, <4>3 DEF LockInv
    <3>3. QED
      BY <3>1, <3>2
  <2>5. \A u \in Threads : pc'[u] = "held" <=> holder' = u
    BY <2>1 DEF LockInv, TypeOK
  <2>6. ASSUME NEW i \in 1..Len(waitq'), NEW j \in 1..Len(waitq'), waitq'[i] = waitq'[j]
        PROVE  i = j
    <3>1. i + 1 \in 1..Len(waitq) /\ j + 1 \in 1..Len(waitq)
      BY <2>2
    <3>2. waitq[i + 1] = waitq[j + 1]
      BY <2>2, <2>6
    <3>3. i + 1 = j + 1
      BY <3>1, <3>2 DEF LockInv
    <3>4. QED
      BY <3>3
  <2>7. ~alive' => \A u \in Threads : pc'[u] = "idle"
    BY <2>1 DEF LockInv, TypeOK
  <2>8. QED
    BY <2>4, <2>5, <2>6, <2>7 DEF LockInv
<1>4. ASSUME NEW t \in Threads, Finishes(t)
      PROVE  LockInv'
  <2>1. /\ pc[t] = "held" /\ alive' = alive /\ holder' = NoThread /\ waitq' = waitq
        /\ pc' = [pc EXCEPT ![t] = "ret"]
    BY <1>4, FinishesFinish DEF Finish
  <2>2. pc'[t] = "ret" /\ \A u \in Threads \ {t} : pc'[u] = pc[u]
    BY <2>1 DEF TypeOK
  <2>3. \A u \in Threads : pc[u] = "held" <=> u = t
    BY <2>1 DEF LockInv
  <2>4. \A u \in Threads : pc'[u] = "held" <=> holder' = u
    BY <2>1, <2>2, <2>3
  <2>5. \A u \in Threads : pc'[u] = "wait" <=> pc[u] = "wait"
    BY <2>1, <2>2
  <2>6. alive'
    BY <2>1 DEF LockInv
  <2>7. QED
    BY <2>1, <2>4, <2>5, <2>6 DEF LockInv
<1>5. ASSUME NEW t \in Threads, Return(t)
      PROVE  LockInv'
  <2>1. /\ pc[t] = "ret" /\ alive' = alive /\ holder' = holder /\ waitq' = waitq
        /\ pc' = [pc EXCEPT ![t] = "idle"]
    BY <1>5 DEF Return
  <2>2. QED
    BY <2>1 DEF LockInv, TypeOK
<1>6. CASE Close
  BY <1>6 DEF Close, LockInv
<1>7. ASSUME Deliver \/ End \/ Transmit
      PROVE  UNCHANGED <<alive, holder, waitq, pc>>
  BY <1>7 DEF Deliver, End, Transmit
<1>8. ASSUME NEW t \in Threads, RecvFirst(t) \/ TryRecv(t)
      PROVE  UNCHANGED <<alive, holder, waitq, pc>>
  BY <1>8 DEF RecvFirst, TryRecv
<1>9. ASSUME UNCHANGED vars
      PROVE  UNCHANGED <<alive, holder, waitq, pc>>
  BY <1>9 DEF vars
<1>10. QED
  BY <1>1, <1>2, <1>3, <1>4, <1>5, <1>6, <1>7, <1>8, <1>9, NextCases

\* Mutual exclusion, first-come-first-served queueing and no call on a
\* reclaimed handle, for any number of threads.
THEOREM LockCorrect == Spec => []LockInv
<1>1. Init => LockInv
  BY ReceiverAssumption DEF Init, LockInv
<1>2. QED
  BY <1>1, TypeCorrect, LockStep, PTL DEF Spec
-----------------------------------------------------------------------------
(***************************************************************************)
(* Exactly-once delivery.  Only two kinds of step matter: an arrival       *)
(* extends the buffer, and a thread moves the head of the buffer to the    *)
(* end of what it has been handed.                                         *)
(***************************************************************************)

\* A step that leaves what was taken and what each thread was handed alone
\* keeps everything exactly-once delivery says of the threads.
LEMMA HandedFrame ==
    ASSUME ExactlyOnce,
           Taken' = Taken,
           \A u \in Threads : Handed(u)' = Handed(u)
    PROVE  HandedInOrder' /\ HandedTaken' /\ NoDuplicate' /\ NoLoss'
<1> DEFINE H(u) == Handed(u)
<1>1. \A u \in Threads : H(u)' = H(u)
  OBVIOUS
<1>2. HandedInOrder'
  <2>1. \A u \in Threads : \A i, j \in 1..Len(H(u)) : i < j => H(u)[i] < H(u)[j]
    BY DEF ExactlyOnce, HandedInOrder
  <2> HIDE DEF H
  <2>2. \A u \in Threads : \A i, j \in 1..Len(H(u)') : i < j => H(u)'[i] < H(u)'[j]
    BY <2>1, <1>1
  <2>3. QED
    BY <2>2 DEF HandedInOrder, H
<1>3. HandedTaken'
  <2>1. \A u \in Threads : \A i \in 1..Len(H(u)) : H(u)[i] \in 1..Taken
    BY DEF ExactlyOnce, HandedTaken
  <2> HIDE DEF H
  <2>2. \A u \in Threads : \A i \in 1..Len(H(u)') : H(u)'[i] \in 1..Taken'
    BY <2>1, <1>1
  <2>3. QED
    BY <2>2 DEF HandedTaken, H
<1>4. NoDuplicate'
  <2>1. \A u, v \in Threads : u # v =>
           \A i \in 1..Len(H(u)), j \in 1..Len(H(v)) : H(u)[i] # H(v)[j]
    BY DEF ExactlyOnce, NoDuplicate
  <2> HIDE DEF H
  <2>2. \A u, v \in Threads : u # v =>
           \A i \in 1..Len(H(u)'), j \in 1..Len(H(v)') : H(u)'[i] # H(v)'[j]
    BY <2>1, <1>1
  <2>3. QED
    BY <2>2 DEF NoDuplicate, H
<1>5. NoLoss'
  <2>1. \A m \in 1..Taken : \E u \in Threads : \E i \in 1..Len(H(u)) : H(u)[i] = m
    BY DEF ExactlyOnce, NoLoss
  <2> HIDE DEF H
  <2>2. \A m \in 1..Taken' : \E u \in Threads : \E i \in 1..Len(H(u)') : H(u)'[i] = m
    BY <2>1, <1>1
  <2>3. QED
    BY <2>2 DEF NoLoss, H
<1>6. QED
  BY <1>2, <1>3, <1>4, <1>5

\* An arrival keeps exactly-once delivery.
LEMMA ArrivalStep ==
    ASSUME TypeOK, ExactlyOnce,
           arrived' = arrived + 1,
           buffer' = Append(buffer, arrived + 1),
           \A u \in Threads : Handed(u)' = Handed(u)
    PROVE  ExactlyOnce'
<1>1. /\ Len(buffer) \in Nat
      /\ Len(buffer') = Len(buffer) + 1
      /\ buffer'[Len(buffer) + 1] = arrived + 1
      /\ \A i \in 1..Len(buffer) : buffer'[i] = buffer[i]
  BY DEF TypeOK
<1>2. Taken' = Taken /\ Taken \in Int
  BY <1>1 DEF Taken, TypeOK
<1>3. BufferInOrder'
  <2>1. SUFFICES ASSUME NEW i \in 1..(Len(buffer) + 1)
                 PROVE  buffer'[i] = Taken + i
    BY <1>1, <1>2 DEF ExactlyOnce, BufferInOrder
  <2>2. CASE i \in 1..Len(buffer)
    BY <2>2, <1>1 DEF ExactlyOnce, BufferInOrder
  <2>3. CASE i = Len(buffer) + 1
    BY <2>3, <1>1 DEF Taken, TypeOK
  <2>4. QED
    BY <2>2, <2>3, <1>1
<1>4. QED
  BY <1>2, <1>3, HandedFrame DEF ExactlyOnce

\* Receiving the head of the buffer keeps exactly-once delivery.
LEMMA HandOutStep ==
    ASSUME TypeOK, ExactlyOnce,
           NEW t \in Threads,
           buffer # << >>,
           buffer' = Tail(buffer),
           arrived' = arrived,
           Handed(t)' = Append(Handed(t), Head(buffer)),
           \A u \in Threads \ {t} : Handed(u)' = Handed(u)
    PROVE  ExactlyOnce'
<1> DEFINE H(u) == Handed(u)
           n == Len(H(t))
<1>1. /\ Len(buffer) \in Nat \ {0}
      /\ Len(buffer') = Len(buffer) - 1
      /\ \A i \in 1..Len(buffer') : buffer'[i] = buffer[i + 1]
      /\ Head(buffer) = buffer[1]
  BY DEF TypeOK
<1>2. \A u \in Threads : H(u) \in Seq(Nat) /\ Len(H(u)) \in Nat
  BY DEF TypeOK, Handed
<1>3. Taken \in Int /\ Taken' = Taken + 1 /\ Head(buffer) = Taken + 1
  BY <1>1 DEF ExactlyOnce, BufferInOrder, Taken, TypeOK
<1>4. Taken + 1 \in Nat
  BY <1>1, <1>3 DEF TypeOK
<1> HIDE DEF H
<1>5. /\ Len(H(t)') = n + 1
      /\ H(t)'[n + 1] = Taken + 1
      /\ \A i \in 1..n : H(t)'[i] = H(t)[i]
  <2>1. H(t)' = Append(H(t), Taken + 1)
    BY <1>3 DEF H
  <2>2. QED
    BY <1>2, <1>4, <2>1
<1>6. \A u \in Threads \ {t} : H(u)' = H(u)
  BY DEF H
<1>7. \A u \in Threads : \A i \in 1..Len(H(u)) : H(u)[i] \in 1..Taken
  BY DEF ExactlyOnce, HandedTaken, H
<1>8. BufferInOrder'
  BY <1>1, <1>3 DEF ExactlyOnce, BufferInOrder
<1>9. HandedInOrder'
  <2>1. SUFFICES ASSUME NEW u \in Threads, NEW i \in 1..Len(H(u)'),
                        NEW j \in 1..Len(H(u)'), i < j
                 PROVE  H(u)'[i] < H(u)'[j]
    BY DEF HandedInOrder, H
  <2>2. CASE u # t
    BY <2>1, <2>2, <1>6 DEF ExactlyOnce, HandedInOrder, H
  <2>3. CASE u = t /\ j <= n
    <3>1. i \in 1..n /\ j \in 1..n
      BY <2>1, <2>3, <1>2
    <3>2. H(t)[i] < H(t)[j]
      BY <3>1, <2>1 DEF ExactlyOnce, HandedInOrder, H
    <3>3. QED
      BY <3>1, <3>2, <2>3, <1>5
  <2>4. CASE u = t /\ j = n + 1
    <3>1. i \in 1..n
      BY <2>1, <2>4, <1>2, <1>5
    <3>2. H(t)[i] <= Taken /\ H(t)[i] \in Int
      BY <3>1, <1>7, <1>3
    <3>3. QED
      BY <3>1, <3>2, <2>4, <1>3, <1>5
  <2>5. ASSUME u = t
        PROVE  j <= n \/ j = n + 1
    <3>1. n \in Nat /\ Len(H(u)') = n + 1
      BY <2>5, <1>2, <1>5
    <3>2. QED
      BY <3>1
  <2>6. QED
    BY <2>2, <2>3, <2>4, <2>5
<1>10. HandedTaken'
  <2>1. SUFFICES ASSUME NEW u \in Threads, NEW i \in 1..Len(H(u)')
                 PROVE  H(u)'[i] \in 1..(Taken + 1)
    BY <1>3 DEF HandedTaken, H
  <2>2. CASE u # t
    BY <2>2, <1>3, <1>6, <1>7
  <2>3. CASE u = t /\ i \in 1..n
    BY <2>3, <1>3, <1>5, <1>7
  <2>4. CASE u = t /\ i = n + 1
    <3>1. Taken + 1 >= 1
      BY <1>3 DEF ExactlyOnce, BufferInOrder
    <3>2. QED
      BY <2>4, <3>1, <1>3, <1>5
  <2>5. QED
    BY <2>2, <2>3, <2>4, <1>2, <1>5
<1>11. NoDuplicate'
  <2>1. SUFFICES ASSUME NEW u \in Threads, NEW v \in Threads, u # v,
                        NEW i \in 1..Len(H(u)'), NEW j \in 1..Len(H(v)')
                 PROVE  H(u)'[i] # H(v)'[j]
    BY DEF NoDuplicate, H
  <2>2. ASSUME NEW a \in Threads, NEW b \in Threads, a # b,
               NEW k \in 1..Len(H(a)), NEW l \in 1..Len(H(b))
        PROVE  H(a)[k] # H(b)[l]
    BY <2>2 DEF ExactlyOnce, NoDuplicate, H
  <2>3. CASE u # t /\ v # t
    BY <2>1, <2>2, <2>3, <1>6
  <2>4. CASE u = t /\ i \in 1..n
    BY <2>1, <2>2, <2>4, <1>5, <1>6
  <2>5. CASE v = t /\ j \in 1..n
    BY <2>1, <2>2, <2>5, <1>5, <1>6
  <2>6. CASE u = t /\ i = n + 1
    BY <2>1, <2>6, <1>3, <1>5, <1>6, <1>7
  <2>7. CASE v = t /\ j = n + 1
    BY <2>1, <2>7, <1>3, <1>5, <1>6, <1>7
  <2>8. QED
    BY <2>1, <2>3, <2>4, <2>5, <2>6, <2>7, <1>2, <1>5
<1>12. NoLoss'
  <2>1. SUFFICES ASSUME NEW m \in 1..(Taken + 1)
                 PROVE  \E u \in Threads : \E i \in 1..Len(H(u)') : H(u)'[i] = m
    BY <1>3 DEF NoLoss, H
  <2>2. CASE m = Taken + 1
    <3>1. n + 1 \in 1..Len(H(t)')
      BY <1>2, <1>5
    <3>2. QED
      BY <2>2, <3>1, <1>5
  <2>3. CASE m \in 1..Taken
    <3>1. PICK u \in Threads : \E i \in 1..Len(H(u)) : H(u)[i] = m
      BY <2>3 DEF ExactlyOnce, NoLoss, H
    <3>2. PICK i \in 1..Len(H(u)) : H(u)[i] = m
      BY <3>1
    <3>3. CASE u # t
      BY <3>2, <3>3, <1>6
    <3>4. CASE u = t
      <4>1. i \in 1..Len(H(t)')
        BY <3>4, <1>2, <1>5
      <4>2. QED
        BY <3>2, <3>4, <4>1, <1>5
    <3>5. QED
      BY <3>3, <3>4
  <2>4. QED
    BY <2>1, <2>2, <2>3, <1>3
<1>13. QED
  BY <1>8, <1>9, <1>10, <1>11, <1>12 DEF ExactlyOnce
\* Every step preserves exactly-once delivery.
LEMMA ExactlyStep == TypeOK /\ ExactlyOnce /\ [Next]_vars => ExactlyOnce'
<1> SUFFICES ASSUME TypeOK, ExactlyOnce, [Next]_vars
             PROVE  ExactlyOnce'
  OBVIOUS
<1> DEFINE Frame == /\ arrived' = arrived /\ buffer' = buffer
                    /\ \A u \in Threads : Handed(u)' = Handed(u)
<1>1. CASE Frame
  <2>1. Taken' = Taken /\ BufferInOrder'
    BY <1>1 DEF ExactlyOnce, BufferInOrder, Taken
  <2>2. QED
    BY <1>1, <2>1, HandedFrame DEF ExactlyOnce
<1>2. CASE Deliver
  <2>1. \A u \in Threads : Handed(u)' = Handed(u)
    BY <1>2 DEF Deliver, Handed, histVars, callVars
  <2>2. arrived' = arrived + 1 /\ buffer' = Append(buffer, arrived + 1)
    BY <1>2 DEF Deliver
  <2>3. QED
    BY <2>1, <2>2, ArrivalStep
<1>3. ASSUME NEW t \in Threads, RecvFirst(t) \/ TryRecv(t)
      PROVE  ExactlyOnce'
  <2>1. /\ buffer # << >> /\ buffer' = Tail(buffer)
        /\ arrived' = arrived /\ got' = got
        /\ batch' = [batch EXCEPT ![t] = Append(batch[t], Head(buffer))]
    <3>1. CASE RecvFirst(t)
      <4>1. Append(batch[t], Head(buffer)) = <<Head(buffer)>>
        BY <3>1 DEF RecvFirst, TypeOK
      <4>2. QED
        BY <3>1, <4>1 DEF RecvFirst, histVars
    <3>2. CASE TryRecv(t)
      BY <3>2 DEF TryRecv, histVars
    <3>3. QED
      BY <1>3, <3>1, <3>2
  <2>2. \A u \in Threads \ {t} : Handed(u)' = Handed(u)
    BY <2>1 DEF Handed, TypeOK
  <2>3. Handed(t)' = Append(Handed(t), Head(buffer))
    <3>1. /\ got[t] \in Seq(Nat) /\ batch[t] \in Seq(Nat)
          /\ batch'[t] = Append(batch[t], Head(buffer)) /\ got'[t] = got[t]
      BY <2>1 DEF TypeOK
    <3>2. Head(buffer) \in Nat
      <4>1. buffer \in Seq(Nat) /\ buffer # << >>
        BY <2>1 DEF TypeOK
      <4>2. QED
        BY ONLY <4>1, HeadTail
    <3>3. got[t] \o Append(batch[t], Head(buffer)) = Append(got[t] \o batch[t], Head(buffer))
      BY ONLY <3>1, <3>2, AppendWhole
    <3>4. QED
      BY <3>1, <3>3 DEF Handed
  <2>4. QED
    BY <2>1, <2>2, <2>3, HandOutStep
<1>4. ASSUME NEW t \in Threads, Return(t)
      PROVE  ExactlyOnce'
  <2>1. /\ arrived' = arrived /\ buffer' = buffer
        /\ got' = [got EXCEPT ![t] = got[t] \o batch[t]]
        /\ batch' = [batch EXCEPT ![t] = << >>]
    BY <1>4 DEF Return, sdkVars
  <2>2. \A p \in Seq(Nat) : p \o << >> = p
    OBVIOUS
  <2>3. ASSUME NEW u \in Threads
        PROVE  Handed(u)' = Handed(u)
    <3>1. CASE u # t
      BY <2>1, <3>1 DEF Handed, TypeOK
    <3>2. CASE u = t
      <4>1. got'[t] = got[t] \o batch[t] /\ batch'[t] = << >>
        BY <2>1 DEF TypeOK
      <4>2. got[t] \o batch[t] \in Seq(Nat)
        BY DEF TypeOK
      <4>3. QED
        BY <4>1, <4>2, <2>2, <3>2 DEF Handed
    <3>3. QED
      BY <3>1, <3>2
  <2>4. QED
    BY <2>1, <2>3, <1>1
<1>5. ASSUME NEW t \in Threads, NEW o \in AllOps, NEW n \in 1..BatchCap, Enter(t, o, n)
      PROVE  Frame
  BY <1>5 DEF Enter, Handed, sdkVars, histVars
<1>6. ASSUME NEW t \in Threads, Lock(t) \/ Finishes(t)
      PROVE  Frame
  BY <1>6, FinishesFinish DEF Lock, Handed, sdkVars, histVars
<1>7. ASSUME End \/ Transmit \/ Close \/ UNCHANGED vars
      PROVE  Frame
  BY <1>7 DEF Handed, End, Transmit, Close, vars, sdkVars, callVars, histVars
<1>8. QED
  BY <1>1, <1>2, <1>3, <1>4, <1>5, <1>6, <1>7, NextCases

\* Whatever number of threads share a handle, however their recv and
\* recv_batch calls interleave: every message that left the SDK's buffer went
\* to exactly one of them, and each saw its messages in order.
THEOREM ExactlyOnceCorrect == Spec => []ExactlyOnce
<1>1. Init => ExactlyOnce
  <2> SUFFICES ASSUME Init PROVE ExactlyOnce
    OBVIOUS
  <2>1. Len(buffer) = 0 /\ arrived = 0
    BY DEF Init
  <2>2. \A u \in Threads : Handed(u) = << >> /\ Len(Handed(u)) = 0
    BY DEF Init, Handed
  <2>3. Taken = 0
    BY <2>1 DEF Taken
  <2>4. QED
    BY <2>1, <2>2, <2>3 DEF ExactlyOnce, BufferInOrder, HandedInOrder, HandedTaken,
                      NoDuplicate, NoLoss
<1>2. QED
  BY <1>1, TypeCorrect, ExactlyStep, PTL DEF Spec
-----------------------------------------------------------------------------
(***************************************************************************)
(* Batches and the end of the stream.  The two invariants need each other  *)
(* and the lock: a call that finds the slot empty has taken nothing,       *)
(* because whoever emptied it held the guard and saw an empty buffer.      *)
(***************************************************************************)

\* What BatchBounded says of one thread.
BatchOf(t) ==
    /\ Len(batch[t]) <= limit[t]
    /\ pc[t] \in {"idle", "wait"} \/ op[t] # "recv" => batch[t] = << >>
    /\ pc[t] = "ret" /\ op[t] = "recv" => (ret[t] = 0 <=> batch[t] # << >>)

\* A step disturbs only the calls whose state it changes.
LEMMA BatchFrame ==
    ASSUME NEW t \in Threads, TypeOK, BatchBounded, BatchOf(t)',
           \A u \in Threads \ {t} : UNCHANGED <<batch[u], limit[u], pc[u], op[u], ret[u]>>
    PROVE  BatchBounded'
BY DEF BatchBounded, BatchOf

\* Every step preserves the two invariants together.
LEMMA CallStep ==
    TypeOK /\ LockInv /\ BatchBounded /\ EndIsFinal /\ [Next]_vars
        => BatchBounded' /\ EndIsFinal'
<1> SUFFICES ASSUME TypeOK, LockInv, BatchBounded, EndIsFinal, [Next]_vars
             PROVE  BatchBounded' /\ EndIsFinal'
  OBVIOUS
<1> USE DEF sdkVars, lockVars, callVars, histVars
<1>1. ASSUME UNCHANGED callVars
      PROVE  BatchBounded'
  BY <1>1 DEF BatchBounded
<1>2. CASE Deliver
  <2>1. slot = "some" \/ slot = "none"
    BY DEF TypeOK
  <2>2. EndIsFinal'
    BY <1>2, <2>1 DEF Deliver, EndIsFinal
  <2>3. QED
    BY <1>1, <1>2, <2>2 DEF Deliver
<1>3. CASE End
  BY <1>1, <1>3 DEF End, EndIsFinal
<1>4. CASE Transmit \/ Close \/ UNCHANGED vars
  BY <1>1, <1>4 DEF Transmit, Close, EndIsFinal, vars
<1>5. ASSUME NEW t \in Threads, NEW o \in AllOps, NEW n \in 1..BatchCap, Enter(t, o, n)
      PROVE  BatchBounded' /\ EndIsFinal'
  <2>1. /\ pc[t] = "idle" /\ pc' = [pc EXCEPT ![t] = "wait"]
        /\ op' = [op EXCEPT ![t] = o] /\ limit' = [limit EXCEPT ![t] = n]
        /\ UNCHANGED <<slot, ended, buffer, batch, ret, eof>>
    BY <1>5 DEF Enter
  <2>2. batch[t] = << >>
    BY <2>1 DEF BatchBounded
  <2>3. BatchOf(t)'
    BY <2>1, <2>2 DEF BatchOf, TypeOK
  <2>4. \A u \in Threads \ {t} : UNCHANGED <<batch[u], limit[u], pc[u], op[u], ret[u]>>
    BY <2>1 DEF TypeOK
  <2>5. EndIsFinal'
    BY <2>1 DEF EndIsFinal, TypeOK
  <2>6. QED
    BY <2>3, <2>4, <2>5, BatchFrame
<1>6. ASSUME NEW t \in Threads, Lock(t)
      PROVE  BatchBounded' /\ EndIsFinal'
  <2>1. /\ pc[t] = "wait" /\ pc' = [pc EXCEPT ![t] = "held"]
        /\ UNCHANGED <<slot, ended, buffer, op, limit, batch, ret, eof>>
    BY <1>6 DEF Lock
  <2>2. batch[t] = << >>
    BY <2>1 DEF BatchBounded
  <2>3. BatchBounded'
    BY <2>1, <2>2 DEF BatchBounded, TypeOK
  <2>4. EndIsFinal'
    BY <2>1, <2>2 DEF EndIsFinal, TypeOK
  <2>5. QED
    BY <2>3, <2>4
<1>7. ASSUME NEW t \in Threads, RecvFirst(t) \/ TryRecv(t)
      PROVE  BatchBounded' /\ EndIsFinal'
  <2>1. /\ pc[t] = "held" /\ op[t] = "recv" /\ buffer # << >>
        /\ UNCHANGED <<slot, ended, pc, op, limit, ret, eof>>
        /\ \E s \in Seq(Nat) :
              /\ batch' = [batch EXCEPT ![t] = s]
              /\ Len(s) <= limit[t]
    <3>1. Head(buffer) \in Nat /\ <<Head(buffer)>> \in Seq(Nat)
      <4>1. buffer # << >>
        BY <1>7 DEF RecvFirst, TryRecv
      <4>2. Head(buffer) \in Nat
        BY <4>1 DEF TypeOK
      <4>3. QED
        BY <4>2
    <3>2. Len(<<Head(buffer)>>) = 1 /\ 1 <= limit[t]
      BY DEF TypeOK
    <3>3. Append(batch[t], Head(buffer)) \in Seq(Nat)
      BY <3>1 DEF TypeOK
    <3>4. CASE RecvFirst(t)
      BY <3>1, <3>2, <3>4 DEF RecvFirst, Holding, RecvOps
    <3>5. CASE TryRecv(t)
      <4>1. Len(Append(batch[t], Head(buffer))) <= limit[t]
        BY <3>1, <3>5 DEF TryRecv, TypeOK
      <4>2. QED
        BY <3>3, <3>5, <4>1 DEF TryRecv, Holding, RecvOps
    <3>6. QED
      BY <1>7, <3>4, <3>5
  <2>2. slot = "some"
    BY <2>1 DEF EndIsFinal, TypeOK
  <2>3. BatchBounded'
    <3>1. BatchOf(t)'
      BY <2>1 DEF BatchOf, TypeOK
    <3>2. \A u \in Threads \ {t} : UNCHANGED <<batch[u], limit[u], pc[u], op[u], ret[u]>>
      BY <2>1 DEF TypeOK
    <3>3. QED
      BY <3>1, <3>2, BatchFrame
  <2>4. EndIsFinal'
    BY <2>1, <2>2 DEF EndIsFinal
  <2>5. QED
    BY <2>3, <2>4
<1>8. ASSUME NEW t \in Threads, Finishes(t)
      PROVE  BatchBounded' /\ EndIsFinal'
  <2>1. PICK r : Finish(t, r)
    BY <1>8, FinishesFinish
  <2>2. /\ pc[t] = "held" /\ pc' = [pc EXCEPT ![t] = "ret"]
        /\ ret' = [ret EXCEPT ![t] = r]
        /\ UNCHANGED <<op, limit, batch, buffer>>
    BY <1>8, <2>1, FinishesFinish DEF Finish
  <2>3. ended' = ended
    BY <1>8 DEF Finishes, RecvOnNone, RecvEnd, BatchDone, PublishOk, PublishFull,
                PublishError, NotConnected, Query
  <2>4. \A u \in Threads \ {t} : pc[u] # "held" /\ pc'[u] = pc[u]
    BY <2>2 DEF LockInv, TypeOK
  <2>5. pc'[t] = "ret" /\ ret'[t] = r
    BY <2>2 DEF TypeOK
  <2>6. EndIsFinal'
    <3>1. CASE UNCHANGED <<slot, eof>>
      BY <2>2, <2>3, <2>4, <2>5, <3>1 DEF EndIsFinal, TypeOK
    <3>2. CASE slot' = "none" /\ ended /\ buffer = << >>
      BY <2>2, <2>3, <2>4, <2>5, <3>2 DEF EndIsFinal
    <3>3. CASE RecvOnNone(t)
      BY <3>2, <3>3 DEF RecvOnNone, EndIsFinal
    <3>4. CASE RecvEnd(t)
      BY <3>2, <3>4 DEF RecvEnd
    <3>5. CASE Finishes(t) /\ ~RecvOnNone(t) /\ ~RecvEnd(t)
      BY <3>1, <3>5 DEF Finishes, BatchDone, PublishOk, PublishFull, PublishError,
                        NotConnected, Query
    <3>6. QED
      BY <1>8, <3>3, <3>4, <3>5
  <2>7. op[t] = "recv" => (r = 0 <=> batch[t] # << >>)
    <3>1. CASE RecvOnNone(t)
      <4>1. ret' = [ret EXCEPT ![t] = 1] /\ batch[t] = << >>
        BY <2>2, <3>1 DEF RecvOnNone, Finish, EndIsFinal
      <4>2. QED
        BY <2>5, <4>1 DEF TypeOK
    <3>2. CASE RecvEnd(t)
      <4>1. ret' = [ret EXCEPT ![t] = 1] /\ batch[t] = << >>
        BY <3>2 DEF RecvEnd, Finish
      <4>2. QED
        BY <2>5, <4>1 DEF TypeOK
    <3>3. CASE BatchDone(t)
      <4>1. ret' = [ret EXCEPT ![t] = 0] /\ batch[t] # << >>
        BY <3>3 DEF BatchDone, Finish
      <4>2. QED
        BY <2>5, <4>1 DEF TypeOK
    <3>4. CASE PublishOk(t) \/ PublishFull(t) \/ PublishError(t) \/ NotConnected(t)
               \/ Query(t)
      BY <3>4 DEF PublishOk, PublishFull, PublishError, NotConnected, Query, Holding,
                  PublishOps
    <3>5. QED
      BY <1>8, <3>1, <3>2, <3>3, <3>4 DEF Finishes
  <2>8. BatchOf(t)'
    BY <2>2, <2>5, <2>7 DEF BatchOf, BatchBounded
  <2>9. \A u \in Threads \ {t} : UNCHANGED <<batch[u], limit[u], pc[u], op[u], ret[u]>>
    BY <2>2 DEF TypeOK
  <2>10. QED
    BY <2>6, <2>8, <2>9, BatchFrame
<1>9. ASSUME NEW t \in Threads, Return(t)
      PROVE  BatchBounded' /\ EndIsFinal'
  <2>1. /\ pc' = [pc EXCEPT ![t] = "idle"] /\ op' = [op EXCEPT ![t] = "recv"]
        /\ limit' = [limit EXCEPT ![t] = 1] /\ batch' = [batch EXCEPT ![t] = << >>]
        /\ ret' = [ret EXCEPT ![t] = 0]
        /\ UNCHANGED <<slot, ended, buffer, eof>>
    BY <1>9 DEF Return
  <2>2. BatchOf(t)'
    BY <2>1 DEF BatchOf, TypeOK
  <2>3. \A u \in Threads \ {t} : UNCHANGED <<batch[u], limit[u], pc[u], op[u], ret[u]>>
    BY <2>1 DEF TypeOK
  <2>4. EndIsFinal'
    BY <2>1 DEF EndIsFinal, TypeOK
  <2>5. QED
    BY <2>2, <2>3, <2>4, BatchFrame
<1>10. QED
  BY <1>2, <1>3, <1>4, <1>5, <1>6, <1>7, <1>8, <1>9, NextCases

\* Both invariants hold in every reachable state.
LEMMA CallsCorrect == Spec => [](BatchBounded /\ EndIsFinal)
<1>1. Init => BatchBounded /\ EndIsFinal
  BY DEF Init, BatchBounded, EndIsFinal
<1>2. QED
  BY <1>1, TypeCorrect, LockCorrect, CallStep, PTL DEF Spec

\* recv_batch never hands out more than BATCH_CAP or max_count messages and
\* never reports success with none, for any batch capacity and any argument.
THEOREM BatchCorrect == Spec => []BatchBounded
BY CallsCorrect, PTL

\* The slot is emptied, and "closed" reported, only when the stream has ended
\* and nothing is left in the buffer, for any number of threads.
THEOREM EndCorrect == Spec => []EndIsFinal
BY CallsCorrect, PTL
-----------------------------------------------------------------------------
(***************************************************************************)
(* Refinement of Inbox.  A batch in the making still counts as queued, so  *)
(* the steps that assemble it are stutters and BatchDone takes it at once. *)
(***************************************************************************)

\* Moving the head of the buffer to the end of the batch leaves their
\* concatenation alone.
LEMMA MoveHead ==
    ASSUME NEW b \in Seq(Nat), NEW q \in Seq(Nat), q # << >>
    PROVE  Append(b, Head(q)) \o Tail(q) = b \o q
<1> DEFINE l == Append(b, Head(q)) \o Tail(q)
           r == b \o q
<1>1. Head(q) \in Nat /\ Tail(q) \in Seq(Nat) /\ Len(q) \in Nat \ {0} /\ Len(b) \in Nat
  OBVIOUS
<1>2. Len(Tail(q)) = Len(q) - 1 /\ \A i \in 1..(Len(q) - 1) : Tail(q)[i] = q[i + 1]
  OBVIOUS
<1>3. /\ Append(b, Head(q)) \in Seq(Nat)
      /\ Len(Append(b, Head(q))) = Len(b) + 1
      /\ Append(b, Head(q))[Len(b) + 1] = q[1]
      /\ \A i \in 1..Len(b) : Append(b, Head(q))[i] = b[i]
  BY <1>1
<1>4. l \in Seq(Nat) /\ r \in Seq(Nat) /\ Len(l) = Len(b) + Len(q) /\ Len(r) = Len(b) + Len(q)
  BY <1>1, <1>2, <1>3
<1>5. ASSUME NEW i \in 1..(Len(b) + Len(q))
      PROVE  l[i] = r[i]
  <2>1. CASE i <= Len(b)
    BY <2>1, <1>1, <1>2, <1>3
  <2>2. CASE i = Len(b) + 1
    BY <2>2, <1>1, <1>2, <1>3
  <2>3. CASE i > Len(b) + 1
    BY <2>3, <1>1, <1>2, <1>3
  <2>4. QED
    BY <2>1, <2>2, <2>3, <1>1
<1>6. QED
  BY <1>4, <1>5

\* Cutting a concatenation where it was made gives back its two parts.
LEMMA CutConcat ==
    ASSUME NEW b \in Seq(Nat), NEW q \in Seq(Nat)
    PROVE  /\ SubSeq(b \o q, 1, Len(b)) = b
           /\ SubSeq(b \o q, Len(b) + 1, Len(b \o q)) = q
           /\ Len(b) <= Len(b \o q)
<1>1. Len(b) \in Nat /\ Len(q) \in Nat /\ b \o q \in Seq(Nat) /\ Len(b \o q) = Len(b) + Len(q)
  OBVIOUS
<1>2. SubSeq(b \o q, 1, Len(b)) = b
  BY <1>1
<1>3. SubSeq(b \o q, Len(b) + 1, Len(b \o q)) = q
  BY <1>1
<1>4. QED
  BY <1>1, <1>2, <1>3

\* The two mapped variables that are not plain ones.
MappedQueue == Taking \o buffer
MappedGot == [t \in Threads |-> IF pc[t] = "ret" THEN got[t] \o batch[t] ELSE got[t]]

\* The invariant the refinement needs.
RefineInv == TypeOK /\ LockInv /\ BatchBounded /\ EndIsFinal

\* A step that leaves the mapped variables alone is a stutter of Inbox.
LEMMA StutterStep ==
    ASSUME UNCHANGED <<MappedQueue, arrived, ended, MappedGot, eof>>
    PROVE  UNCHANGED Promise!vars
BY DEF Promise!vars, MappedQueue, MappedGot

\* A batch in the making belongs to the thread that holds the guard.
LEMMA TakingIs ==
    ASSUME RefineInv
    PROVE  /\ Taking \in Seq(Nat)
           /\ holder = NoThread => Taking = << >>
           /\ \A t \in Threads : holder = t => Taking = batch[t]
BY ReceiverAssumption DEF RefineInv, TypeOK, Taking

\* Every step of Receiver is a step of Inbox or a stutter.
LEMMA RefineStep ==
    RefineInv /\ [Next]_vars => [Promise!Next]_(Promise!vars)
<1> SUFFICES ASSUME RefineInv, [Next]_vars
             PROVE  Promise!Next \/ UNCHANGED Promise!vars
  OBVIOUS
<1> USE ReceiverAssumption DEF sdkVars, lockVars, callVars, histVars
<1>1. TypeOK /\ LockInv /\ BatchBounded /\ EndIsFinal
  BY DEF RefineInv
<1>2. \A q \in Seq(Nat) : << >> \o q = q /\ q \o << >> = q
  OBVIOUS
<1>3. CASE Deliver
  <2>1. /\ ~ended /\ arrived' = arrived + 1 /\ buffer' = Append(buffer, arrived + 1)
        /\ UNCHANGED <<ended, holder, batch, pc, got, eof>>
    BY <1>3 DEF Deliver
  <2>2. Taking' = Taking /\ MappedGot' = MappedGot
    BY <2>1 DEF Taking, MappedGot
  <2>3. \A m \in Nat, p, q \in Seq(Nat) : p \o Append(q, m) = Append(p \o q, m)
    BY AppendWhole
  <2>4. MappedQueue' = Append(MappedQueue, arrived + 1)
    <3>1. Taking \in Seq(Nat) /\ buffer \in Seq(Nat) /\ arrived + 1 \in Nat
      BY <1>1, TakingIs DEF TypeOK
    <3>2. QED
      BY <2>1, <2>2, <2>3, <3>1 DEF MappedQueue
  <2>5. Promise!Send
    BY <2>1, <2>2, <2>4 DEF Promise!Send, MappedQueue, MappedGot
  <2>6. QED
    BY <2>5 DEF Promise!Next
<1>4. CASE End
  <2>1. /\ ~ended /\ ended' /\ UNCHANGED <<buffer, arrived, holder, batch, pc, got, eof>>
    BY <1>4 DEF End
  <2>2. MappedQueue' = MappedQueue /\ MappedGot' = MappedGot
    BY <2>1 DEF MappedQueue, Taking, MappedGot
  <2>3. Promise!Shut
    BY <2>1, <2>2 DEF Promise!Shut, MappedQueue, MappedGot
  <2>4. QED
    BY <2>3 DEF Promise!Next
<1>5. CASE Transmit \/ Close \/ UNCHANGED vars
  <2>1. UNCHANGED <<ended, buffer, arrived, holder, batch, pc, got, eof>>
    BY <1>5 DEF Transmit, Close, vars
  <2>2. MappedQueue' = MappedQueue /\ MappedGot' = MappedGot
    BY <2>1 DEF MappedQueue, Taking, MappedGot
  <2>3. QED
    BY <2>1, <2>2, StutterStep
<1>6. ASSUME NEW t \in Threads, NEW o \in AllOps, NEW n \in 1..BatchCap, Enter(t, o, n)
      PROVE  UNCHANGED Promise!vars
  <2>1. /\ pc[t] = "idle" /\ pc' = [pc EXCEPT ![t] = "wait"]
        /\ UNCHANGED <<ended, buffer, arrived, holder, batch, got, eof>>
    BY <1>6 DEF Enter
  <2>2. MappedQueue' = MappedQueue
    BY <2>1 DEF MappedQueue, Taking
  <2>3. MappedGot' = MappedGot
    BY <2>1, <1>1 DEF MappedGot, TypeOK
  <2>4. QED
    BY <2>1, <2>2, <2>3, StutterStep
<1>7. ASSUME NEW t \in Threads, Lock(t)
      PROVE  UNCHANGED Promise!vars
  <2>1. /\ pc[t] = "wait" /\ pc' = [pc EXCEPT ![t] = "held"]
        /\ holder = NoThread /\ holder' = t
        /\ UNCHANGED <<ended, buffer, arrived, batch, got, eof>>
    BY <1>7 DEF Lock
  <2>2. Taking = << >> /\ Taking' = << >>
    BY <2>1, <1>1 DEF Taking, BatchBounded
  <2>3. MappedGot' = MappedGot
    BY <2>1, <1>1 DEF MappedGot, TypeOK
  <2>4. QED
    BY <2>1, <2>2, <2>3, StutterStep DEF MappedQueue
<1>8. ASSUME NEW t \in Threads, RecvFirst(t) \/ TryRecv(t)
      PROVE  UNCHANGED Promise!vars
  <2>1. /\ pc[t] = "held" /\ buffer # << >> /\ buffer' = Tail(buffer)
        /\ batch' = [batch EXCEPT ![t] = Append(batch[t], Head(buffer))]
        /\ UNCHANGED <<ended, arrived, holder, pc, got, eof>>
    <3>1. CASE RecvFirst(t)
      <4>1. Append(batch[t], Head(buffer)) = <<Head(buffer)>>
        BY <3>1, <1>1 DEF RecvFirst, TypeOK
      <4>2. QED
        BY <3>1, <4>1 DEF RecvFirst, Holding
    <3>2. CASE TryRecv(t)
      BY <3>2 DEF TryRecv, Holding
    <3>3. QED
      BY <1>8, <3>1, <3>2
  <2>2. holder = t /\ holder' = t
    BY <2>1, <1>1 DEF LockInv
  <2>3. Taking = batch[t] /\ Taking' = Append(batch[t], Head(buffer))
    BY <2>1, <2>2, <1>1 DEF Taking, TypeOK
  <2>4. MappedQueue' = MappedQueue
    BY <2>1, <2>3, <1>1, MoveHead DEF MappedQueue, TypeOK
  <2>5. MappedGot' = MappedGot
    <3>1. ASSUME NEW u \in Threads, pc[u] = "ret"
          PROVE  batch'[u] = batch[u]
      BY <3>1, <2>1, <1>1 DEF TypeOK
    <3>2. QED
      BY <2>1, <3>1 DEF MappedGot
  <2>6. QED
    BY <2>1, <2>4, <2>5, StutterStep
<1>9. ASSUME NEW t \in Threads, Finishes(t)
      PROVE  Promise!Next \/ UNCHANGED Promise!vars
  <2>1. /\ pc[t] = "held" /\ pc' = [pc EXCEPT ![t] = "ret"] /\ holder' = NoThread
        /\ UNCHANGED <<batch, got, buffer, arrived>>
    BY <1>9, FinishesFinish DEF Finish
  <2>2. ended' = ended
    BY <1>9 DEF Finishes, RecvOnNone, RecvEnd, BatchDone, PublishOk, PublishFull,
                PublishError, NotConnected, Query
  <2>3. Taking = batch[t] /\ Taking' = << >>
    BY <2>1, <1>1 DEF Taking, LockInv
  <2>4. MappedGot' = [MappedGot EXCEPT ![t] = @ \o batch[t]]
    BY <2>1, <1>1 DEF MappedGot, TypeOK
  <2>5. CASE batch[t] = << >>
    <3>1. MappedQueue' = MappedQueue
      BY <2>1, <2>3, <2>5 DEF MappedQueue
    <3>2. MappedGot' = MappedGot
      <4>1. got[t] \in Seq(Nat) /\ MappedGot[t] = got[t]
        BY <2>1, <1>1 DEF MappedGot, TypeOK
      <4>2. MappedGot[t] \o batch[t] = MappedGot[t]
        BY <4>1, <2>5
      <4>3. QED
        BY <2>4, <4>2 DEF MappedGot
    <3>3. CASE eof' = eof
      BY <2>1, <2>2, <3>1, <3>2, <3>3, StutterStep
    <3>4. CASE RecvOnNone(t) \/ RecvEnd(t)
      <4>1. ended /\ buffer = << >> /\ eof' = eof \cup {t}
        BY <3>4, <1>1 DEF RecvOnNone, RecvEnd, EndIsFinal
      <4>2. MappedQueue = << >>
        BY <4>1, <2>3, <2>5, <1>2 DEF MappedQueue
      <4>3. Promise!TellClosed(t)
        BY <2>1, <2>2, <3>1, <3>2, <4>1, <4>2
           DEF Promise!TellClosed, MappedQueue, MappedGot
      <4>4. QED
        BY <4>3 DEF Promise!Next
    <3>5. QED
      BY <1>9, <3>3, <3>4 DEF Finishes, BatchDone, PublishOk, PublishFull, PublishError,
                              NotConnected, Query
  <2>6. CASE batch[t] # << >>
    <3> DEFINE n == Len(batch[t])
    <3>1. op[t] = "recv" /\ slot = "some"
      BY <2>1, <2>6, <1>1 DEF BatchBounded, EndIsFinal, TypeOK
    <3>2. BatchDone(t)
      BY <1>9, <3>1, <2>6 DEF Finishes, RecvOnNone, RecvEnd, PublishOk, PublishFull,
                 PublishError, NotConnected, Query, Holding, PublishOps
    <3>3. eof' = eof
      BY <3>2 DEF BatchDone
    <3>4. n \in 1..BatchCap
      BY <2>6, <1>1 DEF BatchBounded, TypeOK
    <3>5. /\ MappedQueue = batch[t] \o buffer /\ MappedQueue' = buffer
          /\ batch[t] \in Seq(Nat) /\ buffer \in Seq(Nat)
      BY <2>1, <2>3, <1>1, <1>2 DEF MappedQueue, TypeOK
    <3>6. /\ n <= Len(MappedQueue)
          /\ SubSeq(MappedQueue, 1, n) = batch[t]
          /\ SubSeq(MappedQueue, n + 1, Len(MappedQueue)) = MappedQueue'
      BY <3>5, CutConcat
    <3>7. Promise!Take(t, n)
      BY <2>1, <2>2, <2>4, <3>3, <3>6 DEF Promise!Take, MappedQueue, MappedGot
    <3> HIDE DEF n
    <3>8. \E m \in 1..BatchCap : Promise!Take(t, m)
      BY <3>4, <3>7 DEF Promise!Take
    <3>9. QED
      BY <3>8 DEF Promise!Next
  <2>7. QED
    BY <2>5, <2>6
<1>10. ASSUME NEW t \in Threads, Return(t)
       PROVE  UNCHANGED Promise!vars
  <2>1. /\ pc[t] = "ret" /\ pc' = [pc EXCEPT ![t] = "idle"]
        /\ got' = [got EXCEPT ![t] = got[t] \o batch[t]]
        /\ batch' = [batch EXCEPT ![t] = << >>]
        /\ UNCHANGED <<ended, buffer, arrived, holder, eof>>
    BY <1>10 DEF Return
  <2>2. holder # t
    BY <2>1, <1>1 DEF LockInv
  <2>3. MappedQueue' = MappedQueue
    BY <2>1, <2>2, <1>1 DEF MappedQueue, Taking, TypeOK
  <2>4. MappedGot' = MappedGot
    BY <2>1, <1>1 DEF MappedGot, TypeOK
  <2>5. QED
    BY <2>1, <2>3, <2>4, StutterStep
<1>11. QED
  BY <1>3, <1>4, <1>5, <1>6, <1>7, <1>8, <1>9, <1>10, NextCases

\* recv and recv_batch, for any number of threads and any batch capacity,
\* behave as if every call took its whole batch at one instant.
THEOREM ReceiverRefinesInbox == Spec => RefinesInbox
<1>1. Init => Promise!Init
  <2> SUFFICES ASSUME Init PROVE Promise!Init
    OBVIOUS
  <2>1. Taking \o buffer = << >>
    BY DEF Init, Taking
  <2>2. QED
    BY <2>1 DEF Init, Promise!Init
<1>2. Spec => []RefineInv
  BY TypeCorrect, LockCorrect, CallsCorrect, PTL DEF RefineInv
<1>3. QED
  BY <1>1, <1>2, RefineStep, PTL DEF Spec, RefinesInbox, Promise!Spec
=============================================================================
