------------------------------ MODULE Receiver ------------------------------
(***************************************************************************)
(* One receiving handle of the C ABI, shared by several calling threads.   *)
(*                                                                         *)
(* Behind the handle is an Arc<Mutex<Option<T>>>, T being a Subscription,  *)
(* a GroupSubscription or a StreamHandle of the SDK.  Every entry point    *)
(* borrows the Arc, runs one async block with block_on that first awaits   *)
(* the tokio mutex and keeps the guard across every later await of the     *)
(* block, drops the guard and returns.  The mutex is fair: waiters get it  *)
(* in the order in which they asked.                                       *)
(*                                                                         *)
(* The SDK behind T is external: it appends messages to the receiver's     *)
(* buffer, may end the stream of messages, and sends what was published.   *)
(* A message is its arrival number.                                        *)
(***************************************************************************)
EXTENDS Integers, Sequences

CONSTANTS Threads,    \* threads that call the C ABI with this handle
          NoThread,   \* the mutex is free
          Kinds,      \* the kinds of handle to consider, a subset of AllKinds
          MaxCounts,  \* the max_count arguments passed to recv_batch (i32)
          BatchCap,   \* BATCH_CAP, 256 in the source
          UsizeMod,   \* 2^w for a usize of w bits
          MaxMsgs,    \* bound: messages the SDK delivers
          SendCap,    \* bound: messages the SDK buffers for sending
          StreamId    \* the QUIC stream id of the stream

AllKinds == {"sub", "group", "stream"}

ASSUME ReceiverAssumption ==
    /\ NoThread \notin Threads
    /\ Kinds \subseteq AllKinds
    /\ BatchCap \in Nat \ {0}
    /\ UsizeMod \in Nat /\ UsizeMod > BatchCap
    /\ MaxCounts \subseteq Int
    /\ \A n \in MaxCounts : n < UsizeMod /\ n + UsizeMod > BatchCap
    /\ MaxMsgs \in Nat
    /\ SendCap \in Nat \ {0}
    /\ StreamId \in Nat

VARIABLES
    kind,      \* the type T the handle was made for
    alive,     \* the Arc behind the handle has not been reclaimed
    slot,      \* the Option in the mutex: "some" or "none"
    ended,     \* SDK: no further message will arrive
    buffer,    \* SDK: messages that have arrived and were not received
    arrived,   \* SDK: how many messages have arrived
    pending,   \* SDK: published messages the transport has not sent
    holder,    \* the thread that holds the mutex guard
    waitq,     \* threads queued on the mutex, first come first served
    pc,        \* pc[t]: where thread t is in its call
    op,        \* op[t]: which kind of call it is
    limit,     \* limit[t]: the most messages the call may take
    batch,     \* batch[t]: the messages the call has taken so far
    ret,       \* ret[t]: the value the call is about to return
    got,       \* history: got[t], the messages handed to thread t
    eof        \* history: the threads that were told "closed"

sdkVars  == <<ended, buffer, arrived, pending>>
lockVars == <<holder, waitq>>
callVars == <<pc, op, limit, batch, ret>>
histVars == <<got, eof>>
vars == <<kind, alive, slot, sdkVars, lockVars, callVars, histVars>>

RecvOps == {"recv"}
PublishOps == {"publish", "try_publish"}
AllOps == RecvOps \cup PublishOps \cup {"stream_id", "pending_bytes"}

-----------------------------------------------------------------------------
(***************************************************************************)
(* Numeric conversions of recv_batch.                                      *)
(***************************************************************************)

\* max_count as usize: a negative i32 becomes a very large usize.
AsUsize(i) == IF i < 0 THEN i + UsizeMod ELSE i

\* Mutant of BatchLimit: without the final .max(1).
BatchLimitNoFloor(n) == IF AsUsize(n) < BatchCap THEN AsUsize(n) ELSE BatchCap

\* (max_count as usize).min(BATCH_CAP).max(1)
BatchLimit(n) ==
    LET capped == IF AsUsize(n) < BatchCap THEN AsUsize(n) ELSE BatchCap
    IN  IF capped > 1 THEN capped ELSE 1

-----------------------------------------------------------------------------
Init ==
    /\ kind \in Kinds
    /\ alive = TRUE
    /\ slot = "some"
    /\ ended = FALSE
    /\ buffer = << >>
    /\ arrived = 0
    /\ pending = 0
    /\ holder = NoThread
    /\ waitq = << >>
    /\ pc = [t \in Threads |-> "idle"]
    /\ op = [t \in Threads |-> "recv"]
    /\ limit = [t \in Threads |-> 1]
    /\ batch = [t \in Threads |-> << >>]
    /\ ret = [t \in Threads |-> 0]
    /\ got = [t \in Threads |-> << >>]
    /\ eof = {}

(***************************************************************************)
(* The SDK (external).                                                     *)
(***************************************************************************)

\* A message of this subscription or stream arrives.
Deliver ==
    /\ alive /\ ~ended
    /\ arrived < MaxMsgs
    /\ arrived' = arrived + 1
    /\ buffer' = Append(buffer, arrived + 1)
    /\ UNCHANGED <<kind, alive, slot, ended, pending, lockVars, callVars, histVars>>

\* The client was closed, the pattern unsubscribed or the connection lost.
End ==
    /\ alive /\ ~ended
    /\ ended' = TRUE
    /\ UNCHANGED <<kind, alive, slot, buffer, arrived, pending, lockVars, callVars,
                   histVars>>

\* The transport sends one published message.
Transmit ==
    /\ pending > 0
    /\ pending' = pending - 1
    /\ UNCHANGED <<kind, alive, slot, ended, buffer, arrived, lockVars, callVars,
                   histVars>>

-----------------------------------------------------------------------------
(***************************************************************************)
(* Entry points.  Each enters block_on and queues on inner.lock().         *)
(***************************************************************************)
Enter(t, o, n) ==
    /\ alive
    /\ pc[t] = "idle"
    /\ pc' = [pc EXCEPT ![t] = "wait"]
    /\ op' = [op EXCEPT ![t] = o]
    /\ limit' = [limit EXCEPT ![t] = n]
    /\ waitq' = Append(waitq, t)
    /\ UNCHANGED <<kind, alive, slot, sdkVars, holder, batch, ret, histVars>>

vireon_sub_recv(t) == kind = "sub" /\ Enter(t, "recv", 1)
vireon_group_sub_recv(t) == kind = "group" /\ Enter(t, "recv", 1)
vireon_stream_recv(t) == kind = "stream" /\ Enter(t, "recv", 1)

vireon_sub_recv_batch(t, n) == kind = "sub" /\ Enter(t, "recv", BatchLimit(n))
vireon_group_sub_recv_batch(t, n) == kind = "group" /\ Enter(t, "recv", BatchLimit(n))
vireon_stream_recv_batch(t, n) == kind = "stream" /\ Enter(t, "recv", BatchLimit(n))

vireon_stream_publish(t) == kind = "stream" /\ Enter(t, "publish", 1)
vireon_stream_try_publish(t) == kind = "stream" /\ Enter(t, "try_publish", 1)
vireon_stream_id(t) == kind = "stream" /\ Enter(t, "stream_id", 1)
vireon_stream_pending_bytes(t) == kind = "stream" /\ Enter(t, "pending_bytes", 1)

\* reclaim_handle drops the Arc.  Its safety contract, which the caller has
\* to keep: the handle is not yet reclaimed and no call is using it.
Close ==
    /\ alive
    /\ \A t \in Threads : pc[t] = "idle"
    /\ alive' = FALSE
    /\ UNCHANGED <<kind, slot, sdkVars, lockVars, callVars, histVars>>

vireon_sub_close == kind = "sub" /\ Close
vireon_group_sub_close == kind = "group" /\ Close
vireon_stream_close == kind = "stream" /\ Close

-----------------------------------------------------------------------------
(***************************************************************************)
(* The async block.                                                        *)
(***************************************************************************)

\* Mutant of Lock: the guard is handed out without waiting for the holder.
LockBarging(t) ==
    /\ pc[t] = "wait"
    /\ waitq # << >> /\ Head(waitq) = t
    /\ holder' = t
    /\ waitq' = Tail(waitq)
    /\ pc' = [pc EXCEPT ![t] = "held"]
    /\ UNCHANGED <<kind, alive, slot, sdkVars, op, limit, batch, ret, histVars>>

\* Mutant of Lock: a mutex that is not fair, any waiting thread may get it.
LockUnfair(t) ==
    /\ pc[t] = "wait"
    /\ holder = NoThread
    /\ holder' = t
    /\ waitq' = SelectSeq(waitq, LAMBDA u : u # t)
    /\ pc' = [pc EXCEPT ![t] = "held"]
    /\ UNCHANGED <<kind, alive, slot, sdkVars, op, limit, batch, ret, histVars>>

\* inner.lock().await
Lock(t) ==
    /\ pc[t] = "wait"
    /\ holder = NoThread
    /\ waitq # << >> /\ Head(waitq) = t
    /\ holder' = t
    /\ waitq' = Tail(waitq)
    /\ pc' = [pc EXCEPT ![t] = "held"]
    /\ UNCHANGED <<kind, alive, slot, sdkVars, op, limit, batch, ret, histVars>>

Holding(t, ops) == pc[t] = "held" /\ op[t] \in ops

\* The block ends with value r: the guard is dropped, the call has yet to
\* convert its result and return.
Finish(t, r) ==
    /\ pc' = [pc EXCEPT ![t] = "ret"]
    /\ ret' = [ret EXCEPT ![t] = r]
    /\ holder' = NoThread
    /\ UNCHANGED <<waitq, op, limit>>

\* The slot is already None: report "closed" without waiting.
RecvOnNone(t) ==
    /\ Holding(t, RecvOps)
    /\ slot = "none"
    /\ Finish(t, 1)
    /\ eof' = eof \cup {t}
    /\ UNCHANGED <<kind, alive, slot, sdkVars, batch, got>>

\* recv().await yields the first message.
RecvFirst(t) ==
    /\ Holding(t, RecvOps)
    /\ slot = "some"
    /\ batch[t] = << >>
    /\ buffer # << >>
    /\ batch' = [batch EXCEPT ![t] = <<Head(buffer)>>]
    /\ buffer' = Tail(buffer)
    /\ UNCHANGED <<kind, alive, slot, ended, arrived, pending, lockVars, pc, op,
                   limit, ret, histVars>>

\* recv().await yields None: the slot is emptied for good.
RecvEnd(t) ==
    /\ Holding(t, RecvOps)
    /\ slot = "some"
    /\ batch[t] = << >>
    /\ buffer = << >>
    /\ ended
    /\ slot' = "none"
    /\ Finish(t, 1)
    /\ eof' = eof \cup {t}
    /\ UNCHANGED <<kind, alive, sdkVars, batch, got>>

\* Mutant of TryRecv: one message more than asked for (for _ in 0..max).
TryRecvOneMore(t) ==
    /\ Holding(t, RecvOps)
    /\ batch[t] # << >>
    /\ Len(batch[t]) <= limit[t]
    /\ buffer # << >>
    /\ batch' = [batch EXCEPT ![t] = Append(@, Head(buffer))]
    /\ buffer' = Tail(buffer)
    /\ UNCHANGED <<kind, alive, slot, ended, arrived, pending, lockVars, pc, op,
                   limit, ret, histVars>>

\* Mutant of TryRecv: the message is looked at but left in the buffer.
TryRecvPeek(t) ==
    /\ Holding(t, RecvOps)
    /\ batch[t] # << >>
    /\ Len(batch[t]) < limit[t]
    /\ buffer # << >>
    /\ batch' = [batch EXCEPT ![t] = Append(@, Head(buffer))]
    /\ UNCHANGED <<kind, alive, slot, sdkVars, lockVars, pc, op, limit, ret, histVars>>

\* try_recv() yields one more message for the batch.
TryRecv(t) ==
    /\ Holding(t, RecvOps)
    /\ batch[t] # << >>
    /\ Len(batch[t]) < limit[t]
    /\ buffer # << >>
    /\ batch' = [batch EXCEPT ![t] = Append(@, Head(buffer))]
    /\ buffer' = Tail(buffer)
    /\ UNCHANGED <<kind, alive, slot, ended, arrived, pending, lockVars, pc, op,
                   limit, ret, histVars>>

\* Mutant of BatchDone: an empty try_recv() is taken for the end.
BatchDoneAsEnd(t) ==
    /\ Holding(t, RecvOps)
    /\ batch[t] # << >>
    /\ Len(batch[t]) = limit[t] \/ buffer = << >>
    /\ Finish(t, 0)
    /\ slot' = "none"
    /\ UNCHANGED <<kind, alive, sdkVars, batch, histVars>>

\* The batch is full, or try_recv() has nothing more.
BatchDone(t) ==
    /\ Holding(t, RecvOps)
    /\ batch[t] # << >>
    /\ Len(batch[t]) = limit[t] \/ buffer = << >>
    /\ Finish(t, 0)
    /\ UNCHANGED <<kind, alive, slot, sdkVars, batch, histVars>>

\* The SDK accepts the published message; publish() waits for room.
PublishOk(t) ==
    /\ Holding(t, PublishOps)
    /\ slot = "some"
    /\ pending < SendCap
    /\ pending' = pending + 1
    /\ Finish(t, 0)
    /\ UNCHANGED <<kind, alive, slot, ended, buffer, arrived, batch, histVars>>

\* No room: try_publish() fails at once.
PublishFull(t) ==
    /\ Holding(t, {"try_publish"})
    /\ slot = "some"
    /\ pending = SendCap
    /\ Finish(t, -1)
    /\ UNCHANGED <<kind, alive, slot, sdkVars, batch, histVars>>

\* The SDK reports any other error.
PublishError(t) ==
    /\ Holding(t, PublishOps)
    /\ slot = "some"
    /\ Finish(t, -1)
    /\ UNCHANGED <<kind, alive, slot, sdkVars, batch, histVars>>

\* The slot is None: PublishError::NotConnected.
NotConnected(t) ==
    /\ Holding(t, PublishOps)
    /\ slot = "none"
    /\ Finish(t, -1)
    /\ UNCHANGED <<kind, alive, slot, sdkVars, batch, histVars>>

\* stream_id() and pending_bytes(), 0 when the slot is None.
Query(t) ==
    /\ Holding(t, {"stream_id", "pending_bytes"})
    /\ Finish(t, CASE slot = "none" -> 0
                   [] op[t] = "stream_id" /\ slot = "some" -> StreamId
                   [] op[t] = "pending_bytes" /\ slot = "some" -> pending)
    /\ UNCHANGED <<kind, alive, slot, sdkVars, batch, histVars>>

\* Outside the lock: the messages are converted, written to the caller's
\* struct, and the call returns; its frame is gone.
Return(t) ==
    /\ pc[t] = "ret"
    /\ pc' = [pc EXCEPT ![t] = "idle"]
    /\ op' = [op EXCEPT ![t] = "recv"]
    /\ limit' = [limit EXCEPT ![t] = 1]
    /\ got' = [got EXCEPT ![t] = @ \o batch[t]]
    /\ batch' = [batch EXCEPT ![t] = << >>]
    /\ ret' = [ret EXCEPT ![t] = 0]
    /\ UNCHANGED <<kind, alive, slot, sdkVars, lockVars, eof>>

-----------------------------------------------------------------------------
Calls(t) ==
    \/ vireon_sub_recv(t) \/ vireon_group_sub_recv(t) \/ vireon_stream_recv(t)
    \/ \E n \in MaxCounts :
          \/ vireon_sub_recv_batch(t, n)
          \/ vireon_group_sub_recv_batch(t, n)
          \/ vireon_stream_recv_batch(t, n)
    \/ vireon_stream_publish(t) \/ vireon_stream_try_publish(t)
    \/ vireon_stream_id(t) \/ vireon_stream_pending_bytes(t)

\* What a thread inside a call does without waiting for a new event.
Progress(t) ==
    \/ Lock(t)
    \/ RecvOnNone(t) \/ RecvFirst(t) \/ RecvEnd(t) \/ TryRecv(t) \/ BatchDone(t)
    \/ PublishOk(t) \/ PublishFull(t) \/ NotConnected(t) \/ Query(t)
    \/ Return(t)

Closes == vireon_sub_close \/ vireon_group_sub_close \/ vireon_stream_close

\* A reclaimed handle: nothing happens any more.
Reclaimed == ~alive /\ UNCHANGED vars

Next ==
    \/ Deliver \/ End \/ Transmit
    \/ \E t \in Threads : Calls(t) \/ Progress(t) \/ PublishError(t)
    \/ Closes
    \/ Reclaimed

Spec == Init /\ [][Next]_vars

\* The runtime's worker threads keep polling tasks and the calling thread
\* keeps polling its own future; nobody has to call, deliver or end.
Fairness ==
    /\ WF_vars(Transmit)
    /\ \A t \in Threads : WF_vars(Progress(t))

FairSpec == Spec /\ Fairness

-----------------------------------------------------------------------------
(***************************************************************************)
(* Properties.                                                             *)
(***************************************************************************)

\* Type invariant of the handle, the mutex and the calls in progress.
TypeOK ==
    /\ kind \in AllKinds
    /\ alive \in BOOLEAN
    /\ slot \in {"some", "none"}
    /\ ended \in BOOLEAN
    /\ buffer \in Seq(Nat)
    /\ arrived \in Nat
    /\ pending \in 0..SendCap
    /\ holder \in Threads \cup {NoThread}
    /\ waitq \in Seq(Threads)
    /\ pc \in [Threads -> {"idle", "wait", "held", "ret"}]
    /\ op \in [Threads -> AllOps]
    /\ limit \in [Threads -> 1..BatchCap]
    /\ batch \in [Threads -> Seq(Nat)]
    /\ ret \in [Threads -> Int]
    /\ got \in [Threads -> Seq(Nat)]
    /\ eof \subseteq Threads

\* The guard is held by exactly the thread that runs its async block, each
\* waiting thread is queued exactly once, and nobody uses a reclaimed handle
\* (block_on(async { inner.lock().await ... }) of every entry point).
LockInv ==
    /\ \A t \in Threads : pc[t] = "held" <=> holder = t
    /\ \A t \in Threads : pc[t] = "wait" <=> \E i \in 1..Len(waitq) : waitq[i] = t
    /\ \A i, j \in 1..Len(waitq) : waitq[i] = waitq[j] => i = j
    /\ ~alive => \A t \in Threads : pc[t] = "idle"

\* Everything the calls of thread t have taken, returned or not.
Handed(t) == got[t] \o batch[t]

\* How many messages have left the SDK's buffer.
Taken == arrived - Len(buffer)

\* The buffer holds the most recent arrivals, oldest first.
BufferInOrder ==
    /\ Taken >= 0
    /\ \A i \in 1..Len(buffer) : buffer[i] = Taken + i

\* A thread sees arrival numbers increase over all its calls.
HandedInOrder ==
    \A t \in Threads : \A i, j \in 1..Len(Handed(t)) :
        i < j => Handed(t)[i] < Handed(t)[j]

\* Only messages that have left the buffer were handed out.
HandedTaken ==
    \A t \in Threads : \A i \in 1..Len(Handed(t)) : Handed(t)[i] \in 1..Taken

\* No message is handed to two threads.
NoDuplicate ==
    \A t, u \in Threads : t # u =>
        \A i \in 1..Len(Handed(t)), j \in 1..Len(Handed(u)) :
            Handed(t)[i] # Handed(u)[j]

\* Every message that left the buffer was handed to some thread.
NoLoss ==
    \A m \in 1..Taken : \E t \in Threads : \E i \in 1..Len(Handed(t)) : Handed(t)[i] = m

\* Threads that share a handle receive every message exactly once and each
\* of them in arrival order, although recv and recv_batch take messages one
\* by one across awaits.
ExactlyOnce ==
    /\ BufferInOrder
    /\ HandedInOrder
    /\ HandedTaken
    /\ NoDuplicate
    /\ NoLoss

\* A batch never exceeds max_count clamped to 1..BATCH_CAP, messages are in
\* flight only inside a receiving call that got the guard, and a call reports
\* success exactly when it hands out at least one message (recv_batch's loop
\* and its msgs.is_empty() test, which the PHP loops read as "closed").
BatchBounded ==
    \A t \in Threads :
        /\ Len(batch[t]) <= limit[t]
        /\ pc[t] \in {"idle", "wait"} \/ op[t] # "recv" => batch[t] = << >>
        /\ pc[t] = "ret" /\ op[t] = "recv" => (ret[t] = 0 <=> batch[t] # << >>)

\* `*guard = None` happens only after the end and only when every message
\* was taken: no message is stranded behind an emptied slot, and whoever was
\* told "closed" was told the final truth.
EndIsFinal ==
    /\ slot = "none" => ended /\ buffer = << >>
    /\ slot = "none" => \A t \in Threads : pc[t] = "held" => batch[t] = << >>
    /\ eof # {} => slot = "none"

\* The messages of a batch in the making still count as queued: the lock
\* keeps everybody else away from them until the batch is complete.
Taking == IF holder = NoThread THEN << >> ELSE batch[holder]

Promise == INSTANCE Inbox WITH
    Callers  <- Threads,
    MaxBatch <- BatchCap,
    queue    <- Taking \o buffer,
    sent     <- arrived,
    open     <- ~ended,
    got      <- [t \in Threads |->
                    IF pc[t] = "ret" THEN got[t] \o batch[t] ELSE got[t]],
    told     <- eof

\* recv and recv_batch implement the abstract Inbox: a batch assembled over
\* several awaits is taken at one instant, in order, and "closed" is
\* reported only when the inbox is empty and shut.
RefinesInbox == Promise!Spec

\* Once the SDK has ended the stream every call in progress returns, blocked
\* receivers and the calls queued behind them included.
CallsReturnOnceEnded ==
    \A t \in Threads : (ended /\ pc[t] # "idle") ~> (pc[t] = "idle")

\* stream.rs:126 calls try_publish "fire-and-forget": whoever calls it gets
\* the answer without waiting for somebody else's message.
FireAndForget ==
    \A t \in Threads :
        (op[t] = "try_publish" /\ pc[t] = "wait") ~> (pc[t] = "idle")
=============================================================================
