-------------------------- MODULE PhpSessionProofs ---------------------------
(***************************************************************************)
(* Proofs about PhpSession for any number of handles, objects, calls and   *)
(* messages in a batch.                                                    *)
(***************************************************************************)
EXTENDS PhpSession, TLAPS

\* The functions of the C ABI by what they do, and the two halves of a method.
LEMMA NextCases ==
    ASSUME [Next]_vars
    PROVE  \/ UNCHANGED vars \/ LoadFails
           \/ \E new \in {"client", "pool"} : ConnectCall(new)
           \/ \E o \in Objects :
                 \/ \E c \in Classes, kind \in ErrorKinds : StatusCall(o, c, kind)
                 \/ \E c \in Classes : Query(o, c)
                 \/ \E new \in Receiving, kind \in ErrorKinds : HandleCall(o, new, kind)
                 \/ \E c \in Receiving : RecvCall(o, c) \/ BatchCall(o, c)
                 \/ vireon_client_rpc(o) \/ ExplicitDestruct(o) \/ Release(o)
           \/ checkError \/ checkHandle \/ recv \/ recvBatch \/ rpc
<1>1. CASE UNCHANGED vars
  BY <1>1
<1>2. CASE Finished
  BY <1>2 DEF Finished
<1>3. CASE LoadFails \/ vireon_connect \/ vireon_pool_connect
  BY <1>3 DEF vireon_connect, vireon_pool_connect
<1>4. ASSUME NEW o \in Objects, ClientMethods(o)
      PROVE  \/ \E c \in Classes, kind \in ErrorKinds : StatusCall(o, c, kind)
             \/ \E c \in Classes : Query(o, c)
             \/ \E new \in Receiving, kind \in ErrorKinds : HandleCall(o, new, kind)
             \/ vireon_client_rpc(o)
  BY <1>4 DEF ClientMethods, Classes, Receiving, ErrorKinds,
       vireon_client_publish, vireon_client_try_publish, vireon_client_subscribe,
       vireon_client_unsubscribe, vireon_client_open_stream, vireon_client_subscribe_group,
       vireon_client_leave_group, vireon_client_migrate, vireon_client_pending_bytes
<1>5. ASSUME NEW o \in Objects, PoolMethods(o)
      PROVE  \/ \E c \in Classes, kind \in ErrorKinds : StatusCall(o, c, kind)
             \/ \E c \in Classes : Query(o, c)
  BY <1>5 DEF PoolMethods, Classes, ErrorKinds,
       vireon_pool_len, vireon_pool_publish, vireon_pool_try_publish, vireon_pool_pending_bytes
<1>6. ASSUME NEW o \in Objects, ReceiverMethods(o)
      PROVE  \/ \E c \in Classes, kind \in ErrorKinds : StatusCall(o, c, kind)
             \/ \E c \in Classes : Query(o, c)
             \/ \E c \in Receiving : RecvCall(o, c) \/ BatchCall(o, c)
  BY <1>6 DEF ReceiverMethods, Classes, Receiving, ErrorKinds,
       vireon_sub_recv, vireon_sub_recv_batch, vireon_group_sub_recv,
       vireon_group_sub_recv_batch, vireon_stream_recv, vireon_stream_recv_batch,
       vireon_stream_publish, vireon_stream_try_publish, vireon_stream_id,
       vireon_stream_pending_bytes
<1>7. ASSUME NEW o \in Objects, ExplicitDestruct(o) \/ Release(o)
      PROVE  \E p \in Objects : ExplicitDestruct(p) \/ Release(p)
  BY <1>7
<1>8. CASE checkError \/ checkHandle \/ recv \/ recvBatch \/ rpc
  BY <1>8
<1>9. QED
  BY <1>1, <1>2, <1>3, <1>4, <1>5, <1>6, <1>7, <1>8 DEF Next
-----------------------------------------------------------------------------
(***************************************************************************)
(* The inductive invariant.                                                *)
(***************************************************************************)

\* While script code runs nothing is pending.
Resting == php = "user" => ret = NoRet

\* What the PHP half takes for a failure: a negative code or the handle 0.
FailureSeen ==
    \/ ret.via \in {"status", "rpc"} /\ ret.rc < 0
    \/ ret.via = "handle" /\ ret.made = Null

\* A native call that returns a failure value has set the last error, and one
\* that returns no such value has not failed.
Outcome ==
    php = "back" =>
        /\ ret.via \in {"status", "handle", "recv", "batch", "rpc"}
        /\ ret.cause = IF FailureSeen THEN lastError ELSE NoError

\* A handle is returned only for an Arc that was just made.
Made == ret.made # Null => ret.via = "handle" /\ ret.made \in Handles /\ arc[ret.made] \in Classes

\* The method that gets a message frees all that is in the out struct.
Freeable ==
    /\ ret.via \in {"none", "status", "handle"} => ret.out = {}
    /\ ret.via = "recv" => ret.out = vireon_msg_free(1, ret.out)
    /\ ret.via = "rpc" => ret.out = IF ret.rc < 0 THEN {} ELSE vireon_msg_free(1, ret.out)
    /\ ret.via = "batch" => ret.out = vireon_batch_free(ret.count, ret.out)

\* Whoever was told the end, or is about to be, has an empty slot.
Ended ==
    /\ \A o \in told : object[o].handle # Null => slot[object[o].handle] = "none"
    /\ ret.via \in {"recv", "batch"} /\ ret.rc = 1 =>
          ret.obj \in Objects /\ object[ret.obj].handle # Null
          /\ slot[object[ret.obj].handle] = "none"

IInv == /\ TypeOK /\ Resting /\ Outcome /\ Made /\ Freeable /\ Ended
        /\ OwnedOnce /\ ErrorIsOwn /\ MessagesFreed /\ NullIsFinal
-----------------------------------------------------------------------------
(***************************************************************************)
(* Lemmas about errors, blocks and the two halves of a method.             *)
(***************************************************************************)

\* set_last_error files a typed message.
LEMMA ErrorTyped ==
    ASSUME calls \in Nat, NEW kind \in ErrorKinds
    PROVE  Failure(kind) \in Errors /\ NoError \in Errors
<1>1. Failure(kind) \in Errors
  BY DEF Failure, Errors
<1>2. NoError \in Errors
  BY DEF Errors, NoError, ErrorKinds
<1>3. QED
  BY <1>1, <1>2

\* The fields of a call's result that nobody has written.
LEMMA NoRetFields ==
    /\ NoRet.via = "none" /\ NoRet.rc = 0 /\ NoRet.made = Null /\ NoRet.out = {}
    /\ NoRet.cause = NoError
BY DEF NoRet

\* A script that runs has no call pending and nothing on Rust's heap.
LEMMA UserState ==
    ASSUME IInv, php = "user"
    PROVE  ret = NoRet /\ ret.made = Null /\ heap = {}
BY NoRetFields DEF IInv, Resting, MessagesFreed

\* vireon_msg_free takes back what sdk_msg_to_c has made of a message.
LEMMA MessageFreeable ==
    ASSUME NEW i, NEW empty \in BOOLEAN
    PROVE  sdk_msg_to_c(i, empty) = vireon_msg_free(i, sdk_msg_to_c(i, empty))
BY DEF sdk_msg_to_c, vireon_msg_free

\* The blocks of a message have their types.
LEMMA MessageTyped ==
    ASSUME NEW i \in 0..MaxBatch, NEW empty \in BOOLEAN
    PROVE  sdk_msg_to_c(i, empty) \subseteq Blocks
BY DEF sdk_msg_to_c, Blocks

\* A native call that makes no handle leaves the objects alone, so only what
\* it returns has to be looked at.
LEMMA NativeStep ==
    ASSUME IInv,
           php = "user", php' = "back", calls' = calls + 1,
           UNCHANGED <<initialized, runtime, arc, object, seen, told>>,
           slot' \in [Handles -> {"some", "none"}],
           \A h \in Handles : slot[h] = "none" => slot'[h] = "none",
           lastError' \in Errors, ret'.cause \in Errors, ret'.rc \in {-1, 0, 1},
           ret'.made = Null, ret'.out \subseteq Blocks, heap' = heap \cup ret'.out,
           Outcome', Freeable', NullIsFinal',
           ret'.via \in {"recv", "batch"} /\ ret'.rc = 1 =>
              ret'.obj \in Objects /\ object[ret'.obj].handle # Null
              /\ slot'[object[ret'.obj].handle] = "none"
    PROVE  IInv'
<1>1. ret = NoRet /\ ret.made = Null /\ heap = {}
  BY UserState
<1>2. TypeOK'
  BY <1>1 DEF IInv, TypeOK
<1>3. Resting' /\ Made'
  BY DEF Resting, Made
<1>4. \A o \in told : object[o].handle # Null => object[o].handle \in Handles
  BY DEF IInv, TypeOK
<1>5. Ended'
  BY <1>4 DEF IInv, Ended
<1>6. OwnedOnce'
  BY DEF IInv, OwnedOnce, HandlesLive
<1>7. ErrorIsOwn' /\ MessagesFreed'
  BY <1>1 DEF IInv, ErrorIsOwn, MessagesFreed
<1>8. QED
  BY <1>2, <1>3, <1>5, <1>6, <1>7 DEF IInv

\* A method that returns to the script throws the error of its own call, and
\* leaves no block behind.
LEMMA ReturnStep ==
    ASSUME IInv, php = "back", ToUser(ret.cause), heap' = {},
           told' \subseteq Objects,
           object' \in [Objects -> [class : Classes \cup {"none"}, handle : Handles \cup {Null}]],
           \A o \in told' : object'[o].handle # Null => slot[object'[o].handle] = "none",
           OwnedOnce'
    PROVE  IInv'
<1>1. /\ php' = "user" /\ ret' = NoRet
      /\ seen' = [thrown |-> ret.cause, cause |-> ret.cause]
      /\ UNCHANGED <<initialized, runtime, arc, slot, lastError, calls>>
  BY DEF ToUser, ffiVars
<1>2. TypeOK'
  BY <1>1, NoRetFields, ErrorTyped DEF IInv, TypeOK, ErrorKinds
<1>3. Resting' /\ Outcome' /\ Made' /\ Freeable' /\ MessagesFreed' /\ NullIsFinal'
  BY <1>1, NoRetFields DEF Resting, Outcome, Made, Freeable, MessagesFreed, NullIsFinal
<1>4. Ended'
  BY <1>1, NoRetFields DEF Ended
<1>5. ErrorIsOwn'
  BY <1>1 DEF ErrorIsOwn
<1>6. QED
  BY <1>2, <1>3, <1>4, <1>5 DEF IInv
-----------------------------------------------------------------------------
(***************************************************************************)
(* The native halves.                                                      *)
(***************************************************************************)

\* Functions that return a status or only read: -1 comes with the last error.
LEMMA StatusStep ==
    ASSUME IInv, NEW o \in Objects, NEW c, NEW kind \in ErrorKinds,
           StatusCall(o, c, kind) \/ Query(o, c)
    PROVE  IInv'
<1>1. /\ php = "user" /\ php' = "back" /\ calls' = calls + 1
      /\ UNCHANGED <<initialized, runtime, arc, slot, object, heap, seen, told>>
  BY DEF StatusCall, Query, Native, ffiVars
<1>2. /\ ret'.via = "status" /\ ret'.made = Null /\ ret'.out = {}
      /\ \/ ret'.rc = 0 /\ ret'.cause = NoError /\ lastError' = lastError
         \/ ret'.rc = -1 /\ ret'.cause = Failure(kind) /\ lastError' = Failure(kind)
  BY DEF StatusCall, Query, NoRet
<1>3. Failure(kind) \in Errors /\ NoError \in Errors /\ lastError \in Errors
  BY ErrorTyped DEF IInv, TypeOK
<1>4. Outcome'
  BY <1>1, <1>2 DEF Outcome, FailureSeen
<1>5. Freeable' /\ NullIsFinal'
  BY <1>2 DEF Freeable, NullIsFinal
<1>6. slot \in [Handles -> {"some", "none"}]
  BY DEF IInv, TypeOK
<1>7. QED
  BY <1>1, <1>2, <1>3, <1>4, <1>5, <1>6, NativeStep

\* rpc: a reply in the out struct, or -1 with the last error and no reply.
LEMMA RpcStep ==
    ASSUME IInv, NEW o \in Objects, vireon_client_rpc(o)
    PROVE  IInv'
<1>1. /\ php = "user" /\ php' = "back" /\ calls' = calls + 1
      /\ UNCHANGED <<initialized, runtime, arc, slot, object, seen, told>>
  BY DEF vireon_client_rpc, Native, ffiVars
<1>2. /\ ret'.via = "rpc" /\ ret'.made = Null
      /\ \/ /\ ret'.rc = 0 /\ ret'.cause = NoError /\ lastError' = lastError
            /\ \E empty \in BOOLEAN : ret'.out = sdk_msg_to_c(1, empty)
            /\ heap' = heap \cup ret'.out
         \/ /\ ret'.rc = -1 /\ lastError' = Failure("RpcError")
            /\ ret'.cause = Failure("RpcError") /\ ret'.out = {} /\ heap' = heap
  BY DEF vireon_client_rpc, NoRet
<1>3. Failure("RpcError") \in Errors /\ NoError \in Errors /\ lastError \in Errors
  BY ErrorTyped DEF IInv, TypeOK, ErrorKinds
<1>4. Outcome'
  BY <1>1, <1>2 DEF Outcome, FailureSeen
<1>5. Freeable' /\ NullIsFinal'
  BY <1>2, MessageFreeable DEF Freeable, NullIsFinal
<1>6. slot \in [Handles -> {"some", "none"}]
  BY DEF IInv, TypeOK
<1>7. ret'.out \subseteq Blocks
  BY <1>2, MessageTyped, SessionAssumption
<1>8. QED
  BY <1>1, <1>2, <1>3, <1>4, <1>5, <1>6, <1>7, NativeStep

\* recv of the three receiving classes finds the end or writes a message; a
\* slot that is None stays None.
LEMMA RecvStep ==
    ASSUME IInv, NEW o \in Objects, NEW c, RecvCall(o, c)
    PROVE  IInv'
<1>1. /\ php = "user" /\ php' = "back" /\ calls' = calls + 1
      /\ UNCHANGED <<initialized, runtime, arc, object, lastError, seen, told>>
      /\ object[o].handle # Null
  BY DEF RecvCall, Native, ffiVars
<1>2. /\ object[o].handle \in Handles /\ slot \in [Handles -> {"some", "none"}]
      /\ lastError \in Errors /\ NoError \in Errors
  BY <1>1, ErrorTyped DEF IInv, TypeOK, ErrorKinds
<1>3. CASE RecvNone(o, "recv")
  <2>1. /\ ret'.via = "recv" /\ ret'.made = Null /\ ret'.rc = 1 /\ ret'.obj = o
        /\ ret'.cause = NoError /\ ret'.out = {} /\ heap' = heap
    BY <1>3 DEF RecvNone, NoRet
  <2>2. /\ slot' \in [Handles -> {"some", "none"}] /\ slot'[object[o].handle] = "none"
        /\ \A h \in Handles : slot[h] = "none" => slot'[h] = "none"
    BY <1>2, <1>3 DEF RecvNone, Handle
  <2>3. Outcome' /\ Freeable' /\ NullIsFinal'
    BY <2>1 DEF Outcome, FailureSeen, Freeable, vireon_msg_free, NullIsFinal
  <2>4. QED
    BY <1>1, <1>2, <2>1, <2>2, <2>3, NativeStep
<1>4. CASE ~RecvNone(o, "recv")
  <2>1. /\ ret'.via = "recv" /\ ret'.made = Null /\ ret'.rc = 0 /\ ret'.obj = o
        /\ ret'.cause = NoError /\ heap' = heap \cup ret'.out
        /\ \E empty \in BOOLEAN : ret'.out = sdk_msg_to_c(1, empty)
        /\ slot[object[o].handle] = "some" /\ slot' = slot
    BY <1>4 DEF RecvCall, NoRet, Handle
  <2>2. o \notin told
    BY <1>1, <2>1 DEF IInv, Ended
  <2>3. Outcome' /\ Freeable' /\ NullIsFinal'
    BY <1>1, <2>1, <2>2, MessageFreeable DEF Outcome, FailureSeen, Freeable, NullIsFinal
  <2>4. ret'.out \subseteq Blocks
    BY <2>1, MessageTyped, SessionAssumption
  <2>5. QED
    BY <1>1, <1>2, <2>1, <2>3, <2>4, NativeStep
<1>5. QED
  BY <1>3, <1>4

\* What recv_batch allocates for n messages, those in empty without payload.
BatchBlocks(n, empty) ==
    {<<"array", 0>>} \cup UNION {sdk_msg_to_c(i, i \in empty) : i \in 1..n}

\* vireon_batch_free takes back what recv_batch has made of n messages.
LEMMA BatchFreeable ==
    ASSUME NEW n \in 1..MaxBatch, NEW empty
    PROVE  /\ BatchBlocks(n, empty) \subseteq Blocks
           /\ BatchBlocks(n, empty) = vireon_batch_free(n, BatchBlocks(n, empty))
<1> DEFINE blocks == BatchBlocks(n, empty)
<1>0. blocks = {<<"array", 0>>} \cup (UNION {sdk_msg_to_c(i, i \in empty) : i \in 1..n})
  BY DEF BatchBlocks
<1> HIDE DEF blocks
<1>1. n \in Nat /\ n > 0 /\ n <= MaxBatch /\ MaxBatch \in Nat
  BY SessionAssumption
<1>2. \A i \in 1..n : sdk_msg_to_c(i, i \in empty) \subseteq Blocks
  <2>1. ASSUME NEW i \in 1..n
        PROVE  sdk_msg_to_c(i, i \in empty) \subseteq Blocks
    <3>1. i \in 0..MaxBatch
      BY <1>1
    <3>2. QED
      BY <3>1 DEF sdk_msg_to_c, Blocks
  <2>2. QED
    BY <2>1
<1>3. <<"array", 0>> \in Blocks
  BY <1>1 DEF Blocks
<1>4. blocks \subseteq Blocks
  BY <1>0, <1>2, <1>3
<1>5. \A i \in 1..n : sdk_msg_to_c(i, i \in empty) \subseteq vireon_msg_free(i, blocks)
  BY <1>0 DEF sdk_msg_to_c, vireon_msg_free
<1>6. \A i \in 1..n : vireon_msg_free(i, blocks) \subseteq blocks
  BY DEF vireon_msg_free
<1>7. vireon_batch_free(n, blocks)
         = (UNION {vireon_msg_free(i, blocks) : i \in 1..n}) \cup ({<<"array", 0>>} \cap blocks)
  BY <1>1 DEF vireon_batch_free
<1>8. \A b : b \in blocks =>
               b = <<"array", 0>> \/ \E i \in 1..n : b \in vireon_msg_free(i, blocks)
  BY <1>0, <1>5
<1>9. vireon_batch_free(n, blocks) \subseteq blocks
  BY <1>6, <1>7
<1>10. \A b \in blocks : b \in vireon_batch_free(n, blocks)
  BY <1>7, <1>8
<1>11. QED
  BY <1>4, <1>9, <1>10 DEF blocks

\* recv_batch finds the end or writes an array of messages.
LEMMA BatchStep ==
    ASSUME IInv, NEW o \in Objects, NEW c, BatchCall(o, c)
    PROVE  IInv'
<1>1. /\ php = "user" /\ php' = "back" /\ calls' = calls + 1
      /\ UNCHANGED <<initialized, runtime, arc, object, lastError, seen, told>>
      /\ object[o].handle # Null
  BY DEF BatchCall, Native, ffiVars
<1>2. /\ object[o].handle \in Handles /\ slot \in [Handles -> {"some", "none"}]
      /\ lastError \in Errors /\ NoError \in Errors
  BY <1>1, ErrorTyped DEF IInv, TypeOK, ErrorKinds
<1>3. CASE RecvNone(o, "batch")
  <2>1. /\ ret'.via = "batch" /\ ret'.made = Null /\ ret'.rc = 1 /\ ret'.obj = o
        /\ ret'.cause = NoError /\ ret'.out = {} /\ ret'.count = 0 /\ heap' = heap
    BY <1>3 DEF RecvNone, NoRet
  <2>2. /\ slot' \in [Handles -> {"some", "none"}] /\ slot'[object[o].handle] = "none"
        /\ \A h \in Handles : slot[h] = "none" => slot'[h] = "none"
    BY <1>2, <1>3 DEF RecvNone, Handle
  <2>3. vireon_batch_free(0, {}) = {}
    BY DEF vireon_batch_free, vireon_msg_free
  <2>4. Outcome' /\ Freeable' /\ NullIsFinal'
    BY <2>1, <2>3 DEF Outcome, FailureSeen, Freeable, NullIsFinal
  <2>5. QED
    BY <1>1, <1>2, <2>1, <2>2, <2>4, NativeStep
<1>4. CASE ~RecvNone(o, "batch")
  <2>1. slot[object[o].handle] = "some" /\ slot' = slot
    BY <1>4 DEF BatchCall, Handle
  <2> DEFINE Writes(n, empty, cap) ==
                 /\ heap' = heap \cup BatchBlocks(n, empty)
                 /\ ret' = [NoRet EXCEPT !.obj = o, !.via = "batch", !.out = BatchBlocks(n, empty),
                                         !.count = n, !.cap = cap]
  <2>2. PICK max \in 1..MaxBatch : \E n \in 1..max : \E empty \in SUBSET (1..n) :
            Writes(n, empty, ArrayCap(n, max))
    BY <1>4, Zenon DEF BatchCall, BatchBlocks
  <2> PICK n \in 1..max : \E empty \in SUBSET (1..n) : Writes(n, empty, ArrayCap(n, max))
    BY <2>2
  <2>3. PICK empty \in SUBSET (1..n) : Writes(n, empty, ArrayCap(n, max))
    OBVIOUS
  <2> DEFINE blocks == BatchBlocks(n, empty)
  <2>4. /\ ret'.via = "batch" /\ ret'.made = Null /\ ret'.rc = 0 /\ ret'.obj = o
        /\ ret'.cause = NoError /\ ret'.out = blocks /\ ret'.count = n
        /\ heap' = heap \cup blocks
    BY <2>3 DEF NoRet
  <2>5. o \notin told
    BY <1>1, <2>1 DEF IInv, Ended
  <2>6. blocks \subseteq Blocks /\ blocks = vireon_batch_free(n, blocks)
    <3>1. n \in 1..MaxBatch
      BY SessionAssumption
    <3>2. QED
      BY <3>1, BatchFreeable
  <2> HIDE DEF blocks
  <2>7. Outcome' /\ Freeable' /\ NullIsFinal'
    BY <1>1, <2>4, <2>5, <2>6 DEF Outcome, FailureSeen, Freeable, NullIsFinal
  <2>8. QED
    BY <1>1, <1>2, <2>1, <2>4, <2>6, <2>7, NativeStep
<1>5. QED
  BY <1>3, <1>4

\* A constructor of a handle, connect included: the new Arc is at a free
\* address, which no object can hold, or 0 comes back with the last error.
LEMMA NewHandleStep ==
    ASSUME IInv, NEW o, NEW new \in Classes, NEW kind \in ErrorKinds,
           NewHandle(o, new, kind),
           php = "user", php' = "back", calls' = calls + 1,
           initialized' \in BOOLEAN, runtime' \in BOOLEAN,
           UNCHANGED <<object, heap, seen, told>>
    PROVE  IInv'
<1>1. ret = NoRet /\ ret.made = Null /\ heap = {}
  BY UserState
<1>2. /\ ret'.via = "handle" /\ ret'.rc = 0 /\ ret'.out = {}
      /\ \/ \E h \in Handles :
               /\ arc[h] = "free" /\ ret'.made = h /\ ret'.cause = NoError
               /\ arc' = [arc EXCEPT ![h] = new] /\ slot' = [slot EXCEPT ![h] = "some"]
               /\ lastError' = lastError
         \/ /\ ret'.made = Null /\ ret'.cause = Failure(kind) /\ lastError' = Failure(kind)
            /\ UNCHANGED <<arc, slot>>
  BY DEF NewHandle, NoRet
<1>3. Failure(kind) \in Errors /\ NoError \in Errors /\ lastError \in Errors
  BY ErrorTyped DEF IInv, TypeOK
<1>4. TypeOK'
  BY <1>1, <1>2, <1>3 DEF IInv, TypeOK
<1>5. Resting' /\ Freeable' /\ NullIsFinal' /\ ErrorIsOwn' /\ MessagesFreed'
  BY <1>1, <1>2 DEF IInv, Resting, Freeable, NullIsFinal, ErrorIsOwn, MessagesFreed
<1>6. Outcome'
  BY <1>2, SessionAssumption DEF Outcome, FailureSeen
<1>7. \A p \in Objects : object[p].handle # Null =>
         object[p].handle \in Handles /\ arc[object[p].handle] # "free"
  BY DEF IInv, TypeOK, OwnedOnce, HandlesLive, Classes, Receiving
<1>8. Made'
  BY <1>2 DEF IInv, TypeOK, Made
<1>9. Ended'
  BY <1>2, <1>7 DEF IInv, TypeOK, Ended
<1>10. OwnedOnce'
  <2>1. CASE UNCHANGED <<arc, slot>> /\ ret'.made = Null
    BY <2>1 DEF IInv, OwnedOnce, HandlesLive
  <2>2. ASSUME NEW h \in Handles, arc[h] = "free", ret'.made = h,
               arc' = [arc EXCEPT ![h] = new]
        PROVE  OwnedOnce'
    <3>1. \A p \in Objects : object[p].handle # h
      BY <1>7, <2>2, SessionAssumption
    <3>2. /\ arc'[h] = new /\ \A g \in Handles : g # h => arc'[g] = arc[g]
      BY <2>2 DEF IInv, TypeOK
    <3>3. HandlesLive'
      BY <1>7, <3>1, <3>2 DEF IInv, OwnedOnce, HandlesLive
    <3>4. QED
      BY <2>2, <3>1, <3>2, <3>3 DEF IInv, OwnedOnce
  <2>3. QED
    BY <1>2, <2>1, <2>2
<1>11. QED
  BY <1>4, <1>5, <1>6, <1>8, <1>9, <1>10 DEF IInv
\* subscribe, open_stream and subscribe_group of a client; connect and
\* connectPool, which start the runtime first.
LEMMA HandleStep ==
    ASSUME IInv,
           \/ \E o \in Objects, new \in Receiving, kind \in ErrorKinds : HandleCall(o, new, kind)
           \/ \E new \in {"client", "pool"} : ConnectCall(new)
    PROVE  IInv'
<1>1. ASSUME NEW o \in Objects, NEW new \in Receiving, NEW kind \in ErrorKinds,
             HandleCall(o, new, kind)
      PROVE  IInv'
  <2>1. /\ php = "user" /\ php' = "back" /\ calls' = calls + 1
        /\ UNCHANGED <<initialized, runtime, object, heap, seen, told>>
        /\ NewHandle(o, new, kind)
    BY <1>1 DEF HandleCall, Native, ffiVars
  <2>2. new \in Classes /\ initialized \in BOOLEAN /\ runtime \in BOOLEAN
    BY DEF Classes, IInv, TypeOK
  <2>3. QED
    BY <2>1, <2>2, NewHandleStep
<1>2. ASSUME NEW new \in {"client", "pool"}, ConnectCall(new)
      PROVE  IInv'
  <2>1. /\ php = "user" /\ php' = "back" /\ calls' = calls + 1
        /\ initialized' = TRUE /\ runtime' = TRUE
        /\ UNCHANGED <<object, heap, seen, told>>
        /\ NewHandle("none", new, "ConnectError")
    BY <1>2 DEF ConnectCall, VireonFFI_init
  <2>2. new \in Classes /\ "ConnectError" \in ErrorKinds
    BY DEF Classes, ErrorKinds
  <2>3. QED
    BY <2>1, <2>2, NewHandleStep
<1>3. QED
  BY <1>1, <1>2

\* A library that cannot be loaded throws its own message.
LEMMA LoadFailsStep ==
    ASSUME IInv, LoadFails
    PROVE  IInv'
<1>1. /\ calls' = calls + 1
      /\ UNCHANGED <<initialized, runtime, arc, slot, object, lastError, php, ret, heap, told>>
  BY DEF LoadFails, ffiVars
<1>2. calls \in Nat /\ calls' \in Nat
  BY <1>1 DEF IInv, TypeOK
<1>3. PICK e \in Errors : seen' = [thrown |-> e, cause |-> e]
  <2>1. [kind |-> "not loaded", call |-> calls + 1] \in Errors
    BY <1>2 DEF Errors, ErrorKinds
  <2>2. QED
    BY <2>1 DEF LoadFails
<1>4. TypeOK'
  BY <1>1, <1>2, <1>3 DEF IInv, TypeOK
<1>5. Resting' /\ Outcome' /\ Made' /\ Freeable' /\ Ended'
  BY <1>1 DEF IInv, Resting, Outcome, FailureSeen, Made, Freeable, Ended
<1>6. OwnedOnce' /\ ErrorIsOwn' /\ MessagesFreed' /\ NullIsFinal'
  BY <1>1, <1>3 DEF IInv, OwnedOnce, HandlesLive, ErrorIsOwn, MessagesFreed, NullIsFinal
<1>7. QED
  BY <1>4, <1>5, <1>6 DEF IInv
-----------------------------------------------------------------------------
(***************************************************************************)
(* The PHP halves.                                                         *)
(***************************************************************************)

\* checkError throws the last error exactly when the call has failed.
LEMMA CheckErrorStep ==
    ASSUME IInv, checkError
    PROVE  IInv'
<1>1. /\ php = "back" /\ ret.via = "status" /\ UNCHANGED <<object, heap, told>>
      /\ ToUser(IF ret.rc < 0 THEN lastError ELSE NoError)
  BY DEF checkError, Back
<1>2. ToUser(ret.cause)
  BY <1>1 DEF IInv, Outcome, FailureSeen
<1>3. heap' = {}
  BY <1>1 DEF IInv, Freeable, MessagesFreed
<1>4. ret.made = Null /\ php' = "user" /\ UNCHANGED <<arc, slot>>
  BY <1>1, <1>2 DEF IInv, Made, ToUser
<1>5. OwnedOnce'
  BY <1>1, <1>4, SessionAssumption DEF IInv, OwnedOnce, HandlesLive
<1>6. QED
  BY <1>1, <1>2, <1>3, <1>5, ReturnStep DEF IInv, TypeOK, Ended

\* checkHandle throws for the handle 0; any other handle gets its one owner.
LEMMA CheckHandleStep ==
    ASSUME IInv, checkHandle
    PROVE  IInv'
<1>1. php = "back" /\ ret.via = "handle" /\ heap' = {}
  BY DEF checkHandle, Back, IInv, Freeable, MessagesFreed
<1>2. CASE ret.made = Null /\ ToUser(lastError) /\ UNCHANGED <<object, told>>
  <2>1. ToUser(ret.cause)
    BY <1>1, <1>2 DEF IInv, Outcome, FailureSeen
  <2>2. php' = "user" /\ UNCHANGED <<arc, slot>>
    BY <2>1 DEF ToUser
  <2>3. OwnedOnce'
    BY <1>2, <2>2, SessionAssumption DEF IInv, OwnedOnce, HandlesLive
  <2>4. QED
    BY <1>1, <1>2, <2>1, <2>3, ReturnStep DEF IInv, TypeOK, Ended
<1>3. ASSUME ret.made # Null, ToUser(NoError),
             NEW o \in Objects,
             object[o] = NoObject, told' = told \ {o},
             object' = [object EXCEPT ![o] = [class |-> arc[ret.made], handle |-> ret.made]]
      PROVE  IInv'
  <2>1. ToUser(ret.cause)
    BY <1>1, <1>3 DEF IInv, Outcome, FailureSeen
  <2>2. php' = "user" /\ UNCHANGED <<arc, slot>>
    BY <2>1 DEF ToUser
  <2>3. ret.made \in Handles /\ arc[ret.made] \in Classes
    BY <1>3 DEF IInv, Made
  <2>4. /\ object'[o].handle = ret.made /\ object'[o].class = arc[ret.made]
        /\ \A p \in Objects : p # o => object'[p] = object[p]
        /\ object[o].handle = Null
        /\ object' \in [Objects -> [class : Classes \cup {"none"}, handle : Handles \cup {Null}]]
    BY <1>3, <2>3 DEF IInv, TypeOK, NoObject
  <2>5. OwnedOnce'
    <3>1. \A p \in Objects : object[p].handle # ret.made
      BY <1>1, <1>3 DEF IInv, OwnedOnce
    <3>2. HandlesLive'
      BY <2>2, <2>4 DEF IInv, OwnedOnce, HandlesLive
    <3>3. ASSUME NEW h \in Handles, arc[h] # "free"
          PROVE  \E p \in Objects : object'[p].handle = h
      <4>1. CASE ret.made = h
        BY <2>4, <4>1
      <4>2. CASE ret.made # h
        <5>1. PICK p \in Objects : object[p].handle = h
          BY <3>3, <4>2 DEF IInv, OwnedOnce
        <5>2. p # o
          BY <2>4, <5>1, SessionAssumption
        <5>3. QED
          BY <2>4, <5>1, <5>2
      <4>3. QED
        BY <4>1, <4>2
    <3>4. ASSUME NEW p \in Objects, NEW q \in Objects, p # q, object'[p].handle # Null
          PROVE  object'[p].handle # object'[q].handle
      BY <2>4, <3>1, <3>4 DEF IInv, OwnedOnce
    <3>5. QED
      BY <2>2, <3>2, <3>3, <3>4 DEF OwnedOnce
  <2>6. \A p \in told' : object'[p].handle # Null => slot[object'[p].handle] = "none"
    BY <1>3, <2>4 DEF IInv, TypeOK, Ended
  <2>7. told' \subseteq Objects
    BY <1>3 DEF IInv, TypeOK
  <2>8. QED
    BY <1>1, <2>1, <2>4, <2>5, <2>6, <2>7, ReturnStep
<1>4. QED
  BY <1>2, <1>3 DEF checkHandle

\* recv, recvBatch and rpc free the out struct before they return or throw.
LEMMA MessageStep ==
    ASSUME IInv, recv \/ recvBatch \/ rpc
    PROVE  IInv'
<1>1. ASSUME php = "back", ret.via \in {"recv", "batch", "rpc"}, ToUser(ret.cause),
             heap' = {}, object' = object,
             \/ told' = told
             \/ ret.via \in {"recv", "batch"} /\ ret.rc = 1 /\ told' = told \cup {ret.obj}
      PROVE  IInv'
  <2>1. ret.made = Null /\ php' = "user" /\ UNCHANGED <<arc, slot>>
    BY <1>1 DEF IInv, Made, ToUser
  <2>2. OwnedOnce'
    BY <1>1, <2>1, SessionAssumption DEF IInv, OwnedOnce, HandlesLive
  <2>3. /\ told' \subseteq Objects
        /\ \A o \in told' : object'[o].handle # Null => slot[object'[o].handle] = "none"
    BY <1>1 DEF IInv, TypeOK, Ended
  <2>4. QED
    BY <1>1, <2>2, <2>3, ReturnStep DEF IInv, TypeOK
<1>2. CASE recv
  <2>1. /\ php = "back" /\ ret.via = "recv" /\ ToUser(NoError) /\ object' = object
        /\ heap' = heap \ vireon_msg_free(1, ret.out)
        /\ told' = IF ret.rc = 1 THEN told \cup {ret.obj} ELSE told
    BY <1>2 DEF recv, Back
  <2>2. ret.cause = NoError /\ heap' = {}
    BY <2>1 DEF IInv, Outcome, FailureSeen, Freeable, MessagesFreed
  <2>3. QED
    BY <1>1, <2>1, <2>2
<1>3. CASE recvBatch
  <2>1. /\ php = "back" /\ ret.via = "batch" /\ ToUser(NoError) /\ object' = object
        /\ heap' = heap \ vireon_batch_free(ret.count, ret.out)
        /\ told' = IF ret.rc = 1 THEN told \cup {ret.obj} ELSE told
    BY <1>3 DEF recvBatch, Back
  <2>2. ret.cause = NoError /\ heap' = {}
    BY <2>1 DEF IInv, Outcome, FailureSeen, Freeable, MessagesFreed
  <2>3. QED
    BY <1>1, <2>1, <2>2
<1>4. CASE rpc
  <2>1. /\ php = "back" /\ ret.via = "rpc" /\ UNCHANGED <<object, told>>
        /\ \/ ret.rc < 0 /\ ToUser(lastError) /\ UNCHANGED heap
           \/ ret.rc >= 0 /\ ToUser(NoError) /\ heap' = heap \ vireon_msg_free(1, ret.out)
    BY <1>4 DEF rpc, Back
  <2>2. ret.rc \in {-1, 0, 1} /\ heap = ret.out
    BY DEF IInv, TypeOK, MessagesFreed
  <2>3. CASE ret.rc < 0
    BY <1>1, <2>1, <2>2, <2>3 DEF IInv, Outcome, FailureSeen, Freeable
  <2>4. CASE ret.rc >= 0
    BY <1>1, <2>1, <2>2, <2>4 DEF IInv, Outcome, FailureSeen, Freeable
  <2>5. QED
    BY <2>2, <2>3, <2>4
<1>5. QED
  BY <1>2, <1>3, <1>4
-----------------------------------------------------------------------------
(***************************************************************************)
(* Destructors.                                                            *)
(***************************************************************************)

\* A destructor closes the handle of its own object and of no other, and one
\* that finds $handle = 0 closes nothing.
LEMMA DestructStep ==
    ASSUME IInv, NEW o \in Objects, ExplicitDestruct(o) \/ Release(o)
    PROVE  IInv'
<1>1. /\ php = "user" /\ Destruct(o)
      /\ UNCHANGED <<initialized, runtime, slot, php, ret, heap, seen, told>>
  BY DEF ExplicitDestruct, Release, ffiVars
<1>2. /\ object'[o].handle = Null
      /\ \A p \in Objects : p # o => object'[p] = object[p]
      /\ object' \in [Objects -> [class : Classes \cup {"none"}, handle : Handles \cup {Null}]]
  <2>1. object[o] \in [class : Classes \cup {"none"}, handle : Handles \cup {Null}]
    BY DEF IInv, TypeOK
  <2>2. NoObject \in [class : Classes \cup {"none"}, handle : Handles \cup {Null}]
        /\ NoObject.handle = Null
    BY DEF NoObject
  <2>3. CASE ExplicitDestruct(o)
    BY <2>1, <2>3 DEF ExplicitDestruct, IInv, TypeOK
  <2>4. CASE Release(o)
    BY <2>2, <2>4 DEF Release, IInv, TypeOK
  <2>5. QED
    BY <2>3, <2>4
<1>3. \/ /\ object[o].handle # Null
         /\ arc' = [arc EXCEPT ![object[o].handle] = "free"]
         /\ calls' = calls + 1
         /\ lastError' = lastError \/ lastError' = Failure("ConnectError")
      \/ object[o].handle = Null /\ UNCHANGED <<arc, calls, lastError>>
  BY <1>1 DEF Destruct, CloseHandle, Handle
<1>4. Failure("ConnectError") \in Errors /\ lastError \in Errors
  BY ErrorTyped DEF IInv, TypeOK, ErrorKinds
<1>5. object[o].handle \in Handles \cup {Null}
  BY DEF IInv, TypeOK
<1>6. TypeOK'
  <2>1. arc' \in [Handles -> Classes \cup {"free"}]
    BY <1>3, <1>5 DEF IInv, TypeOK
  <2>2. calls' \in Nat /\ lastError' \in Errors
    BY <1>3, <1>4 DEF IInv, TypeOK
  <2>3. QED
    BY <1>1, <1>2, <2>1, <2>2 DEF IInv, TypeOK
<1>7. ret = NoRet /\ ret.made = Null /\ ret.via = "none"
  BY <1>1, UserState, NoRetFields
<1>8. Resting' /\ Outcome' /\ Made' /\ Freeable'
  BY <1>1, <1>7, NoRetFields DEF IInv, Resting, Outcome, Made, Freeable
<1>9. Ended'
  BY <1>1, <1>2, <1>7 DEF IInv, TypeOK, Ended
<1>10. ErrorIsOwn' /\ MessagesFreed' /\ NullIsFinal'
  BY <1>1 DEF IInv, ErrorIsOwn, MessagesFreed, NullIsFinal
<1>11. OwnedOnce'
  <2>1. \A h \in Handles : arc'[h] = IF h = object[o].handle THEN "free" ELSE arc[h]
    BY <1>3, <1>5, SessionAssumption DEF IInv, TypeOK
  <2>2. ASSUME NEW p \in Objects, object'[p].handle # Null
        PROVE  /\ p # o /\ object'[p] = object[p]
               /\ object[p].handle \in Handles /\ object[p].handle # object[o].handle
    BY <1>2, <2>2 DEF IInv, TypeOK, OwnedOnce
  <2>3. HandlesLive'
    BY <2>1, <2>2 DEF IInv, OwnedOnce, HandlesLive
  <2>4. ASSUME NEW p \in Objects, NEW q \in Objects, p # q, object'[p].handle # Null
        PROVE  object'[p].handle # object'[q].handle
    <3>1. CASE object'[q].handle = Null
      BY <2>4, <3>1
    <3>2. CASE object'[q].handle # Null
      BY <2>2, <2>4, <3>2 DEF IInv, OwnedOnce
    <3>3. QED
      BY <3>1, <3>2
  <2>5. ASSUME NEW h \in Handles, arc'[h] # "free"
        PROVE  \E p \in Objects : object'[p].handle = h
    <3>1. h # object[o].handle /\ arc[h] # "free"
      BY <2>1, <2>5
    <3>2. PICK p \in Objects : object[p].handle = h
      BY <1>1, <3>1 DEF IInv, OwnedOnce
    <3>3. QED
      BY <1>2, <3>1, <3>2
  <2>6. QED
    BY <1>1, <2>3, <2>4, <2>5 DEF OwnedOnce
<1>12. QED
  BY <1>6, <1>8, <1>9, <1>10, <1>11 DEF IInv
-----------------------------------------------------------------------------
(***************************************************************************)
(* The theorems.                                                           *)
(***************************************************************************)

\* A process that starts has no object, no error and no message.
LEMMA InitIInv == Init => IInv
<1> SUFFICES ASSUME Init
             PROVE  IInv
  OBVIOUS
<1>1. ret = NoRet /\ php = "user" /\ heap = {} /\ told = {} /\ lastError = NoError /\ calls = 0
      /\ seen = [thrown |-> NoError, cause |-> NoError]
  BY DEF Init
<1>2. NoError \in Errors
  BY <1>1, ErrorTyped DEF ErrorKinds
<1>3. NoObject \in [class : Classes \cup {"none"}, handle : Handles \cup {Null}]
      /\ NoObject.handle = Null
  BY DEF NoObject
<1>4. /\ arc \in [Handles -> Classes \cup {"free"}] /\ slot \in [Handles -> {"some", "none"}]
      /\ object \in [Objects -> [class : Classes \cup {"none"}, handle : Handles \cup {Null}]]
      /\ initialized \in BOOLEAN /\ runtime \in BOOLEAN
  BY <1>3 DEF Init
<1>5. TypeOK
  BY <1>1, <1>2, <1>4, NoRetFields DEF TypeOK
<1>6. Resting /\ Outcome /\ Made /\ Freeable /\ Ended
  BY <1>1, NoRetFields DEF Resting, Outcome, Made, Freeable, Ended
<1>7. OwnedOnce
  BY <1>1, <1>3 DEF Init, OwnedOnce, HandlesLive
<1>8. ErrorIsOwn /\ MessagesFreed /\ NullIsFinal
  BY <1>1, NoRetFields DEF ErrorIsOwn, MessagesFreed, NullIsFinal
<1>9. QED
  BY <1>5, <1>6, <1>7, <1>8 DEF IInv

\* Whatever methods a script calls and whatever the SDK answers, the combined
\* invariant holds.
LEMMA Inductive == Spec => []IInv
<1>1. IInv /\ UNCHANGED vars => IInv'
  BY DEF IInv, TypeOK, Resting, Outcome, FailureSeen, Made, Freeable, Ended, OwnedOnce,
         HandlesLive, ErrorIsOwn, MessagesFreed, NullIsFinal, vars, ffiVars
<1>2. IInv /\ [Next]_vars => IInv'
  <2> SUFFICES ASSUME IInv, [Next]_vars
               PROVE  IInv'
    OBVIOUS
  <2>1. ASSUME NEW o \in Objects, NEW c \in Classes, Query(o, c)
        PROVE  IInv'
    <3>1. "none" \in ErrorKinds
      BY DEF ErrorKinds
    <3>2. QED
      BY <2>1, <3>1, StatusStep
  <2>2. QED
    BY <1>1, <2>1, NextCases, StatusStep, RpcStep, RecvStep, BatchStep, HandleStep,
       LoadFailsStep, CheckErrorStep, CheckHandleStep, MessageStep, DestructStep
<1>3. QED
  BY InitIInv, <1>2, PTL DEF Spec

\* Handles, objects, errors and messages keep their types, however many calls
\* a script makes.
THEOREM TypeCorrect == Spec => []TypeOK
<1>1. IInv => TypeOK
  BY DEF IInv
<1>2. QED
  BY Inductive, <1>1, PTL

\* Every live Arc has exactly one PHP object that will close it, and every
\* $handle an object holds is a live Arc of its class: checkHandle wraps each
\* handle that was made and the destructors reclaim each one once.
THEOREM OwnershipCorrect == Spec => []OwnedOnce
<1>1. IInv => OwnedOnce
  BY DEF IInv
<1>2. QED
  BY Inductive, <1>1, PTL

\* checkError and checkHandle throw exactly for calls that failed, with the
\* message set_last_error filed for that call and never with a stale one.
THEOREM ErrorCorrect == Spec => []ErrorIsOwn
<1>1. IInv => ErrorIsOwn
  BY DEF IInv
<1>2. QED
  BY Inductive, <1>1, PTL

\* Before a method returns or throws, all that sdk_msg_to_c and recv_batch
\* allocated for it is freed.
THEOREM MessagesCorrect == Spec => []MessagesFreed
<1>1. IInv => MessagesFreed
  BY DEF IInv
<1>2. QED
  BY Inductive, <1>1, PTL

\* An object whose recv() has returned null never gets a message again, also
\* when the address of another receiver is used again meanwhile.
THEOREM NullCorrect == Spec => []NullIsFinal
<1>1. IInv => NullIsFinal
  BY DEF IInv
<1>2. QED
  BY Inductive, <1>1, PTL
=============================================================================
