----------------------------- MODULE PhpSession -----------------------------
(***************************************************************************)
(* One PHP process: the wrapper classes of VireonSdk.php on top of the C   *)
(* ABI.  A method call has two halves.  The native half runs a vireon_     *)
(* function, which may make or reclaim an Arc, allocate messages and set   *)
(* the thread's last error.  The PHP half looks at what came back, throws, *)
(* wraps a handle in an object, or copies messages and frees them.  The    *)
(* SDK is external: any operation of it may succeed or fail.               *)
(***************************************************************************)
EXTENDS Integers

CONSTANTS Handles,     \* bound: addresses the allocator gives to Arcs
          Objects,     \* bound: PHP variables that can hold an object
          Null,        \* the handle 0
          MaxCalls,    \* bound: native calls in one script
          MaxBatch,    \* bound: messages in one batch
          SdkMsgSize,  \* the size of the SDK's Message ...
          MsgSize      \* ... and of VireonMessage, in a common unit

ASSUME SessionAssumption ==
    /\ Null \notin Handles
    /\ MaxCalls \in Nat
    /\ MaxBatch \in Nat \ {0}
    /\ SdkMsgSize \in Nat \ {0} /\ MsgSize \in Nat \ {0}

Receiving == {"sub", "group", "stream"}
Classes == {"client", "pool"} \cup Receiving

VARIABLES
    initialized,  \* VireonFFI::$initialized
    runtime,      \* RUNTIME holds a tokio runtime
    arc,          \* arc[h]: the type of the live Arc at h, or "free"
    slot,         \* slot[h]: the Option behind a receiving handle
    object,       \* object[o]: the class and $handle of the object in variable o
    lastError,    \* LAST_ERROR of the PHP thread
    calls,        \* native calls made so far
    php,          \* "user": script code runs; "back": a native call has returned
    ret,          \* what the native call returned and wrote to its out struct
    heap,         \* blocks of messages allocated by Rust and not freed
    seen,         \* history: what the last method call threw, and what had failed
    told          \* history: variables whose object's recv reported the end

ffiVars == <<initialized, runtime>>
vars == <<ffiVars, arc, slot, object, lastError, calls, php, ret, heap, seen, told>>

NoError == [kind |-> "none", call |-> 0]
NoObject == [class |-> "none", handle |-> Null]
NoRet == [obj |-> "none", via |-> "none", rc |-> 0, made |-> Null, out |-> {},
          count |-> 0, cap |-> 0, cause |-> NoError]

Init ==
    /\ initialized = FALSE
    /\ runtime = FALSE
    /\ arc = [h \in Handles |-> "free"]
    /\ slot = [h \in Handles |-> "some"]
    /\ object = [o \in Objects |-> NoObject]
    /\ lastError = NoError
    /\ calls = 0
    /\ php = "user"
    /\ ret = NoRet
    /\ heap = {}
    /\ seen = [thrown |-> NoError, cause |-> NoError]
    /\ told = {}

-----------------------------------------------------------------------------
(***************************************************************************)
(* The native half.                                                        *)
(***************************************************************************)

\* Mutant of Failure: the message lacks the prefix that names its type.
FailureUnprefixed(kind) == [kind |-> "", call |-> calls + 1]

\* set_last_error(...): the message names the error type and this call.
Failure(kind) == [kind |-> kind, call |-> calls + 1]

\* A method of class c is called on the object in o; handle_to_ref borrows.
\* Scripts call no method after an explicit __destruct(), which the code does
\* not check: an assumption about its callers.
Native(o, c) ==
    /\ php = "user" /\ calls < MaxCalls
    /\ object[o].class = c /\ object[o].handle # Null
    /\ php' = "back" /\ calls' = calls + 1

Handle(o) == object[o].handle

\* Functions that return 0, or -1 with the last error set.
StatusCall(o, c, kind) ==
    /\ Native(o, c)
    /\ \/ /\ ret' = [NoRet EXCEPT !.obj = o, !.via = "status"]
          /\ UNCHANGED lastError
       \/ /\ lastError' = Failure(kind)
          /\ ret' = [NoRet EXCEPT !.obj = o, !.via = "status", !.rc = -1,
                                  !.cause = Failure(kind)]
    /\ UNCHANGED <<ffiVars, arc, slot, object, heap, seen, told>>

vireon_client_publish(o) == StatusCall(o, "client", "PublishError")
vireon_client_try_publish(o) == StatusCall(o, "client", "PublishError")
vireon_client_unsubscribe(o) == StatusCall(o, "client", "SubscribeError")
vireon_client_leave_group(o) == StatusCall(o, "client", "GroupError")
vireon_client_migrate(o) == StatusCall(o, "client", "ConnectError")
vireon_pool_publish(o) == StatusCall(o, "pool", "PublishError")
vireon_pool_try_publish(o) == StatusCall(o, "pool", "PublishError")

\* publish and try_publish of a stream fail once its slot is None.
vireon_stream_publish(o) ==
    /\ StatusCall(o, "stream", "PublishError")
    /\ slot[Handle(o)] = "none" => ret'.rc = -1

vireon_stream_try_publish(o) == vireon_stream_publish(o)

\* Functions that only read.
Query(o, c) ==
    /\ Native(o, c)
    /\ ret' = [NoRet EXCEPT !.obj = o, !.via = "status"]
    /\ UNCHANGED <<ffiVars, arc, slot, object, lastError, heap, seen, told>>

vireon_client_pending_bytes(o) == Query(o, "client")
vireon_pool_len(o) == Query(o, "pool")
vireon_pool_pending_bytes(o) == Query(o, "pool")
vireon_stream_id(o) == Query(o, "stream")
vireon_stream_pending_bytes(o) == Query(o, "stream")

\* Mutant of NewHandle: the error path forgets set_last_error.
NewHandleSilent(o, new, kind) ==
    /\ \/ \E h \in Handles :
             /\ arc[h] = "free"
             /\ arc' = [arc EXCEPT ![h] = new]
             /\ slot' = [slot EXCEPT ![h] = "some"]
             /\ ret' = [NoRet EXCEPT !.obj = o, !.via = "handle", !.made = h]
       \/ /\ ret' = [NoRet EXCEPT !.obj = o, !.via = "handle", !.cause = Failure(kind)]
          /\ UNCHANGED <<arc, slot>>
    /\ UNCHANGED lastError

\* arc_to_handle(Arc::new(...)) for a new value of type new, or 0.
NewHandle(o, new, kind) ==
    \/ \E h \in Handles :
          /\ arc[h] = "free"
          /\ arc' = [arc EXCEPT ![h] = new]
          /\ slot' = [slot EXCEPT ![h] = "some"]
          /\ ret' = [NoRet EXCEPT !.obj = o, !.via = "handle", !.made = h]
          /\ UNCHANGED lastError
    \/ /\ lastError' = Failure(kind)
       /\ ret' = [NoRet EXCEPT !.obj = o, !.via = "handle", !.cause = Failure(kind)]
       /\ UNCHANGED <<arc, slot>>

\* Bound: the script has a variable left for the object it asks for.
Room == \E o \in Objects : object[o] = NoObject

HandleCall(o, new, kind) ==
    /\ Native(o, "client") /\ Room
    /\ NewHandle(o, new, kind)
    /\ UNCHANGED <<ffiVars, object, heap, seen, told>>

vireon_client_subscribe(o) == HandleCall(o, "sub", "SubscribeError")
vireon_client_open_stream(o) == HandleCall(o, "stream", "StreamError")
vireon_client_subscribe_group(o) == HandleCall(o, "group", "GroupError")

\* VireonFFI::init() loads the library and calls vireon_init once.
VireonFFI_init == initialized' = TRUE /\ runtime' = TRUE

\* FFI::cdef() cannot load the library: init throws and may be tried again.
LoadFails ==
    LET e == [kind |-> "not loaded", call |-> calls + 1] IN
    /\ php = "user" /\ calls < MaxCalls /\ ~initialized
    /\ calls' = calls + 1
    /\ seen' = [thrown |-> e, cause |-> e]
    /\ UNCHANGED <<ffiVars, arc, slot, object, lastError, php, ret, heap, told>>

\* VireonClientBuilder::connect and connectPool.
ConnectCall(new) ==
    /\ php = "user" /\ calls < MaxCalls /\ Room
    /\ php' = "back" /\ calls' = calls + 1
    /\ VireonFFI_init
    /\ NewHandle("none", new, "ConnectError")
    /\ UNCHANGED <<object, heap, seen, told>>

vireon_connect == ConnectCall("client")
vireon_pool_connect == ConnectCall("pool")

-----------------------------------------------------------------------------
(***************************************************************************)
(* Messages.  sdk_msg_to_c allocates a topic for every message and a       *)
(* payload when it is not empty.                                           *)
(***************************************************************************)

sdk_msg_to_c(i, empty) ==
    {<<"topic", i>>} \cup (IF empty THEN {} ELSE {<<"payload", i>>})

\* Mutant of RecvNone: *guard = None is forgotten.
RecvNoneKeepsSlot(o, via) ==
    /\ ret' = [NoRet EXCEPT !.obj = o, !.via = via, !.rc = 1]
    /\ UNCHANGED <<slot, heap>>

\* recv() finds or gets None: the slot is None from now on.
RecvNone(o, via) ==
    /\ slot' = [slot EXCEPT ![Handle(o)] = "none"]
    /\ ret' = [NoRet EXCEPT !.obj = o, !.via = via, !.rc = 1]
    /\ UNCHANGED heap

RecvCall(o, c) ==
    /\ Native(o, c)
    /\ \/ RecvNone(o, "recv")
       \/ /\ slot[Handle(o)] = "some"
          /\ \E empty \in BOOLEAN :
                LET blocks == sdk_msg_to_c(1, empty) IN
                /\ heap' = heap \cup blocks
                /\ ret' = [NoRet EXCEPT !.obj = o, !.via = "recv", !.out = blocks]
          /\ UNCHANGED slot
    /\ UNCHANGED <<ffiVars, arc, object, lastError, seen, told>>

vireon_sub_recv(o) == RecvCall(o, "sub")
vireon_group_sub_recv(o) == RecvCall(o, "group")
vireon_stream_recv(o) == RecvCall(o, "stream")

\* The capacity of the array that into_iter().map(sdk_msg_to_c).collect()
\* makes of a Vec::with_capacity(max): the standard library reuses the
\* vector's allocation when the new elements are no larger than the old.
ArrayCap(n, max) == IF MsgSize <= SdkMsgSize THEN (max * SdkMsgSize) \div MsgSize ELSE n

BatchCall(o, c) ==
    /\ Native(o, c)
    /\ \/ RecvNone(o, "batch")
       \/ /\ slot[Handle(o)] = "some"
          /\ \E max \in 1..MaxBatch : \E n \in 1..max : \E empty \in SUBSET (1..n) :
                LET blocks == {<<"array", 0>>} \cup
                                 UNION {sdk_msg_to_c(i, i \in empty) : i \in 1..n}
                IN
                /\ heap' = heap \cup blocks
                /\ ret' = [NoRet EXCEPT !.obj = o, !.via = "batch", !.out = blocks,
                                        !.count = n, !.cap = ArrayCap(n, max)]
          /\ UNCHANGED slot
    /\ UNCHANGED <<ffiVars, arc, object, lastError, seen, told>>

vireon_sub_recv_batch(o) == BatchCall(o, "sub")
vireon_group_sub_recv_batch(o) == BatchCall(o, "group")
vireon_stream_recv_batch(o) == BatchCall(o, "stream")

\* A request: a reply, or an error; a timeout is an error like any other.
vireon_client_rpc(o) ==
    /\ Native(o, "client")
    /\ \/ /\ \E empty \in BOOLEAN :
                LET blocks == sdk_msg_to_c(1, empty) IN
                /\ heap' = heap \cup blocks
                /\ ret' = [NoRet EXCEPT !.obj = o, !.via = "rpc", !.out = blocks]
          /\ UNCHANGED lastError
       \/ /\ lastError' = Failure("RpcError")
          /\ ret' = [NoRet EXCEPT !.obj = o, !.via = "rpc", !.rc = -1,
                                  !.cause = Failure("RpcError")]
          /\ UNCHANGED heap
    /\ UNCHANGED <<ffiVars, arc, slot, object, seen, told>>

\* Mutant of vireon_msg_free: returns early for a message without payload.
vireon_msg_free_Early(i, out) ==
    IF <<"payload", i>> \in out THEN {<<"topic", i>>, <<"payload", i>>} \cap out ELSE {}

\* The blocks that vireon_msg_free releases: each non-null pointer.
vireon_msg_free(i, out) == {<<"topic", i>>, <<"payload", i>>} \cap out

\* vireon_batch_free: every message, then the array if there is one.
vireon_batch_free(n, out) ==
    (UNION {vireon_msg_free(i, out) : i \in 1..n})
        \cup (IF n > 0 THEN {<<"array", 0>>} \cap out ELSE {})

-----------------------------------------------------------------------------
(***************************************************************************)
(* The PHP half.                                                           *)
(***************************************************************************)
Back(via) == php = "back" /\ ret.via = via

\* Control is with the script again; thrown is the exception's message.
ToUser(thrown) ==
    /\ php' = "user"
    /\ ret' = NoRet
    /\ seen' = [thrown |-> thrown, cause |-> ret.cause]
    /\ UNCHANGED <<ffiVars, arc, slot, lastError, calls>>

\* checkError: a negative code throws with vireon_last_error().
checkError ==
    /\ Back("status")
    /\ ToUser(IF ret.rc < 0 THEN lastError ELSE NoError)
    /\ UNCHANGED <<object, heap, told>>

\* checkHandle: 0 throws; otherwise the handle is wrapped in a new object.
checkHandle ==
    /\ Back("handle")
    /\ \/ /\ ret.made = Null
          /\ ToUser(lastError)
          /\ UNCHANGED <<object, told>>
       \/ /\ ret.made # Null
          /\ \E o \in Objects :
                /\ object[o] = NoObject
                /\ object' = [object EXCEPT ![o] =
                                 [class |-> arc[ret.made], handle |-> ret.made]]
                /\ told' = told \ {o}
          /\ ToUser(NoError)
    /\ UNCHANGED heap

\* msgFromNative: copy and free.
recv ==
    /\ Back("recv")
    /\ heap' = heap \ vireon_msg_free(1, ret.out)
    /\ told' = IF ret.rc = 1 THEN told \cup {ret.obj} ELSE told
    /\ ToUser(NoError)
    /\ UNCHANGED object

\* Copy every message, then free the batch.
recvBatch ==
    /\ Back("batch")
    /\ heap' = heap \ vireon_batch_free(ret.count, ret.out)
    /\ told' = IF ret.rc = 1 THEN told \cup {ret.obj} ELSE told
    /\ ToUser(NoError)
    /\ UNCHANGED object

\* checkError first, then msgFromNative.
rpc ==
    /\ Back("rpc")
    /\ \/ ret.rc < 0 /\ ToUser(lastError) /\ UNCHANGED heap
       \/ ret.rc >= 0 /\ ToUser(NoError) /\ heap' = heap \ vireon_msg_free(1, ret.out)
    /\ UNCHANGED <<object, told>>

\* The close functions: the SDK's close() for a client or a pool, whose
\* failure is recorded but ignored by PHP, and reclaim_handle.
CloseHandle(h) ==
    /\ arc' = [arc EXCEPT ![h] = "free"]
    /\ calls' = calls + 1
    /\ \/ UNCHANGED lastError
       \/ arc[h] \notin Receiving /\ lastError' = Failure("ConnectError")

\* __destruct of any class: a second run finds $handle = 0 and does nothing.
Destruct(o) ==
    \/ object[o].handle # Null /\ CloseHandle(Handle(o))
    \/ object[o].handle = Null /\ UNCHANGED <<arc, calls, lastError>>

\* Mutant of ExplicitDestruct: $this->handle is not set to 0.
ExplicitDestructKeepsHandle(o) ==
    /\ php = "user"
    /\ object[o].handle # Null
    /\ Destruct(o)
    /\ UNCHANGED <<ffiVars, slot, object, php, ret, heap, seen, told>>

\* The script calls $o->__destruct() itself; the object stays.
ExplicitDestruct(o) ==
    /\ php = "user"
    /\ object[o].handle # Null
    /\ Destruct(o)
    /\ object' = [object EXCEPT ![o].handle = Null]
    /\ UNCHANGED <<ffiVars, slot, php, ret, heap, seen, told>>

\* The last reference to the object goes away, and its destructor runs.
Release(o) ==
    /\ php = "user"
    /\ object[o] # NoObject
    /\ Destruct(o)
    /\ object' = [object EXCEPT ![o] = NoObject]
    /\ UNCHANGED <<ffiVars, slot, php, ret, heap, seen, told>>

-----------------------------------------------------------------------------
ClientMethods(o) ==
    \/ vireon_client_publish(o) \/ vireon_client_try_publish(o)
    \/ vireon_client_subscribe(o) \/ vireon_client_unsubscribe(o)
    \/ vireon_client_open_stream(o) \/ vireon_client_subscribe_group(o)
    \/ vireon_client_leave_group(o) \/ vireon_client_rpc(o)
    \/ vireon_client_migrate(o) \/ vireon_client_pending_bytes(o)

PoolMethods(o) ==
    \/ vireon_pool_len(o) \/ vireon_pool_publish(o) \/ vireon_pool_try_publish(o)
    \/ vireon_pool_pending_bytes(o)

ReceiverMethods(o) ==
    \/ vireon_sub_recv(o) \/ vireon_sub_recv_batch(o)
    \/ vireon_group_sub_recv(o) \/ vireon_group_sub_recv_batch(o)
    \/ vireon_stream_recv(o) \/ vireon_stream_recv_batch(o)
    \/ vireon_stream_publish(o) \/ vireon_stream_try_publish(o)
    \/ vireon_stream_id(o) \/ vireon_stream_pending_bytes(o)

\* The script is over: its budget is used up and every object is released.
Finished ==
    /\ php = "user" /\ calls >= MaxCalls
    /\ \A o \in Objects : object[o] = NoObject
    /\ UNCHANGED vars

Next ==
    \/ LoadFails \/ vireon_connect \/ vireon_pool_connect
    \/ \E o \in Objects : ClientMethods(o) \/ PoolMethods(o) \/ ReceiverMethods(o)
    \/ checkError \/ checkHandle \/ recv \/ recvBatch \/ rpc
    \/ \E o \in Objects : ExplicitDestruct(o) \/ Release(o)
    \/ Finished

Spec == Init /\ [][Next]_vars

\* The classes define no __clone, so a script may copy an object together
\* with its handle.
Clone(o, p) ==
    /\ php = "user"
    /\ object[o] # NoObject /\ object[p] = NoObject
    /\ object' = [object EXCEPT ![p] = object[o]]
    /\ told' = IF o \in told THEN told \cup {p} ELSE told \ {p}
    /\ UNCHANGED <<ffiVars, arc, slot, lastError, calls, php, ret, heap, seen>>

CloneNext == Next \/ \E o, p \in Objects : Clone(o, p)

CloneSpec == Init /\ [][CloneNext]_vars

-----------------------------------------------------------------------------
(***************************************************************************)
(* Properties.                                                             *)
(***************************************************************************)
ErrorKinds == {"none", "not loaded", "PublishError", "SubscribeError", "StreamError",
               "GroupError", "RpcError", "ConnectError"}

Errors == [kind : ErrorKinds, call : Nat]

Blocks == {"topic", "payload", "array"} \X (0..MaxBatch)

\* Type invariant of the process: handles, objects, errors and messages.
TypeOK ==
    /\ initialized \in BOOLEAN /\ runtime \in BOOLEAN
    /\ arc \in [Handles -> Classes \cup {"free"}]
    /\ slot \in [Handles -> {"some", "none"}]
    /\ object \in [Objects -> [class : Classes \cup {"none"}, handle : Handles \cup {Null}]]
    /\ lastError \in Errors
    /\ calls \in Nat
    /\ php \in {"user", "back"}
    /\ ret.made \in Handles \cup {Null} /\ ret.rc \in {-1, 0, 1} /\ ret.cause \in Errors
    /\ ret.out \subseteq Blocks /\ heap \subseteq Blocks
    /\ seen \in [thrown : Errors, cause : Errors]
    /\ told \subseteq Objects

\* Every handle a PHP object holds is a live Arc of the object's own type,
\* what handle_to_ref and reclaim_handle require of their callers.
HandlesLive ==
    \A o \in Objects : object[o].handle # Null => arc[object[o].handle] = object[o].class

\* Every live Arc belongs to exactly one PHP object, or to the native call
\* that has just made it: no handle is leaked on any path, exceptions
\* included, none is reclaimed twice, and none outlives its Arc although
\* addresses are reused and destructors may run twice.
OwnedOnce ==
    /\ HandlesLive
    /\ \A o, p \in Objects :
          o # p /\ object[o].handle # Null => object[o].handle # object[p].handle
    /\ \A h \in Handles : arc[h] # "free" =>
          \/ php = "back" /\ ret.made = h
          \/ \E o \in Objects : object[o].handle = h
    /\ php = "back" /\ ret.made # Null =>
          \A o \in Objects : object[o].handle # ret.made

\* An exception carries the error of the very call that failed, and a call
\* that did not fail throws nothing, although LAST_ERROR is never cleared and
\* a destructor's failure leaves its message behind.
ErrorIsOwn == seen.thrown = seen.cause

\* Each block that sdk_msg_to_c and recv_batch allocate is freed exactly once
\* and before the method returns, for empty messages, empty batches and
\* failed calls too.
MessagesFreed ==
    /\ heap = ret.out
    /\ php = "user" => heap = {}

\* Once recv() returned null, or recvBatch() [], to the script, no later call
\* on that object returns a message (the slot stays None).
NullIsFinal ==
    php = "back" /\ ret.via \in {"recv", "batch"} /\ ret.obj \in told => ret.rc = 1

\* message.rs:100: vireon_batch_free frees the array; it hands it back with
\* capacity = count, which has to be the capacity it was allocated with.
ArrayFreedAsAllocated ==
    php = "back" /\ ret.via = "batch" /\ ret.count > 0 => ret.cap = ret.count
=============================================================================
