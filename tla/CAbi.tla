-------------------------------- MODULE CAbi --------------------------------
(***************************************************************************)
(* Several threads of one process use the C ABI directly: the one-time     *)
(* start of the runtime, clients, pools and pool members, and the          *)
(* thread-local last error with the pointer that vireon_last_error lends.  *)
(* The callers keep the contract of handle.rs: they use handles they were  *)
(* given and have not closed, and close one when no other call is using    *)
(* it.  A blocking call is two steps, before and after block_on.           *)
(***************************************************************************)
EXTENDS Integers

CONSTANTS Threads,
          Handles,    \* bound: addresses the allocator gives to Arcs
          Null,       \* the handle 0
          PoolSize,   \* members of a pool
          Indices,    \* i32 indices that are asked for
          UsizeMod,   \* 2^w for the width of usize
          MaxCalls    \* bound: calls that can fail

ASSUME CAbiAssumption ==
    /\ Null \notin Handles
    /\ PoolSize \in Nat \ {0} /\ UsizeMod \in Nat /\ MaxCalls \in Nat
    /\ Indices \subseteq Int /\ \A i \in Indices : i < UsizeMod /\ i + UsizeMod >= PoolSize

VARIABLES
    cell,       \* RUNTIME: "empty", "building", "built"
    aborted,    \* a panic has met extern "C"
    inited,     \* some vireon_init has returned
    arc,        \* arc[h]: the type of the live Arc at h, or "free"
    owned,      \* owned[h]: references of the Arc at h given out and not taken back
    pc,         \* pc[t]: "idle", "init", "building", "call"
    call,       \* call[t]: the operation, handle and number of t's last call
    calls,      \* calls made so far
    lastError,  \* LAST_ERROR of each thread: the number of a call, 0 for None
    strings,    \* the CStrings that are allocated
    lent,       \* lent[t]: the pointer that t got from vireon_last_error
    failed      \* threads whose last call returned an error value

initVars == <<cell, aborted, inited>>
handleVars == <<arc, owned>>
errorVars == <<lastError, strings, lent, failed>>
vars == <<initVars, handleVars, pc, call, calls, errorVars>>

Init ==
    /\ cell = "empty" /\ aborted = FALSE /\ inited = FALSE
    /\ arc = [h \in Handles |-> "free"] /\ owned = [h \in Handles |-> 0]
    /\ pc = [t \in Threads |-> "idle"]
    /\ call = [t \in Threads |-> [op |-> "none", handle |-> Null, id |-> 0]]
    /\ calls = 0
    /\ lastError = [t \in Threads |-> 0] /\ strings = {}
    /\ lent = [t \in Threads |-> 0] /\ failed = {}

-----------------------------------------------------------------------------
(***************************************************************************)
(* vireon_init: RUNTIME.get_or_init.                                       *)
(***************************************************************************)
vireon_init(t) ==
    /\ pc[t] = "idle" /\ ~aborted
    /\ pc' = [pc EXCEPT ![t] = "init"]
    /\ UNCHANGED <<initVars, handleVars, call, calls, errorVars>>

\* The first to come runs the closure, the others wait.
InitEnter(t) ==
    /\ pc[t] = "init" /\ cell = "empty" /\ ~aborted
    /\ cell' = "building"
    /\ pc' = [pc EXCEPT ![t] = "building"]
    /\ UNCHANGED <<aborted, inited, handleVars, call, calls, errorVars>>

\* The runtime is built, or expect() panics, which aborts the process.
InitBuild(t) ==
    /\ pc[t] = "building" /\ ~aborted
    /\ \/ cell' = "built" /\ inited' = TRUE /\ pc' = [pc EXCEPT ![t] = "idle"]
          /\ UNCHANGED aborted
       \/ aborted' = TRUE /\ UNCHANGED <<cell, inited, pc>>
    /\ UNCHANGED <<handleVars, call, calls, errorVars>>

\* Mutant of InitDone: whoever finds the cell taken returns at once.
InitDoneEarly(t) ==
    /\ pc[t] = "init" /\ cell # "empty" /\ ~aborted
    /\ inited' = TRUE
    /\ pc' = [pc EXCEPT ![t] = "idle"]
    /\ UNCHANGED <<cell, aborted, handleVars, call, calls, errorVars>>

InitDone(t) ==
    /\ pc[t] = "init" /\ cell = "built" /\ ~aborted
    /\ inited' = TRUE
    /\ pc' = [pc EXCEPT ![t] = "idle"]
    /\ UNCHANGED <<cell, aborted, handleVars, call, calls, errorVars>>

-----------------------------------------------------------------------------
(***************************************************************************)
(* Errors and handles.                                                     *)
(***************************************************************************)
\* Mutant of set_last_error: one cell for all threads.
set_last_error_Global(t) ==
    /\ lastError' = [u \in Threads |-> call[t].id]
    /\ strings' = (strings \ {lastError[t]}) \cup {call[t].id}

\* The new CString replaces the thread's old one, which is dropped.
set_last_error(t) ==
    /\ lastError' = [lastError EXCEPT ![t] = call[t].id]
    /\ strings' = (strings \ {lastError[t]}) \cup {call[t].id}

last_error_ptr(t) == lastError[t]

vireon_last_error(t) ==
    /\ pc[t] = "idle" /\ ~aborted
    /\ lent' = [lent EXCEPT ![t] = last_error_ptr(t)]
    /\ UNCHANGED <<initVars, handleVars, pc, call, calls, lastError, strings, failed>>

arc_to_handle(h, type) ==
    /\ arc[h] = "free"
    /\ arc' = [arc EXCEPT ![h] = type]
    /\ owned' = [owned EXCEPT ![h] = @ + 1]

\* Thread t returns to its caller.
Succeed(t) ==
    failed' = failed \ {t} /\ UNCHANGED <<lastError, strings>>
Fail(t) ==
    failed' = failed \cup {t} /\ set_last_error(t)

\* A call of t begins: from here on a lent pointer may not be used.
Begin(t, op, h) ==
    /\ pc[t] = "idle" /\ ~aborted /\ inited /\ calls < MaxCalls
    /\ calls' = calls + 1
    /\ call' = [call EXCEPT ![t] = [op |-> op, handle |-> h, id |-> calls + 1]]
    /\ lent' = [lent EXCEPT ![t] = 0]

\* The contract of the callers.
Using(h) == {t \in Threads : pc[t] = "call" /\ call[t].handle = h}
MayUse(h) == owned[h] > 0 /\ \A t \in Using(h) : call[t].op # "close"
MayClose(h) == owned[h] > 0 /\ Using(h) = {}

Blocking(t, op, h) ==
    /\ Begin(t, op, h)
    /\ pc' = [pc EXCEPT ![t] = "call"]
    /\ UNCHANGED <<initVars, handleVars, lastError, strings, failed>>

\* block_on has returned in t.
Back(t, op) ==
    /\ pc[t] = "call" /\ call[t].op = op
    /\ pc' = [pc EXCEPT ![t] = "idle"]
    /\ UNCHANGED <<initVars, call, calls, lent>>

\* vireon_connect and vireon_pool_connect.
Connect(t, type) == Blocking(t, type, Null)

\* (When no address is left, only the failure is: a bound of the model.)
Connected(t, type) ==
    /\ Back(t, type)
    /\ \/ \E h \in Handles : arc_to_handle(h, type) /\ Succeed(t)
       \/ Fail(t) /\ UNCHANGED handleVars

\* The functions that borrow a handle across block_on and return a status.
vireon_client_publish(t, h) == MayUse(h) /\ arc[h] = "client" /\ Blocking(t, "publish", h)
vireon_pool_publish(t, h) == MayUse(h) /\ arc[h] = "pool" /\ Blocking(t, "publish", h)

Published(t) ==
    /\ Back(t, "publish")
    /\ Succeed(t) \/ Fail(t)
    /\ UNCHANGED handleVars

\* idx as usize: a negative index becomes large.
AsUsize(i) == IF i < 0 THEN i + UsizeMod ELSE i

\* A clone of the member in an Arc of its own, or 0 and nothing else.
vireon_pool_member(t, h, i) ==
    /\ MayUse(h) /\ arc[h] = "pool"
    /\ Begin(t, "member", h)
    /\ \/ /\ AsUsize(i) >= PoolSize
          /\ failed' = failed \cup {t}
          /\ UNCHANGED <<handleVars, lastError, strings>>
       \/ /\ AsUsize(i) < PoolSize
          /\ \E m \in Handles : arc_to_handle(m, "client")
          /\ Succeed(t)
    /\ UNCHANGED <<initVars, pc>>

vireon_client_close(t, h) == MayClose(h) /\ arc[h] = "client" /\ Blocking(t, "close", h)
vireon_pool_close(t, h) == MayClose(h) /\ arc[h] = "pool" /\ Blocking(t, "close", h)

\* Mutant of reclaim_handle: the Arc is borrowed and not taken back.
reclaim_handle_Borrowed(h) ==
    /\ owned' = [owned EXCEPT ![h] = @ - 1]
    /\ UNCHANGED arc

reclaim_handle(h) ==
    /\ arc' = [arc EXCEPT ![h] = "free"]
    /\ owned' = [owned EXCEPT ![h] = @ - 1]

\* Mutant of Closed: the error arm reclaims the handle once more.
ClosedTwice(t) ==
    LET h == call[t].handle IN
    /\ Back(t, "close")
    /\ \/ reclaim_handle(h) /\ Succeed(t)
       \/ /\ arc' = [arc EXCEPT ![h] = "free"]
          /\ owned' = [owned EXCEPT ![h] = @ - 2]
          /\ Fail(t)

\* The handle is reclaimed whether close() succeeded or not.
Closed(t) ==
    /\ Back(t, "close")
    /\ reclaim_handle(call[t].handle)
    /\ Succeed(t) \/ Fail(t)

-----------------------------------------------------------------------------
Calls(t) ==
    \/ vireon_init(t) \/ vireon_last_error(t)
    \/ \E type \in {"client", "pool"} : Connect(t, type)
    \/ \E h \in Handles :
          \/ vireon_client_publish(t, h) \/ vireon_pool_publish(t, h)
          \/ vireon_client_close(t, h) \/ vireon_pool_close(t, h)
          \/ \E i \in Indices : vireon_pool_member(t, h, i)

Progress(t) ==
    \/ InitEnter(t) \/ InitBuild(t) \/ InitDone(t)
    \/ \E type \in {"client", "pool"} : Connected(t, type)
    \/ Published(t) \/ Closed(t)

Next == (\E t \in Threads : Calls(t) \/ Progress(t)) \/ (aborted /\ UNCHANGED vars)

Spec == Init /\ [][Next]_vars

-----------------------------------------------------------------------------
(***************************************************************************)
(* Properties.                                                             *)
(***************************************************************************)
Ops == {"none", "client", "pool", "publish", "member", "close"}

\* Type invariant of the runtime cell, the handles, the calls and the errors.
TypeOK ==
    /\ cell \in {"empty", "building", "built"} /\ aborted \in BOOLEAN /\ inited \in BOOLEAN
    /\ arc \in [Handles -> {"free", "client", "pool"}] /\ owned \in [Handles -> Nat]
    /\ pc \in [Threads -> {"idle", "init", "building", "call"}]
    /\ call \in [Threads -> [op : Ops, handle : Handles \cup {Null}, id : 0..MaxCalls]]
    /\ calls \in 0..MaxCalls
    /\ lastError \in [Threads -> 0..calls] /\ lent \in [Threads -> 0..calls]
    /\ strings \subseteq 1..calls /\ failed \subseteq Threads

\* However the threads of vireon_init interleave, RUNTIME.get().unwrap() never
\* meets an empty cell in a call that starts after some vireon_init returned,
\* and at most one thread builds the runtime.
RuntimeThere ==
    /\ \A t \in Threads : pc[t] = "call" => cell = "built"
    /\ \A t, u \in Threads : pc[t] = "building" /\ pc[u] = "building" => t = u

\* Every live Arc has exactly one owner among the callers, a pool member's
\* clone included, and what a call in progress has borrowed stays alive,
\* although other threads close pools, members and clients meanwhile and
\* addresses are used again.
HandlesSound ==
    /\ \A h \in Handles : owned[h] = (IF arc[h] = "free" THEN 0 ELSE 1)
    /\ \A t \in Threads :
          pc[t] = "call" /\ call[t].handle # Null => arc[call[t].handle] # "free"

\* Between two calls of a thread its last error is that of its own failed
\* call, and the pointer it was lent is valid and still reads the same,
\* whatever fails in other threads; a replaced message is freed.
\* vireon_pool_member is the one function that fails without a message.
ErrorKept ==
    /\ \A t \in Threads :
          /\ lent[t] # 0 => lent[t] \in strings /\ lent[t] = lastError[t]
          /\ t \in failed /\ pc[t] # "call" /\ call[t].op # "member" =>
                lastError[t] = call[t].id
    /\ strings = {lastError[t] : t \in Threads} \ {0}
=============================================================================
