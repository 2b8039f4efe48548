----------------------------- MODULE CAbiProofs -----------------------------
(***************************************************************************)
(* Proofs about CAbi for any number of threads, handles and calls.         *)
(***************************************************************************)
EXTENDS CAbi, TLAPS

\* The kinds of steps: the functions of the C ABI that block differ only in
\* the operation, the handle and the contract they begin with.
LEMMA NextCases ==
    ASSUME [Next]_vars
    PROVE  \/ UNCHANGED vars
           \/ \E t \in Threads :
                 \/ vireon_init(t) \/ InitEnter(t) \/ InitBuild(t) \/ InitDone(t)
                 \/ vireon_last_error(t)
                 \/ \E op \in {"client", "pool"} : Blocking(t, op, Null)
                 \/ \E h \in Handles : MayUse(h) /\ Blocking(t, "publish", h)
                 \/ \E h \in Handles : MayClose(h) /\ Blocking(t, "close", h)
                 \/ \E h \in Handles, i \in Indices : vireon_pool_member(t, h, i)
                 \/ \E type \in {"client", "pool"} : Connected(t, type)
                 \/ Published(t) \/ Closed(t)
BY DEF Next, Calls, Progress, Connect, vireon_client_publish, vireon_pool_publish,
       vireon_client_close, vireon_pool_close
-----------------------------------------------------------------------------
(***************************************************************************)
(* Call numbers and types.                                                 *)
(***************************************************************************)

\* Every call has a number of its own, which is also that of the message it
\* leaves, and a pointer is lent only between calls.
Numbered ==
    /\ \A t \in Threads :
          /\ call[t].id <= calls
          /\ pc[t] = "call" => call[t].id # 0 /\ lent[t] = 0
    /\ \A t, u \in Threads : t # u =>
          /\ call[t].id # 0 => call[t].id # call[u].id
          /\ lastError[t] # 0 => lastError[t] # lastError[u] /\ lastError[t] # call[u].id

\* Who closes a handle is alone with it.
Closing ==
    \A t \in Threads : pc[t] = "call" /\ call[t].op = "close" =>
        /\ call[t].handle \in Handles
        /\ \A u \in Threads :
              pc[u] = "call" /\ call[u].handle = call[t].handle => u = t

\* The types are preserved: a message is filed under the number of a call
\* that was made, and who closes a handle gives up what it owns.
LEMMA TypeStep ==
    TypeOK /\ Numbered /\ HandlesSound /\ Closing /\ [Next]_vars => TypeOK'
<1> SUFFICES ASSUME TypeOK, Numbered, HandlesSound, Closing, [Next]_vars
             PROVE  TypeOK'
  OBVIOUS
<1> USE CAbiAssumption DEF TypeOK, initVars, handleVars, errorVars
<1>1. CASE UNCHANGED vars
  BY <1>1 DEF vars
<1>2. ASSUME NEW t \in Threads,
             vireon_init(t) \/ InitEnter(t) \/ InitBuild(t) \/ InitDone(t)
      PROVE  TypeOK'
  BY <1>2 DEF vireon_init, InitEnter, InitBuild, InitDone
<1>3. ASSUME NEW t \in Threads, vireon_last_error(t)
      PROVE  TypeOK'
  BY <1>3 DEF vireon_last_error, last_error_ptr
<1>4. ASSUME NEW t \in Threads, NEW op \in Ops, NEW h \in Handles \cup {Null}, Begin(t, op, h)
      PROVE  /\ calls' \in 0..MaxCalls /\ calls' = calls + 1
             /\ call' \in [Threads -> [op : Ops, handle : Handles \cup {Null}, id : 0..MaxCalls]]
             /\ lent' \in [Threads -> 0..calls']
  BY <1>4 DEF Begin
<1>5. ASSUME NEW t \in Threads, NEW op \in Ops, NEW h \in Handles \cup {Null},
             Blocking(t, op, h)
      PROVE  TypeOK'
  <2>1. Begin(t, op, h)
    BY <1>5 DEF Blocking
  <2>2. QED
    BY <1>4, <1>5, <2>1 DEF Blocking
<1>6. {"client", "pool", "publish", "close", "member"} \subseteq Ops
  BY DEF Ops
<1>7. ASSUME NEW t \in Threads, pc[t] = "call", Succeed(t) \/ Fail(t)
      PROVE  /\ failed' \subseteq Threads
             /\ lastError' \in [Threads -> 0..calls] /\ strings' \subseteq 1..calls
  <2>1. call[t].id \in 1..calls
    BY <1>7 DEF Numbered
  <2>2. CASE Succeed(t)
    BY <2>2 DEF Succeed
  <2>3. CASE Fail(t)
    <3>1. lastError' = [lastError EXCEPT ![t] = call[t].id]
      BY <2>3 DEF Fail, set_last_error
    <3>2. strings' = (strings \ {lastError[t]}) \cup {call[t].id}
      BY <2>3 DEF Fail, set_last_error
    <3>3. failed' = failed \cup {t}
      BY <2>3 DEF Fail
    <3>4. lastError' \in [Threads -> 0..calls]
      BY <2>1, <3>1
    <3>5. strings' \subseteq 1..calls
      BY <2>1, <3>2
    <3>6. QED
      BY <3>3, <3>4, <3>5
  <2>4. QED
    BY <1>7, <2>2, <2>3
<1>8. ASSUME NEW h \in Handles, NEW type \in {"client", "pool"}, arc_to_handle(h, type)
      PROVE  arc' \in [Handles -> {"free", "client", "pool"}] /\ owned' \in [Handles -> Nat]
  BY <1>8 DEF arc_to_handle
<1>9. ASSUME NEW t \in Threads, NEW h \in Handles, NEW i \in Indices,
             vireon_pool_member(t, h, i)
      PROVE  TypeOK'
  <2>1. Begin(t, "member", h) /\ UNCHANGED <<cell, aborted, inited, pc>>
    BY <1>9 DEF vireon_pool_member
  <2>2. calls' = calls + 1 /\ calls' \in 0..MaxCalls
    BY <1>4, <1>6, <2>1
  <2>3. /\ failed' \subseteq Threads
        /\ UNCHANGED <<lastError, strings>>
        /\ \/ UNCHANGED <<arc, owned>>
           \/ \E m \in Handles : arc_to_handle(m, "client")
    BY <1>9 DEF vireon_pool_member, Succeed
  <2>4. arc' \in [Handles -> {"free", "client", "pool"}] /\ owned' \in [Handles -> Nat]
    BY <1>8, <2>3
  <2>5. QED
    BY <1>4, <1>6, <2>1, <2>2, <2>3, <2>4
<1>10. ASSUME NEW t \in Threads, NEW op \in Ops, Back(t, op), Succeed(t) \/ Fail(t),
              arc' \in [Handles -> {"free", "client", "pool"}], owned' \in [Handles -> Nat]
       PROVE  TypeOK'
  <2>1. pc[t] = "call" /\ pc' = [pc EXCEPT ![t] = "idle"]
        /\ UNCHANGED <<cell, aborted, inited, call, calls, lent>>
    BY <1>10 DEF Back
  <2>2. QED
    BY <1>7, <1>10, <2>1
<1>11. ASSUME NEW t \in Threads, NEW type \in {"client", "pool"}, Connected(t, type)
       PROVE  TypeOK'
  <2>1. arc' \in [Handles -> {"free", "client", "pool"}] /\ owned' \in [Handles -> Nat]
    BY <1>8, <1>11 DEF Connected
  <2>2. QED
    BY <1>6, <1>10, <1>11, <2>1 DEF Connected
<1>12. ASSUME NEW t \in Threads, Published(t)
       PROVE  TypeOK'
  <2>1. UNCHANGED <<arc, owned>>
    BY <1>12 DEF Published
  <2>2. QED
    BY <1>6, <1>10, <1>12, <2>1 DEF Published
<1>13. ASSUME NEW t \in Threads, Closed(t)
       PROVE  TypeOK'
  <2>1. pc[t] = "call" /\ call[t].op = "close"
    BY <1>13 DEF Closed, Back
  <2> DEFINE h == call[t].handle
  <2>2. h \in Handles /\ h # Null
    BY <2>1 DEF Closing
  <2>3. owned[h] = 1
    BY <2>1, <2>2 DEF HandlesSound
  <2>4. arc' = [arc EXCEPT ![h] = "free"] /\ owned' = [owned EXCEPT ![h] = @ - 1]
    BY <1>13 DEF Closed, reclaim_handle
  <2>5. arc' \in [Handles -> {"free", "client", "pool"}] /\ owned' \in [Handles -> Nat]
    BY <2>2, <2>3, <2>4
  <2>6. QED
    BY <1>6, <1>10, <1>13, <2>5 DEF Closed
<1> QED
  BY <1>1, <1>2, <1>3, <1>5, <1>6, <1>9, <1>11, <1>12, <1>13, NextCases

\* A new call gets the next number, which nobody has yet; a failing one files
\* its own number.
LEMMA NumberedStep == TypeOK /\ Numbered /\ [Next]_vars => Numbered'
<1> SUFFICES ASSUME TypeOK, Numbered, [Next]_vars
             PROVE  Numbered'
  OBVIOUS
<1>1. CASE UNCHANGED vars
  BY <1>1 DEF Numbered, vars, errorVars
<1>2. ASSUME NEW t \in Threads,
             vireon_init(t) \/ InitEnter(t) \/ InitBuild(t) \/ InitDone(t)
      PROVE  Numbered'
  <2>1. UNCHANGED <<call, calls, lastError, lent>>
    BY <1>2 DEF vireon_init, InitEnter, InitBuild, InitDone, errorVars
  <2>2. \A u \in Threads : pc'[u] = "call" => pc[u] = "call"
    BY <1>2 DEF vireon_init, InitEnter, InitBuild, InitDone, TypeOK
  <2>3. QED
    BY <2>1, <2>2 DEF Numbered
<1>3. ASSUME NEW t \in Threads, vireon_last_error(t)
      PROVE  Numbered'
  BY <1>3 DEF vireon_last_error, Numbered, TypeOK
<1>4. ASSUME NEW t \in Threads, NEW op, NEW h, Begin(t, op, h),
             \A u \in Threads : u # t => pc'[u] = pc[u],
             UNCHANGED lastError
      PROVE  Numbered'
  <2>1. /\ calls' = calls + 1
        /\ call'[t].id = calls + 1 /\ lent'[t] = 0
        /\ \A u \in Threads : u # t => call'[u] = call[u] /\ lent'[u] = lent[u]
    BY <1>4 DEF Begin, TypeOK
  <2>2. \A u \in Threads : call[u].id \in 0..calls /\ lastError[u] \in 0..calls
    BY DEF TypeOK, Numbered
  <2>3. calls \in Nat
    BY DEF TypeOK
  <2>4. \A u \in Threads : /\ call'[u].id <= calls'
                           /\ pc'[u] = "call" => call'[u].id # 0 /\ lent'[u] = 0
    BY <1>4, <2>1, <2>2, <2>3 DEF Numbered
  <2>5. ASSUME NEW u \in Threads, NEW v \in Threads, u # v
        PROVE  /\ call'[u].id # 0 => call'[u].id # call'[v].id
               /\ lastError[u] # 0 => lastError[u] # lastError[v] /\ lastError[u] # call'[v].id
    BY <2>1, <2>2, <2>3, <2>5 DEF Numbered
  <2>6. QED
    BY <1>4, <2>4, <2>5 DEF Numbered
<1>5. ASSUME NEW t \in Threads, NEW op, NEW h, Blocking(t, op, h)
      PROVE  Numbered'
  BY <1>4, <1>5 DEF Blocking, TypeOK
<1>6. ASSUME NEW t \in Threads, NEW h \in Handles, NEW i \in Indices,
             vireon_pool_member(t, h, i)
      PROVE  Numbered'
  BY <1>4, <1>6 DEF vireon_pool_member, Succeed
<1>7. ASSUME NEW t \in Threads, NEW op, Back(t, op), Succeed(t) \/ Fail(t)
      PROVE  Numbered'
  <2>1. /\ pc[t] = "call"
        /\ \A u \in Threads : pc'[u] = "call" => pc[u] = "call"
        /\ UNCHANGED <<call, calls, lent>>
    BY <1>7 DEF Back, TypeOK
  <2>2. CASE Succeed(t)
    BY <2>1, <2>2 DEF Succeed, Numbered
  <2>3. CASE Fail(t)
    <3>1. lastError'[t] = call[t].id /\ \A u \in Threads : u # t => lastError'[u] = lastError[u]
      BY <2>3 DEF Fail, set_last_error, TypeOK
    <3>2. call[t].id # 0
      BY <2>1 DEF Numbered
    <3>3. ASSUME NEW u \in Threads, NEW v \in Threads, u # v, lastError'[u] # 0
          PROVE  lastError'[u] # lastError'[v] /\ lastError'[u] # call[v].id
      <4>1. CASE u = t
        BY <3>1, <3>2, <3>3, <4>1 DEF Numbered
      <4>2. CASE u # t
        BY <3>1, <3>2, <3>3, <4>2 DEF Numbered
      <4>3. QED
        BY <4>1, <4>2
    <3>4. QED
      BY <2>1, <3>3 DEF Numbered
  <2>4. QED
    BY <1>7, <2>2, <2>3
<1>8. ASSUME NEW t \in Threads,
             (\E type \in {"client", "pool"} : Connected(t, type)) \/ Published(t) \/ Closed(t)
      PROVE  Numbered'
  BY <1>7, <1>8 DEF Connected, Published, Closed
<1> QED
  BY <1>1, <1>2, <1>3, <1>5, <1>6, <1>8, NextCases
-----------------------------------------------------------------------------
(***************************************************************************)
(* The runtime.                                                            *)
(***************************************************************************)

\* A vireon_init that has returned has seen the runtime, and the cell is
\* taken as long as a thread builds it.
Started ==
    /\ inited => cell = "built"
    /\ \A t \in Threads : pc[t] = "building" => cell = "building"

\* get_or_init lets one thread build, and nobody returns before.
LEMMA RuntimeStep ==
    TypeOK /\ Started /\ RuntimeThere /\ [Next]_vars => Started' /\ RuntimeThere'
<1> SUFFICES ASSUME TypeOK, Started, RuntimeThere, [Next]_vars
             PROVE  Started' /\ RuntimeThere'
  OBVIOUS
<1> USE DEF Started, RuntimeThere
<1>1. ASSUME UNCHANGED <<cell, inited>>,
             \A u \in Threads : pc'[u] \in {"building", "call"} => pc'[u] = pc[u]
      PROVE  Started' /\ RuntimeThere'
  BY <1>1
<1>2. CASE UNCHANGED vars
  BY <1>1, <1>2 DEF vars, initVars
<1>3. ASSUME NEW t \in Threads, vireon_init(t) \/ vireon_last_error(t)
      PROVE  Started' /\ RuntimeThere'
  BY <1>1, <1>3 DEF vireon_init, vireon_last_error, initVars, TypeOK
<1>4. ASSUME NEW t \in Threads, InitEnter(t)
      PROVE  Started' /\ RuntimeThere'
  BY <1>4 DEF InitEnter, TypeOK
<1>5. ASSUME NEW t \in Threads, InitBuild(t)
      PROVE  Started' /\ RuntimeThere'
  <2>1. CASE UNCHANGED <<cell, inited, pc>>
    BY <2>1
  <2>2. CASE cell' = "built" /\ inited' = TRUE /\ pc' = [pc EXCEPT ![t] = "idle"]
    <3>1. \A u \in Threads : pc'[u] = IF u = t THEN "idle" ELSE pc[u]
      BY <2>2 DEF TypeOK
    <3>2. \A u \in Threads : pc[u] = "building" => u = t
      BY <1>5 DEF InitBuild
    <3>3. \A u \in Threads : pc'[u] # "building"
      BY <3>1, <3>2
    <3>4. QED
      BY <2>2, <3>3
  <2>3. QED
    BY <1>5, <2>1, <2>2 DEF InitBuild
<1>6. ASSUME NEW t \in Threads, InitDone(t)
      PROVE  Started' /\ RuntimeThere'
  BY <1>6 DEF InitDone, TypeOK
<1>7. ASSUME NEW t \in Threads, NEW op, NEW h, Blocking(t, op, h)
      PROVE  Started' /\ RuntimeThere'
  BY <1>7 DEF Blocking, Begin, initVars, TypeOK
<1>8. ASSUME NEW t \in Threads, NEW h \in Handles, NEW i \in Indices,
             vireon_pool_member(t, h, i)
      PROVE  Started' /\ RuntimeThere'
  BY <1>1, <1>8 DEF vireon_pool_member, initVars
<1>9. ASSUME NEW t \in Threads, NEW op, Back(t, op)
      PROVE  Started' /\ RuntimeThere'
  BY <1>1, <1>9 DEF Back, initVars, TypeOK
<1>10. ASSUME NEW t \in Threads,
              (\E type \in {"client", "pool"} : Connected(t, type)) \/ Published(t) \/ Closed(t)
       PROVE  Started' /\ RuntimeThere'
  BY <1>9, <1>10 DEF Connected, Published, Closed
<1> QED
  BY <1>2, <1>3, <1>4, <1>5, <1>6, <1>7, <1>8, <1>10, NextCases
-----------------------------------------------------------------------------
(***************************************************************************)
(* Handles.                                                                *)
(***************************************************************************)

\* A call that borrows or closes a handle keeps others from closing it, and
\* arc_to_handle gives out only free addresses.
LEMMA HandlesStep ==
    TypeOK /\ HandlesSound /\ Closing /\ [Next]_vars => HandlesSound' /\ Closing'
<1> SUFFICES ASSUME TypeOK, HandlesSound, Closing, [Next]_vars
             PROVE  HandlesSound' /\ Closing'
  OBVIOUS
<1>1. ASSUME \A u \in Threads : pc'[u] = "call" => pc[u] = "call" /\ call'[u] = call[u]
      PROVE  Closing'
  BY <1>1 DEF Closing
<1>2. ASSUME UNCHANGED <<arc, owned>>,
             \A u \in Threads : pc'[u] = "call" => pc[u] = "call" /\ call'[u] = call[u]
      PROVE  HandlesSound' /\ Closing'
  BY <1>1, <1>2 DEF HandlesSound
<1>3. ASSUME NEW m \in Handles, NEW type \in {"client", "pool"}, arc_to_handle(m, type),
             \A u \in Threads : pc'[u] = "call" => pc[u] = "call" /\ call'[u] = call[u]
      PROVE  HandlesSound' /\ Closing'
  <2>1. /\ arc[m] = "free" /\ owned[m] = 0
        /\ arc' = [arc EXCEPT ![m] = type] /\ owned' = [owned EXCEPT ![m] = @ + 1]
    BY <1>3 DEF arc_to_handle, HandlesSound
  <2>2. \A h \in Handles : owned'[h] = (IF arc'[h] = "free" THEN 0 ELSE 1)
    BY <2>1 DEF HandlesSound, TypeOK
  <2>3. \A h \in Handles : arc[h] # "free" => arc'[h] # "free"
    BY <2>1 DEF TypeOK
  <2>4. ASSUME NEW u \in Threads, pc'[u] = "call", call'[u].handle # Null
        PROVE  arc'[call'[u].handle] # "free"
    <3>1. pc[u] = "call" /\ call'[u] = call[u]
      BY <1>3, <2>4
    <3>2. call[u].handle \in Handles
      BY <2>4, <3>1 DEF TypeOK
    <3>3. QED
      BY <2>3, <2>4, <3>1, <3>2 DEF HandlesSound
  <2>5. QED
    BY <1>1, <1>3, <2>2, <2>4 DEF HandlesSound
<1>4. CASE UNCHANGED vars
  BY <1>2, <1>4 DEF vars, handleVars
<1>5. ASSUME NEW t \in Threads,
             \/ vireon_init(t) \/ InitEnter(t) \/ InitBuild(t) \/ InitDone(t)
             \/ vireon_last_error(t)
      PROVE  HandlesSound' /\ Closing'
  BY <1>2, <1>5 DEF vireon_init, InitEnter, InitBuild, InitDone, vireon_last_error,
                    handleVars, TypeOK
<1>6. ASSUME NEW t \in Threads, NEW op, NEW h \in Handles \cup {Null}, Blocking(t, op, h)
      PROVE  /\ pc'[t] = "call" /\ call'[t].op = op /\ call'[t].handle = h
             /\ \A u \in Threads : u # t => pc'[u] = pc[u] /\ call'[u] = call[u]
             /\ UNCHANGED <<arc, owned>>
             /\ pc[t] # "call"
  BY <1>6 DEF Blocking, Begin, handleVars, TypeOK
<1>7. ASSUME NEW t \in Threads, NEW op \in {"client", "pool"}, Blocking(t, op, Null)
      PROVE  HandlesSound' /\ Closing'
  BY <1>6, <1>7, CAbiAssumption DEF HandlesSound, Closing
<1>8. ASSUME NEW t \in Threads, NEW h \in Handles, MayUse(h), Blocking(t, "publish", h)
      PROVE  HandlesSound' /\ Closing'
  <2>1. owned[h] > 0 /\ arc[h] # "free"
    BY <1>8 DEF MayUse, HandlesSound
  <2>2. \A u \in Threads : pc[u] = "call" /\ call[u].handle = h => call[u].op # "close"
    BY <1>8 DEF MayUse, Using
  <2>3. HandlesSound'
    BY <1>6, <1>8, <2>1 DEF HandlesSound
  <2>4. Closing'
    BY <1>6, <1>8, <2>2 DEF Closing
  <2>5. QED
    BY <2>3, <2>4
<1>9. ASSUME NEW t \in Threads, NEW h \in Handles, MayClose(h), Blocking(t, "close", h)
      PROVE  HandlesSound' /\ Closing'
  <2>1. owned[h] > 0 /\ arc[h] # "free"
    BY <1>9 DEF MayClose, HandlesSound
  <2>2. \A u \in Threads : ~(pc[u] = "call" /\ call[u].handle = h)
    BY <1>9 DEF MayClose, Using
  <2>3. HandlesSound'
    BY <1>6, <1>9, <2>1 DEF HandlesSound
  <2>4. Closing'
    BY <1>6, <1>9, <2>2 DEF Closing
  <2>5. QED
    BY <2>3, <2>4
<1>10. ASSUME NEW t \in Threads, NEW h \in Handles, NEW i \in Indices,
              vireon_pool_member(t, h, i)
       PROVE  HandlesSound' /\ Closing'
  <2>1. \A u \in Threads : pc'[u] = "call" => pc[u] = "call" /\ call'[u] = call[u]
    BY <1>10 DEF vireon_pool_member, Begin, TypeOK
  <2>2. QED
    BY <1>2, <1>3, <1>10, <2>1 DEF vireon_pool_member, handleVars
<1>11. ASSUME NEW t \in Threads, NEW op, Back(t, op)
       PROVE  \A u \in Threads : pc'[u] = "call" => pc[u] = "call" /\ call'[u] = call[u] /\ u # t
  BY <1>11 DEF Back, TypeOK
<1>12. ASSUME NEW t \in Threads, NEW type \in {"client", "pool"}, Connected(t, type)
       PROVE  HandlesSound' /\ Closing'
  BY <1>2, <1>3, <1>11, <1>12 DEF Connected, handleVars
<1>13. ASSUME NEW t \in Threads, Published(t)
       PROVE  HandlesSound' /\ Closing'
  BY <1>2, <1>11, <1>13 DEF Published, handleVars
<1>14. ASSUME NEW t \in Threads, Closed(t)
       PROVE  HandlesSound' /\ Closing'
  <2>1. pc[t] = "call" /\ call[t].op = "close" /\ Back(t, "close")
    BY <1>14 DEF Closed, Back
  <2> DEFINE h == call[t].handle
  <2>2. h \in Handles
    BY <2>1 DEF Closing
  <2>3. owned[h] = 1
    BY <2>1, <2>2, CAbiAssumption DEF HandlesSound
  <2>4. arc' = [arc EXCEPT ![h] = "free"] /\ owned' = [owned EXCEPT ![h] = @ - 1]
    BY <1>14 DEF Closed, reclaim_handle
  <2>5. \A g \in Handles : owned'[g] = (IF arc'[g] = "free" THEN 0 ELSE 1)
    BY <2>2, <2>3, <2>4 DEF HandlesSound, TypeOK
  <2>6. ASSUME NEW u \in Threads, pc'[u] = "call", call'[u].handle # Null
        PROVE  arc'[call'[u].handle] # "free"
    <3>1. pc[u] = "call" /\ call'[u] = call[u] /\ u # t
      BY <1>11, <2>1, <2>6
    <3>2. call[u].handle \in Handles /\ call[u].handle # h
      BY <2>1, <2>6, <3>1 DEF Closing, TypeOK
    <3>3. QED
      BY <2>4, <2>6, <3>1, <3>2 DEF HandlesSound, TypeOK
  <2>7. QED
    BY <1>1, <1>11, <2>1, <2>5, <2>6 DEF HandlesSound
<1> QED
  BY <1>4, <1>5, <1>7, <1>8, <1>9, <1>10, <1>12, <1>13, <1>14, NextCases
-----------------------------------------------------------------------------
(***************************************************************************)
(* The last error.                                                         *)
(***************************************************************************)

\* A thread's message is replaced only by a failing call of that thread, and
\* no other thread's message has the number that is freed.
LEMMA ErrorStep == TypeOK /\ Numbered /\ ErrorKept /\ [Next]_vars => ErrorKept'
<1> SUFFICES ASSUME TypeOK, Numbered, ErrorKept, [Next]_vars
             PROVE  ErrorKept'
  OBVIOUS
<1>1. CASE UNCHANGED vars
  BY <1>1 DEF ErrorKept, vars, errorVars
<1>2. ASSUME NEW t \in Threads,
             vireon_init(t) \/ InitEnter(t) \/ InitBuild(t) \/ InitDone(t)
      PROVE  ErrorKept'
  <2>1. UNCHANGED <<call, lastError, strings, lent, failed>>
    BY <1>2 DEF vireon_init, InitEnter, InitBuild, InitDone, errorVars
  <2>2. \A u \in Threads : pc'[u] # "call" => pc[u] # "call"
    BY <1>2 DEF vireon_init, InitEnter, InitBuild, InitDone, TypeOK
  <2>3. QED
    BY <2>1, <2>2 DEF ErrorKept
<1>3. ASSUME NEW t \in Threads, vireon_last_error(t)
      PROVE  ErrorKept'
  <2>1. UNCHANGED <<pc, call, lastError, strings, failed>>
    BY <1>3 DEF vireon_last_error
  <2>2. lent'[t] = lastError[t] /\ \A u \in Threads : u # t => lent'[u] = lent[u]
    BY <1>3 DEF vireon_last_error, last_error_ptr, TypeOK
  <2>3. lastError[t] # 0 => lastError[t] \in strings
    BY DEF ErrorKept
  <2>4. QED
    BY <2>1, <2>2, <2>3 DEF ErrorKept
<1>4. ASSUME NEW t \in Threads, NEW op \in Ops, NEW h, Begin(t, op, h),
             UNCHANGED <<lastError, strings>>,
             \A u \in Threads : u # t => /\ pc'[u] = pc[u]
                                         /\ u \in failed' => u \in failed,
             pc'[t] = "call" \/ op = "member"
      PROVE  ErrorKept'
  <2>1. /\ call'[t].op = op /\ lent'[t] = 0
        /\ \A u \in Threads : u # t => call'[u] = call[u] /\ lent'[u] = lent[u]
    BY <1>4 DEF Begin, TypeOK
  <2>2. QED
    BY <1>4, <2>1 DEF ErrorKept
<1>5. ASSUME NEW t \in Threads, NEW op \in Ops, NEW h, Blocking(t, op, h)
      PROVE  ErrorKept'
  BY <1>4, <1>5 DEF Blocking, TypeOK
<1>6. ASSUME NEW t \in Threads, NEW h \in Handles, NEW i \in Indices,
             vireon_pool_member(t, h, i)
      PROVE  ErrorKept'
  BY <1>4, <1>6 DEF vireon_pool_member, Succeed, Ops
<1>7. ASSUME NEW t \in Threads, NEW op, Back(t, op), Succeed(t) \/ Fail(t)
      PROVE  ErrorKept'
  <2>1. /\ pc[t] = "call" /\ \A u \in Threads : u # t => pc'[u] = pc[u]
        /\ UNCHANGED <<call, lent>>
        /\ lent[t] = 0 /\ call[t].id # 0
    BY <1>7 DEF Back, TypeOK, Numbered
  <2>2. CASE Succeed(t)
    BY <2>1, <2>2 DEF Succeed, ErrorKept
  <2>3. CASE Fail(t)
    <3>1. /\ lastError'[t] = call[t].id
          /\ \A u \in Threads : u # t => lastError'[u] = lastError[u]
          /\ strings' = (strings \ {lastError[t]}) \cup {call[t].id}
          /\ failed' = failed \cup {t}
      BY <2>3 DEF Fail, set_last_error, TypeOK
    <3>2. \A u \in Threads : u # t /\ lastError[u] # 0 => lastError[u] # lastError[t]
      BY DEF Numbered
    <3>3. ASSUME NEW u \in Threads
          PROVE  /\ lent'[u] # 0 => lent'[u] \in strings' /\ lent'[u] = lastError'[u]
                 /\ u \in failed' /\ pc'[u] # "call" /\ call'[u].op # "member" =>
                       lastError'[u] = call'[u].id
      BY <2>1, <3>1, <3>2 DEF ErrorKept
    <3>4. ASSUME NEW e
          PROVE  e \in strings' <=> e \in {lastError'[u] : u \in Threads} \ {0}
      <4>1. e \in strings' <=> e = call[t].id \/ (e \in strings /\ e # lastError[t])
        BY <3>1
      <4>2. e \in strings <=> e # 0 /\ \E u \in Threads : e = lastError[u]
        BY DEF ErrorKept
      <4>3. e \in strings' => e # 0 /\ \E u \in Threads : e = lastError'[u]
        BY <2>1, <3>1, <4>1, <4>2
      <4>4. ASSUME NEW u \in Threads, e = lastError'[u], e # 0
            PROVE  e \in strings'
        BY <3>1, <3>2, <4>1, <4>2, <4>4
      <4>5. QED
        BY <4>3, <4>4
    <3>5. QED
      BY <3>3, <3>4 DEF ErrorKept
  <2>4. QED
    BY <1>7, <2>2, <2>3
<1>8. ASSUME NEW t \in Threads,
             (\E type \in {"client", "pool"} : Connected(t, type)) \/ Published(t) \/ Closed(t)
      PROVE  ErrorKept'
  BY <1>7, <1>8 DEF Connected, Published, Closed
<1> QED
  BY <1>1, <1>2, <1>3, <1>5, <1>6, <1>8, NextCases DEF Ops
-----------------------------------------------------------------------------
(***************************************************************************)
(* The theorems.                                                           *)
(***************************************************************************)
IInv == /\ TypeOK /\ Numbered /\ Closing /\ Started
        /\ RuntimeThere /\ HandlesSound /\ ErrorKept

\* The process starts with an empty cell, no handle and no message.
LEMMA InitIInv == Init => IInv
<1> SUFFICES ASSUME Init
             PROVE  IInv
  OBVIOUS
<1> USE CAbiAssumption DEF Init
<1>1. TypeOK
  <2>1. call \in [Threads -> [op : Ops, handle : Handles \cup {Null}, id : 0..MaxCalls]]
    BY DEF Ops
  <2>2. lastError \in [Threads -> 0..calls] /\ lent \in [Threads -> 0..calls]
    OBVIOUS
  <2>3. calls \in 0..MaxCalls /\ strings \subseteq 1..calls /\ failed \subseteq Threads
    OBVIOUS
  <2>4. QED
    BY <2>1, <2>2, <2>3 DEF TypeOK
<1>2. Numbered /\ Closing /\ Started
  BY DEF Numbered, Closing, Started
<1>3. RuntimeThere /\ HandlesSound /\ ErrorKept
  BY DEF RuntimeThere, HandlesSound, ErrorKept
<1>4. QED
  BY <1>1, <1>2, <1>3 DEF IInv

\* Whatever the threads call and in whatever order their calls return, the
\* combined invariant holds.
LEMMA Inductive == Spec => []IInv
<1>1. IInv /\ [Next]_vars => IInv'
  BY TypeStep, NumberedStep, RuntimeStep, HandlesStep, ErrorStep DEF IInv
<1>2. QED
  BY InitIInv, <1>1, PTL DEF Spec

\* The runtime cell, the handles, the calls in progress and the messages keep
\* their types for any number of threads, addresses and calls.
THEOREM TypeCorrect == Spec => []TypeOK
<1>1. IInv => TypeOK
  BY DEF IInv
<1>2. QED
  BY Inductive, <1>1, PTL

\* get_runtime() never meets an empty cell in a call that starts after some
\* vireon_init returned, and one thread at most builds the runtime, however
\* many threads start at once.
THEOREM RuntimeCorrect == Spec => []RuntimeThere
<1>1. IInv => RuntimeThere
  BY DEF IInv
<1>2. QED
  BY Inductive, <1>1, PTL

\* arc_to_handle and reclaim_handle keep one owner per live Arc, pool members
\* included, and no close frees what another thread's call has borrowed, as
\* long as the callers keep the contract of handle.rs.
THEOREM HandlesCorrect == Spec => []HandlesSound
<1>1. IInv => HandlesSound
  BY DEF IInv
<1>2. QED
  BY Inductive, <1>1, PTL

\* The thread-local last error is that of the thread's own failed call, the
\* pointer lent by vireon_last_error stays valid until the thread's next call,
\* and set_last_error frees exactly the message it replaces.
THEOREM ErrorCorrect == Spec => []ErrorKept
<1>1. IInv => ErrorKept
  BY DEF IInv
<1>2. QED
  BY Inductive, <1>1, PTL
=============================================================================
