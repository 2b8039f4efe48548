# A TLA+ model of the Vireon PHP binding

The repository is a PHP binding for the Vireon publish/subscribe runtime: a Rust
library with a C ABI (`src/*.rs`) that bridges the asynchronous SDK to blocking calls, and
a PHP file (`php/VireonSdk.php`) that wraps the C functions in classes. This directory
holds TLA+ modules for the parts that carry the logic, TLC configurations that check them on
small instances, and TLAPS proofs for every size of instance.

Paths below are relative to the repository. `PROJECT.json` maps every definition to the
lines it models.

## The system

| Component | State | Operations | Interacts with |
|---|---|---|---|
| receiving handles, `src/subscription.rs`, `src/stream.rs` | `Arc<Mutex<Option<T>>>` per handle: the lock, the slot, the SDK's channel behind it | `recv`, `recv_batch`, `close`; for streams also `publish`, `try_publish`, `stream_id`, `pending_bytes` | calling threads (one `block_on` each), the SDK's tasks |
| handles, `src/handle.rs` | the Arc behind an `isize` | `arc_to_handle`, `handle_to_ref`, `reclaim_handle` | every other component |
| errors, `src/error.rs` | one `LAST_ERROR` per thread, never cleared | `set_last_error`, `last_error_ptr` | every failing call, PHP's `checkError` and `checkHandle` |
| runtime, `src/runtime.rs`, `src/lib.rs` | the global multi-threaded tokio runtime | `vireon_init` | `block_on` of every call |
| client and pool, `src/client.rs`, `src/pool.rs` | an SDK `Client` or `ClientPool` | publish, subscribe, streams, groups, rpc, migrate, close, members | the SDK |
| message memory, `src/message.rs` | topic, payload and array allocations | `sdk_msg_to_c`, `vireon_msg_free`, `vireon_batch_free` | `recv`, `recv_batch`, `rpc` and their PHP callers |
| settings, `src/builder.rs`, `src/config.rs`, `src/string_h.rs` | none (pure conversions) | `vireon_connect`, `vireon_pool_connect` | the PHP builder |
| PHP wrapper, `php/VireonSdk.php` | one `$handle` per object, the builder's fields, `$initialized` | methods, `__destruct`, the fluent builder | the C ABI |
| examples, `examples/*.php` | a temporary file shared by a parent and its drain children | fork, drain, publish, poll, kill | two or more PHP processes |

The hard behaviours:

- **Locking across awaits.** A receiving call keeps the mutex guard while it waits for a
  message. Threads that share a handle queue behind it, on a stream also those that only
  want to publish. A batch is put together by one awaited `recv` and a loop of `try_recv`.
- **Ending.** When one call sees `None` it empties the slot for every later caller.
- **Ownership.** A handle is a raw address. Rust neither counts its users nor checks it; the
  PHP objects have to own each Arc exactly once, through exceptions and destructors that can
  run twice, and the allocator reuses addresses.
- **Errors.** The return code says that a call failed, a thread-local says why, and nothing
  clears it.
- **Native memory.** Rust allocates messages, PHP copies them and has to free them.
- **Representations.** Settings cross two languages as 14 positional arguments.
- **Fork.** The examples coordinate processes over a file, signals and deadlines.

What makes each part correct: receivers deliver every message once and in order and end
exactly when there is nothing left; handles are owned once; exceptions belong to the failing
call, in every thread; memory is balanced when a method returns and survives any order of frees;
settings arrive as asked; the examples' verdicts are justified and their parents finish.

## Modules

| Module | Models | Kind |
|---|---|---|
| `Inbox` | what a receiving handle promises | abstract specification |
| `Receiver` | one receiving handle shared by any number of threads | detailed specification, implements `Inbox` |
| `ReceiverProofs` | theorems about `Receiver` | TLAPS |
| `MCReceiver` | instances of `Receiver` | TLC |
| `PhpSession` | one PHP process: objects, handles, last error, native messages | specification |
| `MCPhpSession` | instances of `PhpSession` | TLC |
| `PhpSessionProofs` | theorems about `PhpSession` | TLAPS |
| `Builder` | the conversions of settings and of stream arguments | specification |
| `MCBuilder` | instances of `Builder` | TLC |
| `BuilderProofs` | theorems about `Builder` | TLAPS |
| `Drain` | the five fork-based examples: parent, drain children, files, signals | specification |
| `MCDrain` | instances of `Drain` | TLC |
| `Sums` | sums over finite sets | TLAPS |
| `DrainProofs` | theorems about `Drain` | TLAPS |
| `CAbi` | several threads on the C ABI: runtime, errors, clients, pools and members | specification |
| `MCCAbi` | instances of `CAbi` | TLC |
| `CAbiProofs` | theorems about `CAbi` | TLAPS |
| `MessageMemory` | the out structs of the C ABI and their blocks | specification |
| `MCMessageMemory` | instance of `MessageMemory` | TLC |
| `MessageMemoryProofs` | theorems about `MessageMemory` | TLAPS |

### Receiver

`kind` says which of the three types is behind the handle; the code of the three is the same
but for the type. `slot` is the `Option`, `holder` and `waitq` are the tokio mutex, which
serves waiters first come, first served. A call of thread `t` is in `pc[t]`: `"idle"`, `"wait"`
(queued in `inner.lock().await`), `"held"` (the async block runs with the guard), `"ret"` (the
guard is dropped, the result is being converted). The entry points (`vireon_sub_recv`,
...) queue the thread; `Lock`, `RecvFirst`, `TryRecv`, `RecvEnd`, ... are the steps of the async
block between two awaits or two calls of the SDK; `Return` converts and returns. Closing obeys
the safety comment of `reclaim_handle`: no call is in progress.

The SDK is external: `Deliver` appends a message to the buffer, `End` closes it, `Transmit` sends
published bytes. A message is its arrival number. `got`, `batch` and `eof` record what was handed
to whom. `RecvFirst` and `RecvEnd` are the two ends of `recv().await`; waiting is that neither is
enabled.

`Inbox` has no locks, no slots and no calls: messages are appended, runs of 1..`MaxBatch` are taken
at one instant, and "closed" is told only when nothing is left and nothing can come. In the
refinement a batch in the making still counts as queued (`Taking \o buffer`), and what a thread
got includes the batch it is about to return.

### PhpSession

A method call has a native half (`vireon_...`) and a PHP half (`checkError`, `checkHandle`, `recv`,
`recvBatch`, `rpc`); `php` says which comes next and `ret` is what crossed the boundary. `arc[h]` is
the type of the live Arc at address `h`; any free address can be given out again. `object[o]`
is the object in variable `o` with its `$handle`. Destructors run when a script calls
`__destruct()` itself (`ExplicitDestruct`) and when the last reference goes (`Release`); the
failure of the SDK's `close()` in a destructor sets `lastError`, and nobody looks. `heap` is the
set of native blocks that have not been freed, `ret.out` the pointers in the out struct. Each
failure carries the number of its call, so that a stale message can be told from a fresh one.
`Clone` is a step only of `CloneSpec`.

### Builder

`php` holds the fields of the builder, `ffiArgs` is the tuple of positional arguments after the
conversion to C, `build_sdk_builder` reads it by position. `asked` records what the script last
asked of each setter; a connect stores it next to what the SDK got. Integers are cut to `I32Mod`
and `U64Mod`. Floats are classes: NaN, negative, zero, `"subnano"` (positive, but 0 ns once rounded),
`"tiny"` (below 0.001), ordinary, `"huge"` (finite, but 2^64 seconds and more) and infinite.
`Duration` and `Panics` are the two outcomes of `Duration::from_secs_f64`; an idle time that rounds to 0 ns
reaches the SDK as a zero `Duration`, for `> 0.0` lets it pass. An identity of empty strings is an identity.
A connect that panics ends in `"aborted"`. Whether the SDK can reach the server is the business of
`PhpSession`; here `sdk` is what the SDK was given. `request` is the last `openStream` or
`rpc`; the timeout of an rpc is converted like a backoff.

### Drain

The five scripts share one protocol and one module; `script` says which one runs, and the operators
`IsReady`, `StopsAtN`, `Tries`, `Catches`, `Targets`, ... say where they differ.
A child is in `kid[k].pc`; `file_put_contents` is two steps (`Put` truncates, `ChildWrite` writes), and
`Die` can fall between them. A child also exits when its connect fails or its subscription ends
(`End`). The parent is in `ppc`: fork, wait, connect, publish, poll, collect, reap; its scans over
the files are one read per step (`at`). `"died"` is an uncaught exception. `Arrivals` is
the transport, which may pass on, lose, repeat or reorder a message; `credit` is the flow control
window, `Refill` a window update that is processed, `Lose` a connection that breaks for good. `log[k]` records
what child `k` received. `late` is `time() >= $deadline` of the loop the parent is in.

### CAbi

`PhpSession` has one thread; C callers may have many. `cell` is the `OnceCell` of `src/runtime.rs`:
the first thread builds, the others wait, and a failed `expect` aborts. Calls that block are two
steps (`Blocking`, then `Connected`, `Published` or `Closed`), so that other threads act while one is in
`block_on`. `MayUse` and `MayClose` are the contract in the safety comments of `src/handle.rs`. An error
message is the number of the call that failed; `strings` are the allocated `CString`s, `lent[t]` is
the pointer that thread `t` got from `vireon_last_error` and may use until its next call.

### MessageMemory

One `VireonMessage`, one `VireonMsgBatch` with its array, and the allocated addresses. The caller
frees in any order and as often as it likes; `Cleared` and `FreedBy` are the two effects of
`vireon_msg_free` on a struct and on the heap.

## Runs

| Run | Checks | Bounds |
|---|---|---|
| `receiver_safety` | `TypeOK`, `LockInv`, `ExactlyOnce`, `BatchBounded`, `EndIsFinal` | 3 threads (symmetric), 3 messages, batches of at most 2, `max_count` in {-1, 0, 1, 5}, all three kinds |
| `receiver_refines` | `RefinesInbox`, `CallsReturnOnceEnded` | 2 threads, otherwise the same |
| `try_publish_waits` | violates `FireAndForget` | 2 threads, one message |
| `session_safety` | `TypeOK`, `OwnedOnce`, `ErrorIsOwn`, `MessagesFreed`, `NullIsFinal` | 3 addresses, 3 variables (symmetric), 6 native calls and any closes, batches of at most 2 |
| `clone_dangles` | violates `HandlesLive` | the same with 4 calls and `CloneSpec` |
| `batch_array` | violates `ArrayFreedAsAllocated` | 4 calls |
| `builder_settings` | `TypeOK`, `SettingsArrive`, `ReconnectAsAsked`, `AbortsOnlyOnOversized`, `RequestsArrive` | 2 setter calls, any number of connects, streams and rpcs; 4-bit `int`, 6-bit `uint64_t`; topics "", "0" and another; floats NaN, negative, subnano, ordinary, huge |
| `drain_safety` | `TypeOK`, `ReportsTruthful`, `VerdictSound`, `FailJustified`, `CleanEnd`, `PollSeesAll`, `VerdictKept` | all five scripts; one child: 4 messages, a report every 2; two children: 2 messages, a light publish before every heavy one but the first, 1 repetition; window of 1 |
| `drain_live` | `ParentFinishes`, `ReadyIsSeen` | all but `hol_congestion`; 2 messages, with two children 1 |
| `pool_verdict` | violates `CleanupKeepsVerdict` | `pool_multiplex`; 2 messages |
| `abi_safety` | `TypeOK`, `RuntimeThere`, `HandlesSound`, `ErrorKept` | 2 threads and 3 addresses (symmetric), 6 calls, indices -1, 0 and 1 of a pool of 1 |
| `message_memory` | `TypeOK`, `HeapOwned` | 7 addresses, batches of at most 2 |

Why the bounds are enough. Three threads are one that holds the guard, one first in the queue
and one behind it; three messages and batches of two let a batch be full, cut short by an empty
buffer, and followed by another thread's message. The four values of `max_count` are one
for each branch of the clamp. Six native calls are the shortest script that opens, drains,
closes and reopens a subscription at the same address and receives on it. Two setter
calls are a setting and its replacement, or two settings that could disturb each other. Of the floats,
infinite takes the same branches as huge, zero the same as negative, and tiny those of subnano but for
the rounding; the proofs cover them all. Four messages
with a report every two are two reports and the last count, which repeats the second (as 1000 and
500 are multiples of 50); they leave room for a loss that a repetition makes up for. Two children
are enough for a sum of counts read at different times, and a window of one is used up
at every publish. Six calls of two threads are a pool, a member, a call on each of them and both
closes. Seven addresses hold a message and a batch of two at once, so that every address that
was freed can be in use again, five of them by a batch. The
invariants are proved for every bound (below).

Each property of a passing run has a mutant in `PROJECT.json`: an operator next to the definition it
replaces, with a plausible bug, under which TLC finds the property violated.

### What the runs show

The passing runs found nothing wrong. `ExactlyOnce` and `RefinesInbox` say that sharing a handle
between threads is safe for the messages; `CallsReturnOnceEnded` that nobody stays behind when
the SDK ends a stream, which needs the mutex to be fair (the mutant with an unfair mutex starves a
caller). `OwnedOnce` and `MessagesFreed` say that the wrapper leaks nothing on error paths, and
`ErrorIsOwn` that every error path that PHP can take sets the last error. `VerdictSound` says that the
examples never print PASS without cause: `ordering` cannot mistake a loss and a repetition for
complete delivery, and the sum of `consumer_group` is never more than what was received, for every count
only grows. For `pool_multiplex` and `consumer_group` PASS is about numbers only: a loss that a repetition makes up
for passes there. `FailJustified` is the other side for `ordering`: with all messages counted, it prints FAIL only
when two neighbours were out of order. `PollSeesAll` covers `bench`, too, which has no verdict but takes its
time when polling stops: stopping early means that all is there. `VerdictKept` says that killing and reaping
do not change a PASS; it leaves out `pool_multiplex`, for which `pool_verdict` shows the opposite, and the mutant in
which all scripts read once more after the kill fails in the same way. `CleanEnd` needs `pcntl_waitpid` before `unlink`: the mutant with `WNOHANG` leaves files
behind. `ParentFinishes` leaves three places where a parent may stay for good, which `Hopeless` names:
waiting without a deadline for a child that is gone, trying again on a connection that is gone, and
publishing into a window that stays used up.
`ErrorKept` says that a lent message is safe from other threads, `HandlesSound` that a member survives its
pool, `HeapOwned` that nulling the pointers makes every order of frees safe.

Four runs show where the code departs from what a comment or the documentation says:

- `try_publish_waits`: a stream's `try_publish` is called fire-and-forget (`src/stream.rs:126`) but
  waits for the mutex as long as another thread's `recv` waits for a message.
- `batch_array`: the array of a batch is handed back with capacity `count` (`src/message.rs:113`). The
  array was collected out of a vector with capacity `max`, whose allocation the standard library
  reuses when the new elements are not larger; `VireonMessage` has 40 bytes, and the SDK's
  message, with two owned byte strings and two 64-bit numbers, at least 48.
- `clone_dangles`: PHP's `clone` copies the handle, and two destructors reclaim it.
- `pool_verdict`: the child of `pool_multiplex` writes N twice. The parent sees the first, kills the
  child while the file is truncated for the second, reads the file again and reports 0.

Departures that the models show without a run of their own, as exceptions which the passing
properties name:

- `rpc` never returns the 1 documented for a time-out (`src/client.rs:180`). `ErrorIsOwn` would fail if it
  did: `checkError(1)` does not throw, and PHP's `rpc` would return an empty message.
- A float that is infinite or too many seconds for a `Duration` (2^64 and more), as a setting or as the
  timeout of an `rpc`, panics inside `extern "C"` and aborts the process; `AbortsOnlyOnOversized` says that no
  other float does.
- `$topic ?: null` drops the topic `'0'` of a stream (`RequestsArrive`).
- `vireon_pool_member` returns 0 for a bad index without a message (`src/pool.rs:26`, `ErrorKept`).
- `vireon_init` has no path that returns the documented -1 (`src/lib.rs:23`); a runtime that cannot be
  built aborts (`InitBuild`).
- The parent of `bench` waits for the word `ready`, which a child whose subscription has ended
  replaces by its count (`ReadyIsSeen`).
- A publisher that cannot connect leaves its children running (`"died"` in `Drain`), although
  `README.md:66` says that the parent kills them; `CleanEnd` is about the regular end.
- `README.md:134` and `examples/bench.php:66` warn that `tryPublish` never gets its window back in a forked
  publisher, and yet `ordering`, `pool_multiplex` and `hol_congestion` publish with it, trying again without a
  deadline. Whether the window comes back is up to the SDK: `Refill` may happen or not, and a parent whose
  window stays used up is one of the exceptions of `ParentFinishes`.

### Fairness

`FairSpec` of `Receiver` assumes weak fairness of each thread's own steps inside a call
(`Progress(t)`: the calling thread polls its own future in `block_on`, and the mutex wakes the first
waiter) and of `Transmit` (the multi-threaded runtime of `src/runtime.rs` drives the transport
without anybody calling, and the `publish` that waits for it is itself in `block_on`). Nobody has to call, deliver or end: `CallsReturnOnceEnded` is conditional on
`ended`, and a `recv` without messages may wait forever. The SDK's own errors (`PublishError`) are
not assumed to happen.

`FairSpec` of `Drain` assumes that every process runs (`Parent`, each `Child(k)`), that the clock reaches a
deadline (`Tick`), and that a signal sent is delivered (`Die`). Nothing is assumed of the server and the
transport: no message has to arrive, no subscription has to end, no window update has to be processed.
`hol_congestion` is left out of the liveness run: whether its repeated light publishes leave
the heavy one a place in the window is a matter of rates, and `MaxRetries` cuts them off.

Deadlock is checked in every run. A reclaimed handle, a finished script and an aborted process
stutter explicitly, and so does a parent that has ended.

## Proofs

Every invariant and action property that a passing run checks, and the refinement, is also a theorem, for
every value of the constants:

| Module | Theorems | Any number or value of |
|---|---|---|
| `ReceiverProofs` | `TypeCorrect`, `LockCorrect` (`LockInv`), `ExactlyOnceCorrect`, `BatchCorrect` (`BatchBounded`), `EndCorrect` (`EndIsFinal`), `ReceiverRefinesInbox` | threads, messages, batch capacity, `max_count` |
| `CAbiProofs` | `TypeCorrect`, `RuntimeCorrect` (`RuntimeThere`), `HandlesCorrect` (`HandlesSound`), `ErrorCorrect` (`ErrorKept`) | threads, addresses, calls, size of a pool |
| `MessageMemoryProofs` | `TypeCorrect`, `HeapCorrect` (`HeapOwned`) | addresses, messages in a batch |
| `PhpSessionProofs` | `TypeCorrect`, `OwnershipCorrect` (`OwnedOnce`), `ErrorCorrect` (`ErrorIsOwn`), `MessagesCorrect` (`MessagesFreed`), `NullCorrect` (`NullIsFinal`) | handles, objects, calls, messages in a batch |
| `BuilderProofs` | `TypeCorrect`, `SettingsCorrect` (`SettingsArrive`), `ReconnectCorrect` (`ReconnectAsAsked`), `AbortsCorrect` (`AbortsOnlyOnOversized`), `RequestsCorrect` (`RequestsArrive`) | setter calls, strings, integer widths (a C `int` of more than 8 values) |
| `DrainProofs` | `TypeCorrect`, `ReportsCorrect` (`ReportsTruthful`), `VerdictCorrect` (`VerdictSound`), `FailCorrect` (`FailJustified`), `CleanCorrect` (`CleanEnd`), `PollCorrect` (`PollSeesAll`), `VerdictKeptCorrect` (`VerdictKept`) | children, messages, reports, retries, window |

### Assumptions

Each module names its own, and TLC evaluates them on every run. They say that `Null` and `NoThread`
are not addresses or threads, that capacities, sizes and numbers of messages are positive, and:

- `ReceiverAssumption`: the `max_count` values fit a `usize`, in which a negative one is larger than
  `BatchCap`.
- `CAbiAssumption`: the same of the indices of a pool's members and its size.
- `BuilderAssumption`: PHP's integers are signed and as wide as `uint64_t`, and `int` is no wider.
- `DrainAssumption`: `hol_congestion` has a heavy stream and at least one light one.

### Receiver

`NextCases` groups the steps by what they do to the guard: enter, lock, take a message,
finish, return. `LockInv` is inductive over `TypeOK`: the thread at `"held"` is the holder, the
threads at `"wait"` are exactly the queue, without repetition. `ExactlyOnce` is inductive over `TypeOK`
because its parts describe the buffer and what was handed out together: the buffer holds the
arrivals after `Taken`, the threads hold 1..`Taken`, each number once. Only two kinds of step
matter, an arrival (`ArrivalStep`) and moving the head of the buffer to a thread (`HandOutStep`); in
all others `HandedFrame` applies. `BatchBounded` and `EndIsFinal` need each other and the lock: a call
that finds the slot empty has taken nothing, because whoever emptied it held the guard and saw
an empty buffer (`CallStep`). The refinement (`RefineStep`) maps arrivals to `Send`, the end to `Shut`,
`BatchDone` to `Take`, both reports of the end to `TellClosed`, and everything else to a stutter; `MoveHead`
and `CutConcat` are the two facts about sequences it needs.

### CAbi

Three things the properties do not say are needed. `Numbered`: no two threads' calls and no two
threads' messages share a number, and nothing is lent to a thread in a call; without it one thread's
`set_last_error` could free another's message. `Closing`: who closes a handle is alone with it, also
while the close waits in `block_on`. `Started`: after some `vireon_init` has come back the cell is
built, and while a thread builds it is marked so. `TypeOK` itself rests on the first two: a
close takes away an owner, and a message is filed under the number of a call that was made.

### MessageMemory

`HeapOwned` is almost inductive; `ArrayCounted` adds that a batch without an array has count 0, which is
what `vireon_batch_free` tests before it looks into the array. One lemma per action; `BatchApart` says
that the message and the batch share no block, so that freeing one leaves the other.

### PhpSession

The invariant says what is known between the two halves of a method. `Resting`: while script code
runs, no result is pending. `Outcome`: the PHP half takes a result for a failure (a negative code, the
handle 0) exactly when the native half has failed, and then the last error is that of this call; this is
what `ErrorIsOwn` comes from, and where a documented `rpc` result of 1 would break it. `Made`: a handle
that is on its way to `checkHandle` is a live Arc. `Freeable`: what the PHP half will free is all that
the pending out struct points to. `Ended`: an object that was told null, or is about to be, has an
empty slot behind its handle. `NextCases` reduces the functions of the C ABI to the eight shapes that they have.

### Builder

`Recorded` says that the PHP fields are what the setters were last asked for, and that reconnecting is
enabled exactly when attempts are positive. The rest is arithmetic: `I32Conversion` and `U64Conversion` say
which integers a cast to `int` and `uint64_t` keeps, `SmallI32` that the enumerations are among them,
`OnlyOversizedPanics` which floats `Duration::from_secs_f64` refuses after the guards of `build_reconnect`, and
`Arguments` which position each argument has. The proof needed an assumption that the model had
left out: PHP's integers are signed 64-bit numbers. A number that PHP cannot hold would be cut to
another one by the conversion to `uint64_t`.

### Drain

- `Counted(k)`: the child's counter is the length of its log, and in `ordering` its `$gaps`, `$dup` and
  `$lastSeq` are those of the log. This is the loop invariant of the child; `OneMore` shows that
  comparing with `$lastSeq` counts exactly the new pair of neighbours.
- `Reported(k)`: the text being written, the text in the file and the text last read are each true of a
  prefix of the log. The text being written is what `ReportsTruthful` leaves out and the invariant needs.
  All steps but `ChildRecv` are `Quiet`: they copy texts, or write one from what is counted; `ChildRecv`
  only appends to the log (`PrefixKept`).
- `Swept`: while the parent collects, the children before `at` have exited and their files are gone. An
  exited child writes no file (`ExitedStays`).
- `Unread`: `hol_congestion` never polls, and it has read nothing of the children it has not yet killed.

`VerdictSound` follows from the first two at the end: what was counted was received (`CountReceived`); a
child of `ordering` stops at N, so that N messages without gap and repetition are the whole log
(`OrderingSound`); and the sum over the group is no larger than what the members received
(`TotalReceived`, `GroupSound`). The last is an induction over the members, in `Sums`: the fold is a fixed point of its
recursion (`SumUnfolds`, `SumExists`), and a smallest set on which the sums were in the wrong order
cannot exist (`SumMonotone`). The least number principle (`LeastNumber`) stands in for induction, as
the provers cannot instantiate the induction rules of the library.

`FailJustified` is the converse of `OrderingSound` (`NextNothing`). `PollSeesAll` applies `TotalReceived` to the
counts after the read: one was replaced, and the new one is as true as the old. For `VerdictKept` the only
steps that could change what a verdict is computed from are `Kill` in `hol_congestion` and `Reap` in `bench` and
`pool_multiplex`; `bench` has no PASS, and by `Unread` there is none in `hol_congestion` before its last
child was read.

The inductive invariants of `PhpSession` and `Drain` were checked with TLC on the instances of
`session_safety` and `drain_safety` before they were proved.

### Only model-checked

- `CallsReturnOnceEnded`, `ParentFinishes` and `ReadyIsSeen`: liveness under fairness is out of the
  prover's reach.
- That nothing deadlocks, which is a statement about `ENABLED`.
- The four violations, which are about one behaviour each.

## Not modelled

- What the SDK and the server do beyond what the binding sees of them; so also what a member's
  clone shares with its pool inside the SDK.
- Bytes of topics and payloads, wording of errors, lossy UTF-8 and embedded NUL bytes, and the null
  pointer that PHP passes for an empty payload.
- Calls on an object after an explicit `__destruct()`: the guard of `Native` excludes them; the code
  would dereference a null pointer.
- C callers that break the contract of `src/handle.rs`.
- Fork after `vireon_init`: every example forks first.
- A composition of `PhpSession` with `Receiver`: PHP has one thread, so a handle's calls never overlap,
  and what `Receiver` adds (the lock, the queue) cannot be seen there. The end of a subscription that
  outlives its client is `End` in `Receiver` and `RecvNone` in `PhpSession`.
- The figures that the examples print, and rates.
- The build files; `examples/quickstart.php`, a straight line of calls.

## Plan

Done: `Inbox`, `Receiver`, `PhpSession`, `Builder`, `Drain`, `CAbi` and `MessageMemory` with their runs, and a
theorem for every invariant and action property of a passing run and for the refinement.

Left: liveness of `hol_congestion`, which needs an assumption about rates that the code does not give, and
the liveness properties as theorems, which need a prover for fairness.
