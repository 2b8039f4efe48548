------------------------------- MODULE Drain --------------------------------
(***************************************************************************)
(* The fork-based examples: a parent that publishes and drain children     *)
(* that receive, each child reporting through a temporary file that the    *)
(* parent polls.  The five scripts share one protocol; the operators       *)
(* below Scripts say where they differ.  file_put_contents opens the file  *)
(* with truncation and then writes, so it is two steps, and SIGTERM may    *)
(* fall between them.                                                      *)
(***************************************************************************)
EXTENDS Integers, Sequences, FiniteSets, SequencesExt

CONSTANTS Scripts,       \* the scripts to run
          NumConsumers,  \* NUM_CONSUMERS of consumer_group.php
          NumStreams,    \* NUM_STREAMS of hol_congestion.php
          Messages,      \* Messages[s]: how many s publishes (N, $count, HEAVY_COUNT)
          Every,         \* a child reports every so many messages (50 or 200)
          BatchSize,     \* BATCH_SIZE of bench.php
          LightEvery,    \* light publishes come every so many heavy ones (100)
          Window,        \* publishes the flow control window admits
          MaxRetries     \* bound: failed tryPublish calls that repeat light ones

AllScripts == {"bench", "ordering", "pool_multiplex", "consumer_group", "hol_congestion"}

ASSUME DrainAssumption ==
    /\ Scripts \subseteq AllScripts /\ Messages \in [AllScripts -> Nat \ {0}]
    /\ {NumConsumers, NumStreams, Every, BatchSize, LightEvery, Window} \subseteq Nat \ {0}
    /\ NumStreams > 1 /\ MaxRetries \in Nat

VARIABLES
    script,    \* the script that runs
    kid,       \* kid[k]: the drain child k
    file,      \* file[k]: $tmpfiles[k]
    inbox,     \* inbox[k]: messages on their way to child k
    ended,     \* children whose subscription the server has ended
    killed,    \* children that were sent SIGTERM
    log,       \* history: log[k] is the sequence numbers child k received
    seq,       \* seq[k]: messages published to child k so far
    ppc,       \* the phase of the parent
    at,        \* loop index of the parent's scans over the children
    sent,      \* $i or $sent
    light,     \* $s of hol_congestion.php; NumStreams: the heavy one is next
    retries,
    credit,    \* what is left of the window
    lost,      \* the publisher's connection is gone for good
    late,      \* time() >= $deadline
    result     \* what the parent read last of each file

netVars == <<inbox, seq, credit, lost>>
pubVars == <<sent, light, retries>>
vars == <<script, kid, file, netVars, ended, killed, log, ppc, at, pubVars, late, result>>

Slots == 0..(Max({NumConsumers, NumStreams}) - 1)
NumKids == CASE script = "consumer_group" -> NumConsumers
             [] script = "hol_congestion" -> NumStreams
             [] OTHER -> 1
Kids == 0..(NumKids - 1)

N == Messages[script]

Content(text, n, gaps, dup) == [text |-> text, n |-> n, gaps |-> gaps, dup |-> dup]
Empty == Content("empty", 0, 0, 0)
Gone == Content("gone", 0, 0, 0)

\* What a child writes when it has subscribed.
ReadyMark == Content(IF script \in {"bench", "ordering"} THEN "ready" ELSE "count", 0, 0, 0)

\* (int)trim(...): '' and 'ready' are 0.
AsInt(c) == IF c.text = "count" THEN c.n ELSE 0

\* Mutant of IsReady: every script waits for 'ready'.
IsReadyStrict(c) == c.text = "ready"

\* The wait loops: bench wants 'ready' itself, the others anything.
IsReady(c) == IF script = "bench" THEN c.text = "ready" ELSE c.text # "empty"

\* The scripts whose wait loop has a deadline.
WaitsInTime == script \in {"consumer_group", "hol_congestion"}

\* The scripts whose children stop after N messages and write a last count.
StopsAtN == script \in {"bench", "ordering", "pool_multiplex"}

ReportEvery == IF StopsAtN THEN Every ELSE 1

\* Where an iteration of the publishing loop starts.
LightFrom(i) ==
    IF script = "hol_congestion" /\ i > 0 /\ i % LightEvery = 0 THEN 1 ELSE NumStreams

Heavy == light = NumStreams

\* tryPublish() throws when the window is used up, publish() waits.
Tries == script \in {"ordering", "pool_multiplex"} \/ (script = "hol_congestion" /\ Heavy)

\* The publishing loops that catch the exception and try again.
Catches == Tries \/ script = "bench"

Init ==
    /\ script \in Scripts
    /\ kid = [k \in Slots |-> [pc |-> "unborn", count |-> 0, gaps |-> 0, dup |-> 0, last |-> -1,
                               put |-> Empty, then |-> "loop"]]
    /\ file = [k \in Slots |-> Gone]
    /\ inbox = [k \in Slots |-> << >>] /\ log = [k \in Slots |-> << >>]
    /\ seq = [k \in Slots |-> 0]
    /\ ended = {} /\ killed = {}
    /\ ppc = "fork" /\ at = 0
    /\ sent = 0 /\ light = NumStreams /\ retries = 0
    /\ credit = Window /\ lost = FALSE /\ late = FALSE
    /\ result = [k \in Slots |-> Empty]

-----------------------------------------------------------------------------
(***************************************************************************)
(* A drain child.                                                          *)
(***************************************************************************)
parentVars == <<script, ppc, at, pubVars, late, result>>

Subscribed(k) == kid[k].pc \notin {"unborn", "start", "exited"}

Goto(k, pc) == kid' = [kid EXCEPT ![k].pc = pc]

\* file_put_contents, first half: the file is open and empty.
Put(k, content, then) ==
    /\ file' = [file EXCEPT ![k] = Empty]
    /\ kid' = [kid EXCEPT ![k].pc = "write", ![k].put = content, ![k].then = then]

\* connect() and subscribe(), subscribeGroup() or openStream(), then usleep().
ChildOpen(k) ==
    /\ kid[k].pc = "start"
    /\ Goto(k, "ready")
    /\ UNCHANGED <<file, netVars, ended, killed, log, parentVars>>

\* One of them throws, or bench's mode is unknown: the child exits.
ChildFails(k) ==
    /\ kid[k].pc = "start"
    /\ Goto(k, "exited")
    /\ UNCHANGED <<file, netVars, ended, killed, log, parentVars>>

ChildReady(k) ==
    /\ kid[k].pc = "ready"
    /\ Put(k, ReadyMark, "loop")
    /\ UNCHANGED <<netVars, ended, killed, log, parentVars>>

\* file_put_contents, second half.
ChildWrite(k) ==
    /\ kid[k].pc = "write"
    /\ file' = [file EXCEPT ![k] = kid[k].put]
    /\ kid' = [kid EXCEPT ![k].pc = kid[k].then, ![k].put = Empty, ![k].then = "loop"]
    /\ UNCHANGED <<netVars, ended, killed, log, parentVars>>

Looping(k) == kid[k].pc = "loop" /\ (StopsAtN => kid[k].count < N)

\* Mutant of Checked: a repeated sequence number is not counted.
CheckedLoose(c, q) ==
    [c EXCEPT !.dup = @ + (IF q < c.last THEN 1 ELSE 0),
              !.gaps = @ + (IF q > c.last + 1 /\ c.last >= 0 THEN 1 ELSE 0),
              !.last = q]

\* Mutant of Checked: the next number counts as a gap.
CheckedTight(c, q) ==
    [c EXCEPT !.dup = @ + (IF q <= c.last THEN 1 ELSE 0),
              !.gaps = @ + (IF q > c.last /\ c.last >= 0 THEN 1 ELSE 0),
              !.last = q]

\* ordering.php's test of a sequence number against $lastSeq.
Checked(c, q) ==
    [c EXCEPT !.dup = @ + (IF q <= c.last THEN 1 ELSE 0),
              !.gaps = @ + (IF q > c.last + 1 /\ c.last >= 0 THEN 1 ELSE 0),
              !.last = q]

\* recv() returns a message, in bench recvBatch() some.
ChildRecv(k) ==
    /\ Looping(k) /\ inbox[k] # << >>
    /\ \E n \in 1..(IF script = "bench" THEN BatchSize ELSE 1) :
          LET c == IF script = "ordering" THEN Checked(kid[k], Head(inbox[k])) ELSE kid[k]
              count == kid[k].count + n
          IN
          /\ n <= Len(inbox[k])
          /\ kid' = [kid EXCEPT ![k] = [c EXCEPT !.count = count,
                        !.pc = IF count % ReportEvery = 0 THEN "report" ELSE "loop"]]
          /\ log' = [log EXCEPT ![k] = @ \o SubSeq(inbox[k], 1, n)]
          /\ inbox' = [inbox EXCEPT ![k] = SubSeq(@, n + 1, Len(@))]
    /\ UNCHANGED <<file, seq, credit, lost, ended, killed, parentVars>>

\* Mutant of Count: the count is incremented once more on the way out.
CountAhead(k) == Content("count", kid[k].count + 1, kid[k].gaps, kid[k].dup)

Count(k) == Content("count", kid[k].count, kid[k].gaps, kid[k].dup)

ChildReport(k) ==
    /\ kid[k].pc = "report"
    /\ Put(k, Count(k), "loop")
    /\ UNCHANGED <<netVars, ended, killed, log, parentVars>>

\* The loop ends, by null, by an empty batch, or because N are there.  The
\* scripts that stop at N write the count once more.
ChildDone(k) ==
    /\ kid[k].pc = "loop"
    /\ \/ Looping(k) /\ inbox[k] = << >> /\ k \in ended
       \/ ~Looping(k)
    /\ \/ StopsAtN /\ Put(k, Count(k), "exited")
       \/ ~StopsAtN /\ Goto(k, "exited") /\ UNCHANGED file
    /\ UNCHANGED <<netVars, ended, killed, log, parentVars>>

\* SIGTERM ends the child wherever it is.
Die(k) ==
    /\ k \in killed /\ kid[k].pc # "exited"
    /\ Goto(k, "exited")
    /\ UNCHANGED <<file, netVars, ended, killed, log, parentVars>>

\* The server ends the subscription, or the connection times out.
End(k) ==
    /\ Subscribed(k)
    /\ ended' = ended \cup {k}
    /\ UNCHANGED <<kid, file, netVars, killed, log, parentVars>>

Child(k) ==
    \/ ChildOpen(k) \/ ChildFails(k) \/ ChildReady(k) \/ ChildWrite(k)
    \/ ChildRecv(k) \/ ChildReport(k) \/ ChildDone(k)

-----------------------------------------------------------------------------
(***************************************************************************)
(* The parent: fork, wait until the children are ready, connect, publish,  *)
(* poll, collect.  "died" is an exit past the cleanup.                     *)
(***************************************************************************)
childVars == <<ended, log>>

\* Mutant of Advance: the loop runs to NumKids inclusively.
AdvancePast(next) ==
    IF at = NumKids THEN at' = 0 /\ ppc' = next ELSE at' = at + 1 /\ ppc' = ppc

\* The next child of a loop over all of them, or the phase after the loop.
Advance(next) ==
    IF at = NumKids - 1 THEN at' = 0 /\ ppc' = next ELSE at' = at + 1 /\ ppc' = ppc

\* tempnam() and pcntl_fork().
Fork ==
    /\ ppc = "fork"
    /\ file' = [file EXCEPT ![at] = Empty]
    /\ \/ kid' = [kid EXCEPT ![at].pc = "start"] /\ Advance("wait")
       \/ ppc' = "died" /\ UNCHANGED <<kid, at>>
    /\ UNCHANGED <<script, netVars, childVars, killed, pubVars, late, result>>

\* One file_get_contents of the wait loop.
WaitRead ==
    /\ ppc = "wait"
    /\ at > 0 \/ ~(WaitsInTime /\ late)
    /\ IF IsReady(file[at]) THEN Advance("connect") ELSE at' = 0 /\ ppc' = ppc
    /\ UNCHANGED <<script, kid, file, netVars, childVars, killed, pubVars, late, result>>

WaitTimeout ==
    /\ ppc = "wait" /\ at = 0 /\ WaitsInTime /\ late
    /\ ppc' = "connect"
    /\ UNCHANGED <<script, kid, file, netVars, childVars, killed, at, pubVars, late, result>>

\* The publisher's connect() or connectPool(), which nothing catches.
Connect ==
    /\ ppc = "connect"
    /\ ppc' \in {"publish", "died"}
    /\ UNCHANGED <<script, kid, file, netVars, childVars, killed, at, pubVars, late, result>>

\* The deadline of the loop the parent is in passes.
Tick ==
    /\ ppc = "poll" \/ (ppc = "wait" /\ WaitsInTime)
    /\ ~late
    /\ late' = TRUE
    /\ UNCHANGED <<script, kid, file, netVars, childVars, killed, ppc, at, pubVars, result>>

\* What the transport may make of the next message q for a buffer b: pass it
\* on, lose it, repeat it, or let it overtake its predecessor.
Arrivals(b, q) ==
    {b, b \o <<q>>, b \o <<q, q>>} \cup
    (IF b = << >> THEN {} ELSE {Front(b) \o <<q, Last(b)>>})

\* The children that the next publish can reach: the light stream, the member
\* that the server picks, or the only child.
Targets ==
    IF ~Heavy THEN {light} ELSE IF script = "consumer_group" THEN Kids ELSE {0}

PublishOk ==
    /\ ppc = "publish" /\ sent < N /\ ~lost /\ credit > 0
    /\ credit' = credit - 1
    /\ \E k \in Targets :
          /\ seq' = [seq EXCEPT ![k] = @ + 1]
          /\ \E b \in IF Subscribed(k) THEN Arrivals(inbox[k], seq[k]) ELSE {inbox[k]} :
                inbox' = [inbox EXCEPT ![k] = b]
    /\ \/ Heavy /\ sent' = sent + 1 /\ light' = LightFrom(sent + 1)
       \/ ~Heavy /\ light' = light + 1 /\ UNCHANGED sent
    /\ UNCHANGED <<script, kid, file, lost, childVars, killed, ppc, at, retries, late, result>>

\* The exception is caught and the iteration starts again ($i--), with the
\* light publishes it began with; or it ends the script.
PublishThrows ==
    /\ ppc = "publish" /\ sent < N
    /\ lost \/ (Tries /\ credit = 0)
    /\ \/ /\ Catches
          /\ light' = LightFrom(sent)
          /\ retries' = IF light' = light \/ lost THEN retries ELSE retries + 1
          /\ retries' <= MaxRetries
          /\ UNCHANGED ppc
       \/ ~Catches /\ ppc' = "died" /\ UNCHANGED <<light, retries>>
    /\ UNCHANGED <<script, kid, file, netVars, childVars, killed, at, sent, late, result>>

\* A window update of the server is processed: between any two steps, in a
\* waiting publish(), or never.
Refill ==
    /\ ppc \notin {"fork", "wait", "connect", "died", "end"} /\ ~lost /\ credit < Window
    /\ credit' = credit + 1
    /\ UNCHANGED <<script, kid, file, inbox, seq, lost, childVars, killed, ppc, at, pubVars,
                   late, result>>

\* The publisher's connection breaks and is not restored.
Lose ==
    /\ ppc = "publish" /\ ~lost
    /\ lost' = TRUE
    /\ UNCHANGED <<script, kid, file, inbox, seq, credit, childVars, killed, ppc, at, pubVars,
                   late, result>>

\* hol_congestion sleeps instead of polling.
PublishDone ==
    /\ ppc = "publish" /\ sent = N
    /\ ppc' = IF script = "hol_congestion" THEN "collect" ELSE "poll"
    /\ late' = FALSE
    /\ UNCHANGED <<script, kid, file, netVars, childVars, killed, at, pubVars, result>>

Total(r) == FoldFunctionOnSet(+, 0, [k \in Slots |-> AsInt(r[k])], Kids)

\* One file_get_contents of the poll loop.  ordering.php looks only at a
\* text with a comma.
PollRead ==
    /\ ppc = "poll"
    /\ at > 0 \/ ~late
    /\ result' = IF script = "ordering" /\ file[at].text # "count" THEN result
                 ELSE [result EXCEPT ![at] = file[at]]
    /\ Advance(IF Total(result') >= N THEN "collect" ELSE "poll")
    /\ UNCHANGED <<script, kid, file, netVars, childVars, killed, pubVars, late>>

PollTimeout ==
    /\ ppc = "poll" /\ at = 0 /\ late
    /\ ppc' = "collect"
    /\ UNCHANGED <<script, kid, file, netVars, childVars, killed, at, pubVars, late, result>>

\* Mutant of posix_kill: the signal goes to the wrong process.
posix_kill_Misses(k) == killed' = killed

posix_kill(k) == killed' = killed \cup {k}

\* Mutant of pcntl_waitpid: WNOHANG.
pcntl_waitpid_NoHang(k) == TRUE

pcntl_waitpid(k) == kid[k].pc = "exited"

\* SIGTERM for the child; hol_congestion reads the count just before.
Kill ==
    /\ ppc = "collect"
    /\ result' = IF script = "hol_congestion" THEN [result EXCEPT ![at] = file[at]] ELSE result
    /\ posix_kill(at)
    /\ ppc' = "reap"
    /\ UNCHANGED <<script, kid, file, netVars, childVars, at, pubVars, late>>

\* Mutant of Reap: all scripts look once more.
ReapReads ==
    /\ ppc = "reap" /\ pcntl_waitpid(at)
    /\ result' = [result EXCEPT ![at] = file[at]]
    /\ file' = [file EXCEPT ![at] = Gone]
    /\ IF at = NumKids - 1 THEN ppc' = "end" /\ UNCHANGED at
                           ELSE ppc' = "collect" /\ at' = at + 1
    /\ UNCHANGED <<script, kid, netVars, childVars, killed, pubVars, late>>

\* The child is reaped, bench and pool_multiplex look once more, unlink().
Reap ==
    /\ ppc = "reap" /\ pcntl_waitpid(at)
    /\ result' = IF script \in {"bench", "pool_multiplex"} THEN [result EXCEPT ![at] = file[at]]
                 ELSE result
    /\ file' = [file EXCEPT ![at] = Gone]
    /\ IF at = NumKids - 1 THEN ppc' = "end" /\ UNCHANGED at
                           ELSE ppc' = "collect" /\ at' = at + 1
    /\ UNCHANGED <<script, kid, netVars, childVars, killed, pubVars, late>>

\* The lines after the cleanup: FAIL, or PASS; bench only prints.
Passes ==
    CASE script = "ordering" -> result[0].n = N /\ result[0].gaps = 0 /\ result[0].dup = 0
      [] script = "pool_multiplex" -> AsInt(result[0]) = N
      [] script = "consumer_group" -> Total(result) = N /\ \A k \in Kids : AsInt(result[k]) # 0
      [] script = "hol_congestion" -> \A k \in Kids \ {0} : AsInt(result[k]) # 0
      [] OTHER -> FALSE

Parent ==
    \/ Fork \/ WaitRead \/ WaitTimeout \/ Connect \/ PublishOk \/ PublishThrows
    \/ PublishDone \/ PollRead \/ PollTimeout \/ Kill \/ Reap

Over == ppc \in {"end", "died"}

Next ==
    \/ \E k \in Kids : Child(k) \/ Die(k) \/ End(k)
    \/ Parent \/ Tick \/ Refill \/ Lose
    \/ Over /\ UNCHANGED vars

Spec == Init /\ [][Next]_vars

\* Each process runs, clocks advance and signals arrive.  Nothing is assumed
\* of the network, nor that a window update is ever processed.
FairSpec ==
    /\ Spec
    /\ WF_vars(Parent) /\ WF_vars(Tick)
    /\ \A k \in Slots : WF_vars(k \in Kids /\ Child(k)) /\ WF_vars(k \in Kids /\ Die(k))

-----------------------------------------------------------------------------
(***************************************************************************)
(* Properties.                                                             *)
(***************************************************************************)
Contents == [text : {"empty", "gone", "ready", "count"}, n : Nat, gaps : Nat, dup : Nat]

\* Type invariant of the processes, the files and the publishing loop.
TypeOK ==
    /\ script \in Scripts
    /\ kid \in [Slots -> [pc : {"unborn", "start", "ready", "loop", "report", "write", "exited"},
                          count : Nat, gaps : Nat, dup : Nat, last : Int,
                          put : Contents, then : {"loop", "exited"}]]
    /\ file \in [Slots -> Contents] /\ result \in [Slots -> Contents]
    /\ inbox \in [Slots -> Seq(Nat)] /\ log \in [Slots -> Seq(Nat)] /\ seq \in [Slots -> Nat]
    /\ ended \subseteq Kids /\ killed \subseteq Kids
    /\ ppc \in {"fork", "wait", "connect", "publish", "poll", "collect", "reap", "end", "died"}
    /\ at \in Kids /\ sent \in 0..N /\ light \in 1..NumStreams /\ retries \in 0..MaxRetries
    /\ credit \in 0..Window /\ lost \in BOOLEAN /\ late \in BOOLEAN

\* Neighbours in a sequence of numbers that leave one out, or do not ascend.
Skips(s) == Cardinality({j \in 2..Len(s) : s[j] > s[j - 1] + 1})
Repeats(s) == Cardinality({j \in 2..Len(s) : s[j] <= s[j - 1]})

\* A report is the truth about some prefix of what the child received.
Truthful(c, k) ==
    c.text = "count" =>
        /\ c.n <= Len(log[k])
        /\ script = "ordering" =>
              LET s == SubSeq(log[k], 1, c.n) IN c.gaps = Skips(s) /\ c.dup = Repeats(s)

\* Whatever a file holds, and whatever the parent has made of it, is true of
\* what the child had received: counts never run ahead, and ordering.php's
\* running $gaps and $dup are those of the messages counted in the same text.
ReportsTruthful == \A k \in Kids : Truthful(file[k], k) /\ Truthful(result[k], k)

\* What all the children have received.
Received == FoldFunctionOnSet(+, 0, [k \in Slots |-> Len(log[k])], Kids)

\* PASS means what it says: as many messages as were published have been
\* received (in ordering.php in unbroken order, although the transport may
\* lose, repeat and reorder), every group member got work, and every light
\* stream was served.  The counts come from reads at different times, of files
\* that are rewritten meanwhile.
VerdictSound ==
    ppc = "end" /\ Passes =>
        CASE script = "ordering" ->
                Len(log[0]) = N /\ \A j \in 2..N : log[0][j] = log[0][j - 1] + 1
          [] script = "pool_multiplex" -> Len(log[0]) = N
          [] script = "consumer_group" -> Received >= N /\ \A k \in Kids : log[k] # << >>
          [] script = "hol_congestion" -> \A k \in Kids \ {0} : log[k] # << >>

\* ordering.php blames the transport only with cause: when it has counted all
\* messages and prints FAIL, two neighbours really were out of order.
FailJustified ==
    ppc = "end" /\ script = "ordering" /\ result[0].n = N /\ ~Passes =>
        \E j \in 2..N : log[0][j] # log[0][j - 1] + 1

\* A parent that stops polling before its deadline has seen counts, of files
\* that are truncated and rewritten between its reads, that cover N messages,
\* and so many have arrived; bench.php takes its time from this.
PollSeesAll == [][PollRead /\ ppc' = "collect" => Received >= N]_vars

\* After posix_kill, pcntl_waitpid and unlink nothing is left: no child runs,
\* and no child has written its file anew after it was unlinked.
CleanEnd == ppc = "end" => \A k \in Kids : kid[k].pc = "exited" /\ file[k] = Gone

\* pool_multiplex.php:52-58 polls until it has seen all messages; what it saw
\* decides the verdict, and collecting the child does not change it.
CleanupKeepsVerdict == [][(ppc \in {"collect", "reap"} /\ Passes) => (Passes')]_vars

\* In the other scripts it does not: what they read, they read before the
\* child is killed, and no file twice.
VerdictKept ==
    [][(script # "pool_multiplex" /\ ppc \in {"collect", "reap"} /\ Passes) => (Passes')]_vars

\* The places where a parent may stay for good: a wait without a deadline for
\* a child that has gone, trying again on a connection that has gone, and
\* publishing, by trying again or by waiting, into a window that stays used up.
Hopeless ==
    \/ ppc = "wait" /\ ~WaitsInTime /\ kid[0].pc = "exited"
    \/ ppc = "publish" /\ IF lost THEN Catches ELSE credit = 0

\* The parent finishes, except in those three places: while it may publish it
\* does, polling meets its deadline, and killed children are reaped.
ParentFinishes == <>Over \/ <>[]Hopeless

\* "wait for ready, publish": once a child has written its mark, the parent
\* notices, although the file may be truncated and rewritten meanwhile; but in
\* bench, which wants the mark itself, only if the subscription has not ended.
ReadyIsSeen ==
    \A k \in Slots :
        kid[k].pc = "loop" ~>
            ppc \notin {"fork", "wait"} \/ (script = "bench" /\ k \in ended)
=============================================================================
