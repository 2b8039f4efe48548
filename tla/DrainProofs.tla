----------------------------- MODULE DrainProofs -----------------------------
(***************************************************************************)
(* Proofs about Drain for any number of children and messages.             *)
(***************************************************************************)
EXTENDS Drain, Sums, SequenceTheorems, FiniteSetTheorems, TLAPS

\* The constants one by one, and the numbers of messages and of children.
LEMMA Constants ==
    ASSUME script \in Scripts
    PROVE  /\ N \in Nat /\ N > 0
           /\ NumStreams \in Nat /\ NumStreams > 1 /\ NumConsumers \in Nat /\ NumConsumers > 0
           /\ Every \in Nat /\ Every > 0 /\ BatchSize \in Nat /\ BatchSize > 0
           /\ Window \in Nat /\ MaxRetries \in Nat
           /\ NumKids \in Nat /\ NumKids > 0
<1>1. N \in Nat /\ N > 0
  BY DrainAssumption DEF N
<1>2. /\ NumStreams \in Nat /\ NumStreams > 1 /\ NumConsumers \in Nat /\ NumConsumers > 0
      /\ Every \in Nat /\ Every > 0 /\ BatchSize \in Nat /\ BatchSize > 0
      /\ Window \in Nat /\ MaxRetries \in Nat
  BY DrainAssumption
<1>3. NumKids \in Nat /\ NumKids > 0
  BY <1>2 DEF NumKids
<1>4. QED
  BY <1>1, <1>2, <1>3

\* There are slots for the script with the most children.
LEMMA SlotCount ==
    LET most == Max({NumConsumers, NumStreams})
    IN  most \in Nat /\ NumConsumers <= most /\ NumStreams <= most
<1> DEFINE S == {NumConsumers, NumStreams}
<1>1. NumConsumers \in Nat /\ NumConsumers > 0 /\ NumStreams \in Nat
  BY DrainAssumption
<1>2. \E x \in S : \A y \in S : x >= y
  BY <1>1
<1>3. Max(S) \in S /\ \A y \in S : Max(S) >= y
  BY <1>2 DEF Max
<1>4. QED
  BY <1>1, <1>3

\* Every child has a slot.
LEMMA KidsHaveSlots ==
    ASSUME script \in Scripts
    PROVE  Kids \subseteq Slots /\ 0 \in Kids /\ Slots \subseteq Nat
<1>1. NumKids \in Nat /\ NumKids > 0 /\ NumKids <= Max({NumConsumers, NumStreams})
  BY SlotCount, Constants DEF NumKids
<1>2. QED
  BY <1>1, SlotCount DEF Kids, Slots

\* So has every light stream.
LEMMA LightIsSlot ==
    ASSUME script \in Scripts, light \in 1..NumStreams, light # NumStreams
    PROVE  light \in Slots
BY SlotCount, Constants DEF Slots

\* A script does not change while it runs.
LEMMA SameScript ==
    ASSUME UNCHANGED script
    PROVE  /\ Kids' = Kids /\ NumKids' = NumKids /\ N' = N
           /\ StopsAtN' = StopsAtN
BY DEF Kids, NumKids, N, StopsAtN
-----------------------------------------------------------------------------
(***************************************************************************)
(* The inductive invariant.                                                *)
(***************************************************************************)

\* What a child has counted is what it received, and its $gaps, $dup and
\* $lastSeq are those of the numbers it received; a child that stops at N and
\* takes messages one by one gets no more than N.
Counted(k) ==
    /\ kid[k].count = Len(log[k])
    /\ script \in {"ordering", "pool_multiplex"} => Len(log[k]) <= N
    /\ script = "ordering" =>
          /\ kid[k].gaps = Skips(log[k]) /\ kid[k].dup = Repeats(log[k])
          /\ kid[k].last = IF log[k] = << >> THEN -1 ELSE log[k][Len(log[k])]

\* A text c is true of the messages l in script s; one that is not a count
\* reads as 0.
TrueOf(c, s, l) ==
    /\ c.text # "count" => c.n = 0
    /\ c.text = "count" =>
          /\ c.n <= Len(l)
          /\ s = "ordering" =>
                c.gaps = Skips(SubSeq(l, 1, c.n)) /\ c.dup = Repeats(SubSeq(l, 1, c.n))

\* What a child is about to write, has written, or was read, is true.
Reported(k) ==
    \A c \in {kid[k].put, file[k], result[k]} : TrueOf(c, script, log[k])

\* The parent's scan over the children has left nothing behind it.
Swept ==
    /\ ppc \in {"connect", "publish"} => at = 0
    /\ ppc \in {"collect", "reap"} =>
          \A k \in Kids : k < at => kid[k].pc = "exited" /\ file[k] = Gone
    /\ CleanEnd

\* hol_congestion.php does not poll: it reads each count once, just before it
\* kills the child.
Unread ==
    script = "hol_congestion" =>
        /\ ppc # "poll"
        /\ \A k \in Kids :
              \/ ppc \in {"fork", "wait", "connect", "publish"}
              \/ ppc = "collect" /\ k >= at
              \/ ppc = "reap" /\ k > at
              => result[k] = Empty

IInv == /\ TypeOK /\ Swept /\ Unread
        /\ \A k \in Kids : Counted(k) /\ Reported(k)
-----------------------------------------------------------------------------
(***************************************************************************)
(* Types.                                                                  *)
(***************************************************************************)
KidStates == {"unborn", "start", "ready", "loop", "report", "write", "exited"}
KidType == [pc : KidStates, count : Nat, gaps : Nat, dup : Nat, last : Int,
            put : Contents, then : {"loop", "exited"}]

\* The texts that are written are typed.
LEMMA ContentsTyped ==
    /\ Empty \in Contents /\ Gone \in Contents /\ ReadyMark \in Contents
    /\ \A k : kid[k] \in KidType => Count(k) \in Contents
<1>1. Empty \in Contents /\ Gone \in Contents /\ ReadyMark \in Contents
  BY DEF Empty, Gone, ReadyMark, Content, Contents
<1>2. \A k : kid[k] \in KidType => Count(k) \in Contents
  BY DEF Count, Content, Contents, KidType
<1>3. QED
  BY <1>1, <1>2

\* ordering.php's test changes $dup, $gaps and $lastSeq.
LEMMA CheckedFields ==
    ASSUME NEW c \in KidType, NEW q \in Nat
    PROVE  /\ Checked(c, q) \in KidType
           /\ Checked(c, q).dup = c.dup + (IF q <= c.last THEN 1 ELSE 0)
           /\ Checked(c, q).gaps = c.gaps + (IF q > c.last + 1 /\ c.last >= 0 THEN 1 ELSE 0)
           /\ Checked(c, q).last = q
           /\ Checked(c, q).count = c.count /\ Checked(c, q).put = c.put
<1> DEFINE d == c.dup + (IF q <= c.last THEN 1 ELSE 0)
           g == c.gaps + (IF q > c.last + 1 /\ c.last >= 0 THEN 1 ELSE 0)
<1>1. d \in Nat /\ g \in Nat
  BY DEF KidType
<1>2. Checked(c, q) = [c EXCEPT !.dup = d, !.gaps = g, !.last = q]
  BY DEF Checked
<1> HIDE DEF d, g
<1>3. Checked(c, q) \in KidType
  <2>1. ASSUME NEW x \in Nat, NEW y \in Nat, NEW z \in Int
        PROVE  [c EXCEPT !.dup = x, !.gaps = y, !.last = z] \in KidType
    BY DEF KidType
  <2>2. q \in Int
    OBVIOUS
  <2>3. [c EXCEPT !.dup = d, !.gaps = g, !.last = q] \in KidType
    BY <1>1, <2>1, <2>2, Zenon
  <2>4. QED
    BY <1>2, <2>3, Zenon
<1>4. /\ Checked(c, q).dup = d /\ Checked(c, q).gaps = g /\ Checked(c, q).last = q
      /\ Checked(c, q).count = c.count /\ Checked(c, q).put = c.put
  BY <1>2 DEF KidType
<1>5. QED
  BY <1>3, <1>4 DEF d, g

\* A child changes its own state, file and messages only.
LEMMA ChildTyped ==
    ASSUME TypeOK, UNCHANGED <<script, ppc, at, sent, light, retries, late, result, seq,
                               credit, lost, killed>>,
           kid' \in [Slots -> KidType], file' \in [Slots -> Contents],
           inbox' \in [Slots -> Seq(Nat)], log' \in [Slots -> Seq(Nat)],
           ended' \subseteq Kids
    PROVE  TypeOK'
BY SameScript DEF TypeOK, KidType, KidStates

\* The parent changes no messages of the children.
LEMMA ParentTyped ==
    ASSUME TypeOK, UNCHANGED <<script, ended, log>>,
           kid' \in [Slots -> KidType], file' \in [Slots -> Contents],
           result' \in [Slots -> Contents],
           inbox' \in [Slots -> Seq(Nat)], seq' \in [Slots -> Nat], killed' \subseteq Kids,
           ppc' \in {"fork", "wait", "connect", "publish", "poll", "collect", "reap", "end",
                     "died"},
           at' \in Kids, sent' \in 0..N, light' \in 1..NumStreams, retries' \in 0..MaxRetries,
           credit' \in 0..Window, lost' \in BOOLEAN, late' \in BOOLEAN
    PROVE  TypeOK'
BY SameScript DEF TypeOK, KidType, KidStates

\* Every step of a child keeps the types.
LEMMA ChildType ==
    ASSUME TypeOK, NEW k \in Kids, Child(k) \/ Die(k) \/ End(k)
    PROVE  TypeOK'
<1>1. /\ script \in Scripts /\ k \in Slots
      /\ kid \in [Slots -> KidType] /\ file \in [Slots -> Contents]
      /\ inbox \in [Slots -> Seq(Nat)] /\ log \in [Slots -> Seq(Nat)]
      /\ ended \subseteq Kids /\ kid[k] \in KidType
  BY KidsHaveSlots DEF TypeOK, KidType, KidStates
<1>2. UNCHANGED <<script, ppc, at, sent, light, retries, late, result, seq, credit, lost, killed>>
  BY DEF Child, Die, End, ChildOpen, ChildFails, ChildReady, ChildWrite, ChildRecv, ChildReport,
         ChildDone, parentVars, pubVars, netVars
<1>3. ASSUME NEW c \in KidStates, Goto(k, c)
      PROVE  kid' \in [Slots -> KidType]
  BY <1>1, <1>3 DEF Goto, KidType
<1>4. ASSUME NEW text \in Contents, NEW then \in {"loop", "exited"}, Put(k, text, then)
      PROVE  kid' \in [Slots -> KidType] /\ file' \in [Slots -> Contents]
  <2>1. file' \in [Slots -> Contents]
    BY <1>1, <1>4, ContentsTyped DEF Put
  <2>2. kid' \in [Slots -> KidType]
    BY <1>1, <1>4 DEF Put, KidType, KidStates
  <2>3. QED
    BY <2>1, <2>2
<1>5. CASE ChildOpen(k) \/ ChildFails(k) \/ Die(k)
  <2>1. UNCHANGED <<file, inbox, log, ended>>
    BY <1>5 DEF ChildOpen, ChildFails, Die, netVars
  <2>2. kid' \in [Slots -> KidType]
    BY <1>3, <1>5 DEF ChildOpen, ChildFails, Die, KidStates
  <2>3. QED
    BY <1>1, <1>2, <2>1, <2>2, ChildTyped
<1>6. CASE ChildReady(k) \/ ChildReport(k)
  <2>1. UNCHANGED <<inbox, log, ended>>
    BY <1>6 DEF ChildReady, ChildReport, netVars
  <2>2. kid' \in [Slots -> KidType] /\ file' \in [Slots -> Contents]
    BY <1>1, <1>4, <1>6, ContentsTyped DEF ChildReady, ChildReport
  <2>3. QED
    BY <1>1, <1>2, <2>1, <2>2, ChildTyped
<1>7. CASE ChildWrite(k)
  <2>1. UNCHANGED <<inbox, log, ended>>
    BY <1>7 DEF ChildWrite, netVars
  <2>2. file' \in [Slots -> Contents]
    BY <1>1, <1>7 DEF ChildWrite, KidType
  <2>3. kid' \in [Slots -> KidType]
    BY <1>1, <1>7, ContentsTyped DEF ChildWrite, KidType, KidStates
  <2>4. QED
    BY <1>1, <1>2, <2>1, <2>2, <2>3, ChildTyped
<1>8. CASE ChildDone(k)
  <2>1. UNCHANGED <<inbox, log, ended>>
    BY <1>8 DEF ChildDone, netVars
  <2>2. kid' \in [Slots -> KidType] /\ file' \in [Slots -> Contents]
    BY <1>1, <1>3, <1>4, <1>8, ContentsTyped DEF ChildDone, KidStates
  <2>3. QED
    BY <1>1, <1>2, <2>1, <2>2, ChildTyped
<1>9. CASE End(k)
  BY <1>1, <1>2, <1>9, ChildTyped DEF End, netVars
<1>10. CASE ChildRecv(k)
  <2> DEFINE b == inbox[k]
             c == IF script = "ordering" THEN Checked(kid[k], Head(b)) ELSE kid[k]
  <2>1. PICK n \in 1..(IF script = "bench" THEN BatchSize ELSE 1) :
           /\ n <= Len(b)
           /\ kid' = [kid EXCEPT ![k] = [c EXCEPT !.count = kid[k].count + n,
                         !.pc = IF (kid[k].count + n) % ReportEvery = 0 THEN "report" ELSE "loop"]]
           /\ log' = [log EXCEPT ![k] = @ \o SubSeq(b, 1, n)]
           /\ inbox' = [inbox EXCEPT ![k] = SubSeq(@, n + 1, Len(@))]
    BY <1>10 DEF ChildRecv
  <2>2. b \in Seq(Nat) /\ n \in Nat /\ n > 0 /\ n <= Len(b) /\ b # << >>
    <3>1. b \in Seq(Nat) /\ b # << >>
      BY <1>1, <1>10 DEF ChildRecv
    <3>2. n \in Nat /\ n > 0
      BY <1>1, Constants
    <3>3. QED
      BY <2>1, <3>1, <3>2
  <2>3. Head(b) \in Nat
    BY <2>2
  <2>4. c \in KidType
    BY <1>1, <2>3, CheckedFields
  <2> HIDE DEF c
  <2>5. kid' \in [Slots -> KidType]
    <3>1. kid[k].count + n \in Nat
      BY <1>1, <2>2 DEF KidType
    <3>2. PICK pc \in {"report", "loop"} :
             kid' = [kid EXCEPT ![k] = [c EXCEPT !.count = kid[k].count + n, !.pc = pc]]
      BY <2>1
    <3>3. QED
      BY <1>1, <2>4, <3>1, <3>2 DEF KidType, KidStates
  <2>6. SubSeq(b, 1, n) \in Seq(Nat) /\ SubSeq(b, n + 1, Len(b)) \in Seq(Nat)
    <3> HIDE DEF b
    <3>1. \A j \in 1..Len(b) : b[j] \in Nat
      BY <2>2
    <3>2. 1..n \subseteq 1..Len(b) /\ (n + 1)..Len(b) \subseteq 1..Len(b)
      BY <2>2
    <3>3. SubSeq(b, 1, n) \in Seq(Nat)
      BY <2>2, <3>1, <3>2
    <3>4. SubSeq(b, n + 1, Len(b)) \in Seq(Nat)
      BY <2>2, <3>1, <3>2
    <3>5. QED
      BY <3>3, <3>4
  <2>7. log' \in [Slots -> Seq(Nat)]
    <3>1. log[k] \o SubSeq(b, 1, n) \in Seq(Nat)
      BY <1>1, <2>6
    <3>2. QED
      BY <1>1, <2>1, <3>1
  <2>8. inbox' \in [Slots -> Seq(Nat)]
    BY <1>1, <2>1, <2>6
  <2>9. UNCHANGED <<file, ended>>
    BY <1>10 DEF ChildRecv
  <2>10. QED
    BY <1>1, <1>2, <2>5, <2>7, <2>8, <2>9, ChildTyped
<1>11. QED
  BY <1>5, <1>6, <1>7, <1>8, <1>9, <1>10 DEF Child
\* A loop over the children stays among them.
LEMMA AdvanceTyped ==
    ASSUME TypeOK, NEW next, Advance(next)
    PROVE  at' \in Kids /\ ppc' \in {ppc, next}
<1>1. at \in 0..(NumKids - 1) /\ NumKids \in Nat /\ NumKids > 0
  BY Constants DEF TypeOK, Kids
<1>2. QED
  BY <1>1 DEF Advance, Kids

\* The buffers a message can make are sequences of numbers.
LEMMA ArrivalsTyped ==
    ASSUME NEW b \in Seq(Nat), NEW q \in Nat
    PROVE  Arrivals(b, q) \subseteq Seq(Nat)
<1>1. b \o <<q>> \in Seq(Nat) /\ b \o <<q, q>> \in Seq(Nat)
  <2>1. <<q>> \in Seq(Nat) /\ <<q, q>> \in Seq(Nat)
    OBVIOUS
  <2>2. QED
    BY <2>1
<1>2. ASSUME b # << >>
      PROVE  Front(b) \o <<q, Last(b)>> \in Seq(Nat)
  <2>1. Len(b) \in Nat /\ Len(b) > 0 /\ b[Len(b)] \in Nat
    BY <1>2
  <2>2. Front(b) \in Seq(Nat)
    BY <2>1 DEF Front
  <2>3. <<q, Last(b)>> \in Seq(Nat)
    BY <2>1 DEF Last
  <2>4. QED
    BY <2>2, <2>3
<1>3. QED
  BY <1>1, <1>2 DEF Arrivals

\* Every step of the parent, the clock and the network keeps the types.
LEMMA ParentType ==
    ASSUME TypeOK, Parent \/ Tick \/ Refill \/ Lose
    PROVE  TypeOK'
<1>1. /\ script \in Scripts /\ kid \in [Slots -> KidType]
      /\ file \in [Slots -> Contents] /\ result \in [Slots -> Contents]
      /\ inbox \in [Slots -> Seq(Nat)] /\ seq \in [Slots -> Nat] /\ killed \subseteq Kids
      /\ ppc \in {"fork", "wait", "connect", "publish", "poll", "collect", "reap", "end", "died"}
      /\ at \in Kids /\ sent \in 0..N /\ light \in 1..NumStreams /\ retries \in 0..MaxRetries
      /\ credit \in 0..Window /\ lost \in BOOLEAN /\ late \in BOOLEAN
  BY DEF TypeOK, KidType, KidStates
<1>2. at \in Slots /\ Empty \in Contents /\ Gone \in Contents
  BY <1>1, KidsHaveSlots, ContentsTyped
<1>3. LightFrom(sent) \in 1..NumStreams /\ LightFrom(sent + 1) \in 1..NumStreams
  BY <1>1, Constants DEF LightFrom
<1>4. UNCHANGED <<script, ended, log>>
  BY DEF Parent, Tick, Refill, Lose, Fork, WaitRead, WaitTimeout, Connect, PublishOk,
         PublishThrows, PublishDone, PollRead, PollTimeout, Kill, Reap, childVars
<1>5. CASE Fork
  <2>1. /\ file' = [file EXCEPT ![at] = Empty]
        /\ UNCHANGED <<inbox, seq, credit, lost, killed, sent, light, retries, late, result>>
    BY <1>5 DEF Fork, netVars, pubVars
  <2>2. kid' \in [Slots -> KidType]
    <3>1. kid' = [kid EXCEPT ![at].pc = "start"] \/ kid' = kid
      BY <1>5 DEF Fork
    <3>2. kid[at] \in KidType
      BY <1>1, <1>2
    <3>3. [kid[at] EXCEPT !.pc = "start"] \in KidType
      BY <3>2 DEF KidType, KidStates
    <3>4. QED
      BY <1>1, <1>2, <3>1, <3>3
  <2>3. /\ at' \in Kids
        /\ ppc' \in {"fork", "wait", "connect", "publish", "poll", "collect", "reap", "end", "died"}
    BY <1>1, <1>5, AdvanceTyped DEF Fork
  <2>4. file' \in [Slots -> Contents]
    BY <1>1, <1>2, <2>1
  <2>5. QED
    BY <1>1, <1>4, <2>1, <2>2, <2>3, <2>4, ParentTyped
<1>6. CASE WaitRead \/ WaitTimeout \/ Connect \/ PollTimeout
  <2>1. UNCHANGED <<kid, file, result, inbox, seq, credit, lost, killed, sent, light, retries, late>>
    BY <1>6 DEF WaitRead, WaitTimeout, Connect, PollTimeout, netVars, pubVars
  <2>2. 0 \in Kids
    BY <1>1, KidsHaveSlots
  <2>3. /\ at' \in Kids
        /\ ppc' \in {"fork", "wait", "connect", "publish", "poll", "collect", "reap", "end", "died"}
    <3>1. CASE WaitRead
      <4>1. Advance("connect") \/ (at' = 0 /\ ppc' = ppc)
        BY <3>1 DEF WaitRead
      <4>2. QED
        BY <1>1, <2>2, <4>1, AdvanceTyped
    <3>2. CASE WaitTimeout \/ Connect \/ PollTimeout
      BY <1>1, <3>2 DEF WaitTimeout, Connect, PollTimeout
    <3>3. QED
      BY <1>6, <3>1, <3>2
  <2>4. QED
    BY <1>1, <1>4, <2>1, <2>3, ParentTyped
<1>7. CASE PublishOk
  <2>1. UNCHANGED <<kid, file, result, lost, killed, ppc, at, retries, late>>
    BY <1>7 DEF PublishOk
  <2>2. credit' \in 0..Window
    BY <1>1, <1>7, Constants DEF PublishOk
  <2>3. sent' \in 0..N /\ light' \in 1..NumStreams
    <3>1. \/ Heavy /\ sent' = sent + 1 /\ light' = LightFrom(sent + 1)
          \/ ~Heavy /\ light' = light + 1 /\ sent' = sent
      BY <1>7 DEF PublishOk
    <3>2. sent < N /\ sent \in Nat /\ N \in Nat /\ NumStreams \in Nat
      BY <1>1, <1>7, Constants DEF PublishOk
    <3>3. CASE Heavy
      BY <1>3, <3>1, <3>2, <3>3
    <3>4. CASE ~Heavy
      BY <1>1, <3>1, <3>2, <3>4 DEF Heavy
    <3>5. QED
      BY <3>3, <3>4
  <2>4. Targets \subseteq Slots
    <3>1. light \in 1..NumStreams /\ Heavy <=> light = NumStreams
      BY <1>1 DEF Heavy
    <3>2. ~Heavy => light \in Slots
      BY <1>1, LightIsSlot DEF Heavy
    <3>3. QED
      BY <1>1, <3>2, KidsHaveSlots DEF Targets
  <2>5. PICK k \in Slots :
           /\ seq' = [seq EXCEPT ![k] = @ + 1]
           /\ \E b \in IF Subscribed(k) THEN Arrivals(inbox[k], seq[k]) ELSE {inbox[k]} :
                 inbox' = [inbox EXCEPT ![k] = b]
    BY <1>7, <2>4 DEF PublishOk
  <2>6. seq' \in [Slots -> Nat]
    BY <1>1, <2>5
  <2>7. PICK b \in Seq(Nat) : inbox' = [inbox EXCEPT ![k] = b]
    BY <1>1, <2>5, ArrivalsTyped
  <2>8. inbox' \in [Slots -> Seq(Nat)]
    BY <1>1, <2>7
  <2>9. QED
    BY <1>1, <1>4, <2>1, <2>2, <2>3, <2>6, <2>8, ParentTyped
<1>8. CASE PublishThrows
  <2>1. UNCHANGED <<kid, file, result, inbox, seq, credit, lost, killed, at, sent, late>>
    BY <1>8 DEF PublishThrows, netVars
  <2>2. light' \in 1..NumStreams
    BY <1>1, <1>3, <1>8 DEF PublishThrows
  <2>3. retries' \in 0..MaxRetries
    BY <1>1, <1>8, Constants DEF PublishThrows
  <2>4. ppc' \in {"publish", "died"}
    BY <1>8 DEF PublishThrows
  <2>5. QED
    BY <1>1, <1>4, <2>1, <2>2, <2>3, <2>4, ParentTyped
<1>9. CASE PublishDone
  <2>1. /\ UNCHANGED <<kid, file, result, inbox, seq, credit, lost, killed, at, sent, light, retries>>
        /\ ppc' \in {"collect", "poll"} /\ late' = FALSE
    BY <1>9 DEF PublishDone, netVars, pubVars
  <2>2. QED
    BY <1>1, <1>4, <2>1, ParentTyped
<1>10. CASE PollRead
  <2>1. UNCHANGED <<kid, file, inbox, seq, credit, lost, killed, sent, light, retries, late>>
    BY <1>10 DEF PollRead, netVars, pubVars
  <2>2. result' \in [Slots -> Contents]
    BY <1>1, <1>2, <1>10 DEF PollRead
  <2>3. at' \in Kids /\ ppc' \in {"poll", "collect"}
    <3>1. PICK next \in {"poll", "collect"} : Advance(next) /\ ppc = "poll"
      BY <1>10 DEF PollRead
    <3>2. QED
      BY <3>1, AdvanceTyped
  <2>4. QED
    BY <1>1, <1>4, <2>1, <2>2, <2>3, ParentTyped
<1>11. CASE Kill
  <2>1. /\ UNCHANGED <<kid, file, inbox, seq, credit, lost, at, sent, light, retries, late>>
        /\ ppc' = "reap" /\ killed' = killed \cup {at}
    BY <1>11 DEF Kill, posix_kill, netVars, pubVars
  <2>2. result' \in [Slots -> Contents]
    BY <1>1, <1>2, <1>11 DEF Kill
  <2>3. QED
    BY <1>1, <1>4, <2>1, <2>2, ParentTyped
<1>12. CASE Reap
  <2>1. UNCHANGED <<kid, inbox, seq, credit, lost, killed, sent, light, retries, late>>
    BY <1>12 DEF Reap, netVars, pubVars
  <2>2. result' \in [Slots -> Contents] /\ file' \in [Slots -> Contents]
    BY <1>1, <1>2, <1>12 DEF Reap
  <2>3. at' \in Kids /\ ppc' \in {"end", "collect"}
    <3>1. \/ at = NumKids - 1 /\ ppc' = "end" /\ at' = at
          \/ at # NumKids - 1 /\ ppc' = "collect" /\ at' = at + 1
      BY <1>12 DEF Reap
    <3>2. NumKids \in Nat /\ at \in 0..(NumKids - 1)
      BY <1>1, Constants DEF Kids
    <3>3. QED
      BY <3>1, <3>2 DEF Kids
  <2>4. QED
    BY <1>1, <1>4, <2>1, <2>2, <2>3, ParentTyped
<1>13. CASE Tick \/ Refill \/ Lose
  <2>1. UNCHANGED <<kid, file, result, inbox, seq, killed, ppc, at, sent, light, retries>>
    BY <1>13 DEF Tick, Refill, Lose, netVars, pubVars
  <2>2. credit' \in 0..Window
    BY <1>1, <1>13, Constants DEF Tick, Refill, Lose, netVars
  <2>3. lost' \in BOOLEAN /\ late' \in BOOLEAN
    BY <1>1, <1>13, Zenon DEF Tick, Refill, Lose, netVars
  <2>4. QED
    BY <1>1, <1>4, <2>1, <2>2, <2>3, ParentTyped
<1>14. QED
  BY <1>5, <1>6, <1>7, <1>8, <1>9, <1>10, <1>11, <1>12, <1>13 DEF Parent
-----------------------------------------------------------------------------
(***************************************************************************)
(* Sequences of numbers.                                                   *)
(***************************************************************************)

\* The prefixes of what was received stay when more is received.
LEMMA PrefixKept ==
    ASSUME NEW s \in Seq(Nat), NEW t \in Seq(Nat), NEW n \in Nat, n <= Len(s)
    PROVE  n <= Len(s \o t) /\ SubSeq(s \o t, 1, n) = SubSeq(s, 1, n)
<1>1. Len(s \o t) = Len(s) + Len(t) /\ \A j \in 1..Len(s) : (s \o t)[j] = s[j]
  OBVIOUS
<1>2. QED
  BY <1>1

\* recv() takes the first message.
LEMMA FirstAlone ==
    ASSUME NEW s \in Seq(Nat), s # << >>
    PROVE  SubSeq(s, 1, 1) = <<Head(s)>>
<1> DEFINE t == SubSeq(s, 1, 1)
<1>1. Len(s) \in Nat /\ Len(s) > 0
  OBVIOUS
<1>2. t \in Seq(Nat) /\ Len(t) = 1 /\ t[1] = s[1]
  BY <1>1
<1>3. Head(s) = s[1]
  BY <1>1
<1> HIDE DEF t
<1>4. t = <<s[1]>>
  BY <1>2
<1>5. QED
  BY <1>3, <1>4 DEF t

\* The neighbours of a sequence are finitely many.
LEMMA NeighboursFinite ==
    ASSUME NEW s \in Seq(Nat), NEW A \in SUBSET (2..Len(s))
    PROVE  IsFiniteSet(A) /\ Cardinality(A) \in Nat
<1>1. 2 \in Int /\ Len(s) \in Int
  OBVIOUS
<1>2. IsFiniteSet(2..Len(s))
  BY <1>1, FS_Interval
<1>3. IsFiniteSet(A)
  BY <1>2, FS_Subset
<1>4. QED
  BY <1>3, FS_CardinalityType

\* Where nothing is left out and nothing repeated, each number is the next one.
LEMMA NothingNext ==
    /\ Skips(<< >>) = 0 /\ Repeats(<< >>) = 0
    /\ \A s \in Seq(Nat) :
          Skips(s) = 0 /\ Repeats(s) = 0 => \A j \in 2..Len(s) : s[j] = s[j - 1] + 1
<1>1. Skips(<< >>) = 0 /\ Repeats(<< >>) = 0
  <2>1. {j \in 2..Len(<< >>) : << >>[j] > << >>[j - 1] + 1} = {}
    OBVIOUS
  <2>2. {j \in 2..Len(<< >>) : << >>[j] <= << >>[j - 1]} = {}
    OBVIOUS
  <2>3. QED
    BY <2>1, <2>2, FS_EmptySet DEF Skips, Repeats
<1>2. ASSUME NEW s \in Seq(Nat), Skips(s) = 0, Repeats(s) = 0, NEW j \in 2..Len(s)
      PROVE  s[j] = s[j - 1] + 1
  <2>1. j \in 1..Len(s) /\ j - 1 \in 1..Len(s)
    OBVIOUS
  <2>2. s[j] \in Nat /\ s[j - 1] \in Nat
    BY <2>1
  <2> DEFINE A == {i \in 2..Len(s) : s[i] > s[i - 1] + 1}
             B == {i \in 2..Len(s) : s[i] <= s[i - 1]}
  <2>3. A = {} /\ B = {}
    <3>1. Cardinality(A) = 0 /\ Cardinality(B) = 0
      BY <1>2 DEF Skips, Repeats
    <3>2. A \in SUBSET (2..Len(s)) /\ B \in SUBSET (2..Len(s))
      OBVIOUS
    <3> HIDE DEF A, B
    <3>3. IsFiniteSet(A) /\ IsFiniteSet(B)
      BY <3>2, NeighboursFinite
    <3>4. QED
      BY <3>1, <3>3, FS_EmptySet
  <2>4. ~(s[j] > s[j - 1] + 1) /\ ~(s[j] <= s[j - 1])
    <3>1. j \notin A /\ j \notin B
      BY <2>3
    <3>2. QED
      BY <3>1
  <2>5. QED
    BY <2>2, <2>4
<1>3. QED
  BY <1>1, <1>2

\* And the other way round.
LEMMA NextNothing ==
    ASSUME NEW s \in Seq(Nat), \A j \in 2..Len(s) : s[j] = s[j - 1] + 1
    PROVE  Skips(s) = 0 /\ Repeats(s) = 0
<1>1. ASSUME NEW j \in 2..Len(s)
      PROVE  ~(s[j] > s[j - 1] + 1) /\ ~(s[j] <= s[j - 1])
  <2>1. s[j] = s[j - 1] + 1 /\ s[j - 1] \in Nat
    <3>1. j - 1 \in 1..Len(s)
      OBVIOUS
    <3>2. QED
      BY <3>1
  <2>2. QED
    BY <2>1
<1>2. {j \in 2..Len(s) : s[j] > s[j - 1] + 1} = {} /\ {j \in 2..Len(s) : s[j] <= s[j - 1]} = {}
  BY <1>1
<1>3. QED
  BY <1>2, FS_EmptySet DEF Skips, Repeats

\* One more number makes one more pair of neighbours, whose gap or repetition
\* is what ordering.php compares with $lastSeq.
LEMMA OneMore ==
    ASSUME NEW s \in Seq(Nat), NEW q \in Nat
    PROVE  /\ Skips(s \o <<q>>) =
                 Skips(s) + (IF s # << >> /\ q > s[Len(s)] + 1 THEN 1 ELSE 0)
           /\ Repeats(s \o <<q>>) =
                 Repeats(s) + (IF s # << >> /\ q <= s[Len(s)] THEN 1 ELSE 0)
<1> DEFINE t == s \o <<q>>
           m == Len(s)
<1>1. /\ m \in Nat /\ t \in Seq(Nat) /\ Len(t) = m + 1 /\ t[m + 1] = q
      /\ \A j \in 1..m : t[j] = s[j] /\ s[j] \in Nat
      /\ s = << >> <=> m = 0
  OBVIOUS
<1> HIDE DEF t, m
<1>2. ASSUME NEW A \in SUBSET (2..m), NEW B, NEW p \in BOOLEAN,
             B = A \cup (IF p THEN {m + 1} ELSE {})
      PROVE  Cardinality(B) = Cardinality(A) + (IF p THEN 1 ELSE 0)
  <2>1. IsFiniteSet(A) /\ Cardinality(A) \in Nat /\ m + 1 \notin A
    <3>1. IsFiniteSet(A) /\ Cardinality(A) \in Nat
      BY NeighboursFinite DEF m
    <3>2. m + 1 \notin A
      BY <1>1
    <3>3. QED
      BY <3>1, <3>2
  <2>2. CASE p
    BY <1>2, <2>1, <2>2, FS_AddElement
  <2>3. CASE ~p
    BY <1>2, <2>1, <2>3
  <2>4. QED
    BY <2>2, <2>3
<1>3. Skips(t) = Skips(s) + (IF s # << >> /\ q > s[m] + 1 THEN 1 ELSE 0)
  <2> DEFINE A == {j \in 2..m : s[j] > s[j - 1] + 1}
             B == {j \in 2..(m + 1) : t[j] > t[j - 1] + 1}
             p == s # << >> /\ q > s[m] + 1
  <2>1. ASSUME NEW j
        PROVE  j \in B <=> j \in A \/ (p /\ j = m + 1)
    <3>1. CASE j \in 2..m
      <4>1. j \in 1..m /\ j - 1 \in 1..m /\ j \in 2..(m + 1) /\ j # m + 1
        BY <1>1, <3>1
      <4>2. t[j] = s[j] /\ t[j - 1] = s[j - 1]
        BY <1>1, <4>1
      <4>3. QED
        BY <3>1, <4>1, <4>2
    <3>2. CASE j = m + 1
      BY <1>1, <3>2
    <3>3. CASE j \notin 2..(m + 1)
      BY <1>1, <3>3
    <3>4. QED
      BY <1>1, <3>1, <3>2, <3>3
  <2>2. A \in SUBSET (2..m) /\ p \in BOOLEAN
    OBVIOUS
  <2>3. Skips(s) = Cardinality(A) /\ Skips(t) = Cardinality(B)
    BY <1>1 DEF Skips, m
  <2> HIDE DEF A, B, p
  <2>4. B = A \cup (IF p THEN {m + 1} ELSE {})
    BY <2>1
  <2>5. Skips(t) = Skips(s) + (IF p THEN 1 ELSE 0)
    BY <1>2, <2>2, <2>3, <2>4
  <2>6. QED
    BY <2>5 DEF p
<1>4. Repeats(t) = Repeats(s) + (IF s # << >> /\ q <= s[m] THEN 1 ELSE 0)
  <2> DEFINE A == {j \in 2..m : s[j] <= s[j - 1]}
             B == {j \in 2..(m + 1) : t[j] <= t[j - 1]}
             p == s # << >> /\ q <= s[m]
  <2>1. ASSUME NEW j
        PROVE  j \in B <=> j \in A \/ (p /\ j = m + 1)
    <3>1. CASE j \in 2..m
      <4>1. j \in 1..m /\ j - 1 \in 1..m /\ j \in 2..(m + 1) /\ j # m + 1
        BY <1>1, <3>1
      <4>2. t[j] = s[j] /\ t[j - 1] = s[j - 1]
        BY <1>1, <4>1
      <4>3. QED
        BY <3>1, <4>1, <4>2
    <3>2. CASE j = m + 1
      BY <1>1, <3>2
    <3>3. CASE j \notin 2..(m + 1)
      BY <1>1, <3>3
    <3>4. QED
      BY <1>1, <3>1, <3>2, <3>3
  <2>2. A \in SUBSET (2..m) /\ p \in BOOLEAN
    OBVIOUS
  <2>3. Repeats(s) = Cardinality(A) /\ Repeats(t) = Cardinality(B)
    BY <1>1 DEF Repeats, m
  <2> HIDE DEF A, B, p
  <2>4. B = A \cup (IF p THEN {m + 1} ELSE {})
    BY <2>1
  <2>5. Repeats(t) = Repeats(s) + (IF p THEN 1 ELSE 0)
    BY <1>2, <2>2, <2>3, <2>4
  <2>6. QED
    BY <2>5 DEF p
<1>5. QED
  BY <1>3, <1>4 DEF t, m
-----------------------------------------------------------------------------
(***************************************************************************)
(* What is reported.                                                       *)
(***************************************************************************)

\* Every text the scripts write is true when it is written.
LEMMA TextsTrue ==
    ASSUME TypeOK, NEW k \in Kids, Counted(k)
    PROVE  \A c \in {Empty, Gone, ReadyMark, Count(k)} : TrueOf(c, script, log[k])
<1>1. log[k] \in Seq(Nat) /\ Len(log[k]) \in Nat /\ kid[k] \in KidType
  BY KidsHaveSlots DEF TypeOK, KidType, KidStates
<1>2. TrueOf(Empty, script, log[k]) /\ TrueOf(Gone, script, log[k])
  BY DEF TrueOf, Empty, Gone, Content
<1>3. TrueOf(ReadyMark, script, log[k])
  BY <1>1 DEF TrueOf, ReadyMark, Content
<1>4. TrueOf(Count(k), script, log[k])
  <2>1. SubSeq(log[k], 1, Len(log[k])) = log[k]
    BY <1>1
  <2>2. /\ Count(k).text = "count" /\ Count(k).n = Len(log[k])
        /\ Count(k).gaps = kid[k].gaps /\ Count(k).dup = kid[k].dup
    BY DEF Count, Content, Counted
  <2>3. script = "ordering" => kid[k].gaps = Skips(log[k]) /\ kid[k].dup = Repeats(log[k])
    BY DEF Counted
  <2>4. Count(k).n <= Len(log[k])
    BY <1>1, <2>2
  <2>5. SubSeq(log[k], 1, Count(k).n) = log[k]
    BY <2>1, <2>2
  <2>6. QED
    BY <2>2, <2>3, <2>4, <2>5, Zenon DEF TrueOf
<1>5. QED
  BY <1>2, <1>3, <1>4

\* A step after which the child k has received nothing more, and in which the
\* texts about it are copied, or written anew from what it counts.
Quiet(k) ==
    /\ UNCHANGED script /\ log'[k] = log[k]
    /\ kid'[k].count = kid[k].count /\ kid'[k].gaps = kid[k].gaps
    /\ kid'[k].dup = kid[k].dup /\ kid'[k].last = kid[k].last
    /\ {kid'[k].put, file'[k], result'[k]} \subseteq
          {kid[k].put, file[k], result[k], Empty, Gone, ReadyMark, Count(k)}

\* Such a step leaves what is counted and reported true.
LEMMA QuietStep ==
    ASSUME TypeOK, NEW k \in Kids, Counted(k), Reported(k), Quiet(k)
    PROVE  Counted(k)' /\ Reported(k)'
<1>1. N' = N /\ script' = script
  BY SameScript DEF Quiet
<1>2. Counted(k)'
  BY <1>1 DEF Counted, Quiet
<1>3. \A c \in {kid[k].put, file[k], result[k], Empty, Gone, ReadyMark, Count(k)} :
         TrueOf(c, script, log[k])
  BY TextsTrue DEF Reported
<1>4. \A c \in {kid'[k].put, file'[k], result'[k]} : TrueOf(c, script', log'[k])
  BY <1>3 DEF Quiet
<1>5. QED
  BY <1>2, <1>4 DEF Reported

\* A child does nothing but its own work, in which only recv() and recvBatch()
\* change what it has counted.
LEMMA ChildIsQuiet ==
    ASSUME TypeOK, NEW j \in Kids, Child(j) \/ Die(j) \/ End(j), ~ChildRecv(j), NEW k \in Kids
    PROVE  Quiet(k)
<1>1. /\ j \in Slots /\ k \in Slots
      /\ kid \in [Slots -> KidType] /\ file \in [Slots -> Contents]
      /\ kid[j] \in KidType
  BY KidsHaveSlots DEF TypeOK, KidType, KidStates
<1>2. UNCHANGED <<script, log, result>>
  BY DEF Child, Die, End, ChildOpen, ChildFails, ChildReady, ChildWrite, ChildReport,
         ChildDone, parentVars
<1>3. ASSUME NEW c, Goto(j, c), UNCHANGED file
      PROVE  Quiet(k)
  <2>1. /\ kid'[k].count = kid[k].count /\ kid'[k].gaps = kid[k].gaps
        /\ kid'[k].dup = kid[k].dup /\ kid'[k].last = kid[k].last
        /\ kid'[k].put = kid[k].put
    BY <1>1, <1>3 DEF Goto, KidType
  <2>2. QED
    BY <1>2, <1>3, <2>1 DEF Quiet
<1>4. ASSUME NEW text \in {ReadyMark, Count(j)}, NEW then, Put(j, text, then)
      PROVE  Quiet(k)
  <2>1. /\ kid'[k].count = kid[k].count /\ kid'[k].gaps = kid[k].gaps
        /\ kid'[k].dup = kid[k].dup /\ kid'[k].last = kid[k].last
    BY <1>1, <1>4 DEF Put, KidType
  <2>2. kid'[k].put \in {kid[k].put, ReadyMark, Count(k)}
    <3>1. k # j => kid'[k] = kid[k]
      BY <1>1, <1>4 DEF Put
    <3>2. k = j => kid'[k].put = text
      BY <1>1, <1>4 DEF Put, KidType
    <3>3. QED
      BY <3>1, <3>2
  <2>3. file'[k] \in {file[k], Empty}
    BY <1>1, <1>4 DEF Put
  <2>4. QED
    BY <1>2, <2>1, <2>2, <2>3 DEF Quiet
<1>5. CASE ChildOpen(j) \/ ChildFails(j) \/ Die(j)
  BY <1>3, <1>5 DEF ChildOpen, ChildFails, Die
<1>6. CASE ChildReady(j) \/ ChildReport(j)
  BY <1>4, <1>6 DEF ChildReady, ChildReport
<1>7. CASE ChildDone(j)
  BY <1>3, <1>4, <1>7 DEF ChildDone
<1>8. CASE ChildWrite(j)
  <2>1. /\ kid'[k].count = kid[k].count /\ kid'[k].gaps = kid[k].gaps
        /\ kid'[k].dup = kid[k].dup /\ kid'[k].last = kid[k].last
    BY <1>1, <1>8 DEF ChildWrite, KidType
  <2>2. kid'[k].put \in {kid[k].put, Empty}
    BY <1>1, <1>8 DEF ChildWrite, KidType
  <2>3. file'[k] \in {file[k], kid[k].put}
    BY <1>1, <1>8 DEF ChildWrite
  <2>4. QED
    BY <1>2, <2>1, <2>2, <2>3 DEF Quiet
<1>9. CASE End(j)
  BY <1>2, <1>9 DEF End, Quiet
<1>10. QED
  BY <1>5, <1>6, <1>7, <1>8, <1>9 DEF Child

\* The parent only reads the counts.
LEMMA ParentIsQuiet ==
    ASSUME TypeOK, Parent \/ Tick \/ Refill \/ Lose, NEW k \in Kids
    PROVE  Quiet(k)
<1>1. /\ at \in Slots /\ k \in Slots
      /\ kid \in [Slots -> KidType] /\ file \in [Slots -> Contents]
      /\ result \in [Slots -> Contents]
  BY KidsHaveSlots DEF TypeOK, KidType, KidStates
<1>2. UNCHANGED <<script, log>>
  BY DEF Parent, Tick, Refill, Lose, Fork, WaitRead, WaitTimeout, Connect, PublishOk,
         PublishThrows, PublishDone, PollRead, PollTimeout, Kill, Reap, childVars
<1>3. /\ kid'[k].count = kid[k].count /\ kid'[k].gaps = kid[k].gaps
      /\ kid'[k].dup = kid[k].dup /\ kid'[k].last = kid[k].last
      /\ kid'[k].put = kid[k].put
  <2>1. kid' = kid \/ kid' = [kid EXCEPT ![at].pc = "start"]
    BY DEF Parent, Tick, Refill, Lose, Fork, WaitRead, WaitTimeout, Connect, PublishOk,
           PublishThrows, PublishDone, PollRead, PollTimeout, Kill, Reap
  <2>2. QED
    BY <1>1, <2>1 DEF KidType
<1>4. file'[k] \in {file[k], Empty, Gone}
  <2>1. file' = file \/ file' = [file EXCEPT ![at] = Empty] \/ file' = [file EXCEPT ![at] = Gone]
    BY DEF Parent, Tick, Refill, Lose, Fork, WaitRead, WaitTimeout, Connect, PublishOk,
           PublishThrows, PublishDone, PollRead, PollTimeout, Kill, Reap
  <2>2. QED
    BY <1>1, <2>1
<1>5. result'[k] \in {result[k], file[k]}
  <2>1. result' = result \/ result' = [result EXCEPT ![at] = file[at]]
    BY DEF Parent, Tick, Refill, Lose, Fork, WaitRead, WaitTimeout, Connect, PublishOk,
           PublishThrows, PublishDone, PollRead, PollTimeout, Kill, Reap
  <2>2. QED
    BY <1>1, <2>1
<1>6. QED
  BY <1>2, <1>3, <1>4, <1>5 DEF Quiet

\* A child that receives counts what it has received, and what was reported
\* before stays true of a prefix.
LEMMA RecvStep ==
    ASSUME TypeOK, NEW j \in Kids, ChildRecv(j), NEW k \in Kids, Counted(k), Reported(k)
    PROVE  Counted(k)' /\ Reported(k)'
<1>1. /\ j \in Slots /\ k \in Slots /\ script \in Scripts
      /\ kid \in [Slots -> KidType] /\ kid[j] \in KidType /\ kid[k] \in KidType
      /\ log \in [Slots -> Seq(Nat)] /\ inbox[j] \in Seq(Nat) /\ log[j] \in Seq(Nat)
      /\ file[k] \in Contents /\ result[k] \in Contents
  BY KidsHaveSlots DEF TypeOK, KidType, KidStates
<1> DEFINE b == inbox[j]
           c == IF script = "ordering" THEN Checked(kid[j], Head(b)) ELSE kid[j]
<1>2. PICK n \in 1..(IF script = "bench" THEN BatchSize ELSE 1) :
         /\ n <= Len(b)
         /\ kid' = [kid EXCEPT ![j] = [c EXCEPT !.count = kid[j].count + n,
                       !.pc = IF (kid[j].count + n) % ReportEvery = 0 THEN "report" ELSE "loop"]]
         /\ log' = [log EXCEPT ![j] = @ \o SubSeq(b, 1, n)]
  BY DEF ChildRecv
<1>3. UNCHANGED <<script, file, result>> /\ N' = N
  BY SameScript DEF ChildRecv, parentVars
<1>4. CASE k # j
  <2>1. kid'[k] = kid[k] /\ log'[k] = log[k]
    BY <1>1, <1>2, <1>4
  <2>2. QED
    BY <1>3, <2>1, QuietStep DEF Quiet
<1>5. CASE k = j
  <2>1. n \in Nat /\ n > 0 /\ b # << >> /\ Head(b) \in Nat /\ SubSeq(b, 1, n) \in Seq(Nat)
        /\ Len(SubSeq(b, 1, n)) = n /\ (script # "bench" => n = 1)
    <3>1. n \in Nat /\ n > 0 /\ (script # "bench" => n = 1)
      BY <1>1, Constants
    <3>2. b # << >> /\ Head(b) \in Nat
      <4>1. b # << >> /\ b \in Seq(Nat)
        BY <1>1 DEF ChildRecv
      <4>2. QED
        BY <4>1
    <3>3. SubSeq(b, 1, n) \in Seq(Nat) /\ Len(SubSeq(b, 1, n)) = n
      BY <1>1, <1>2, <3>1
    <3>4. QED
      BY <3>1, <3>2, <3>3
  <2>2. log'[k] = log[k] \o SubSeq(b, 1, n)
    BY <1>1, <1>2, <1>5
  <2>3. c \in KidType /\ c.put = kid[k].put
    BY <1>1, <1>5, <2>1, CheckedFields
  <2>4. /\ kid'[k].count = kid[k].count + n /\ kid'[k].put = kid[k].put
        /\ kid'[k].gaps = c.gaps /\ kid'[k].dup = c.dup /\ kid'[k].last = c.last
    <3> HIDE DEF c
    <3>1. PICK pc : kid' = [kid EXCEPT ![j] = [c EXCEPT !.count = kid[j].count + n, !.pc = pc]]
      BY <1>2
    <3>2. QED
      BY <1>1, <1>5, <2>3, <3>1 DEF KidType
  <2>5. Len(log'[k]) = Len(log[k]) + n /\ Len(log[k]) \in Nat
    BY <1>1, <1>5, <2>1, <2>2
  <2>6. script \in {"ordering", "pool_multiplex"} => Len(log'[k]) <= N
    <3>1. kid[k].count = Len(log[k]) /\ N \in Nat
      BY <1>1, Constants DEF Counted
    <3>2. script \in {"ordering", "pool_multiplex"} => kid[k].count < N /\ n = 1
      BY <1>5, <2>1 DEF ChildRecv, Looping, StopsAtN
    <3>3. QED
      BY <2>5, <3>1, <3>2
  <2>7. ASSUME script = "ordering"
        PROVE  /\ kid'[k].gaps = Skips(log'[k]) /\ kid'[k].dup = Repeats(log'[k])
               /\ kid'[k].last = IF log'[k] = << >> THEN -1 ELSE log'[k][Len(log'[k])]
    <3> DEFINE q == Head(b)
               l == log[k]
    <3>1. n = 1 /\ SubSeq(b, 1, n) = <<q>>
      <4>1. n = 1
        BY <2>1, <2>7
      <4>2. b \in Seq(Nat) /\ b # << >>
        BY <1>1, <2>1
      <4>3. QED
        BY <4>1, <4>2, FirstAlone
    <3>2. log'[k] = l \o <<q>> /\ l \in Seq(Nat) /\ q \in Nat
      BY <1>1, <1>5, <2>1, <2>2, <3>1
    <3>3. /\ c.dup = kid[k].dup + (IF q <= kid[k].last THEN 1 ELSE 0)
          /\ c.gaps = kid[k].gaps +
                (IF q > kid[k].last + 1 /\ kid[k].last >= 0 THEN 1 ELSE 0)
          /\ c.last = q
      BY <1>1, <1>5, <2>1, <2>7, CheckedFields
    <3>4. /\ kid[k].gaps = Skips(l) /\ kid[k].dup = Repeats(l)
          /\ kid[k].last = IF l = << >> THEN -1 ELSE l[Len(l)]
      BY <2>7 DEF Counted
    <3> HIDE DEF c, q, l
    <3>5. /\ Skips(l \o <<q>>) = Skips(l) + (IF l # << >> /\ q > l[Len(l)] + 1 THEN 1 ELSE 0)
          /\ Repeats(l \o <<q>>) = Repeats(l) + (IF l # << >> /\ q <= l[Len(l)] THEN 1 ELSE 0)
      BY <3>2, OneMore
    <3>6. l # << >> => l[Len(l)] \in Nat
      BY <3>2
    <3>7. c.gaps = Skips(l \o <<q>>) /\ c.dup = Repeats(l \o <<q>>)
      BY <3>2, <3>3, <3>4, <3>5, <3>6
    <3>8. l \o <<q>> # << >> /\ (l \o <<q>>)[Len(l \o <<q>>)] = q
      BY <3>2
    <3>9. QED
      BY <2>4, <3>2, <3>3, <3>7, <3>8
  <2>8. Counted(k)'
    BY <1>3, <2>4, <2>5, <2>6, <2>7 DEF Counted
  <2>9. ASSUME NEW d \in {kid[k].put, file[k], result[k]}
        PROVE  TrueOf(d, script, log'[k])
    <3>1. d \in Contents /\ d.n \in Nat
      BY <1>1 DEF KidType, Contents
    <3>2. TrueOf(d, script, log[k])
      BY DEF Reported
    <3>3. d.text = "count" =>
             d.n <= Len(log'[k]) /\ SubSeq(log'[k], 1, d.n) = SubSeq(log[k], 1, d.n)
      BY <1>1, <1>5, <2>1, <2>2, <3>1, <3>2, PrefixKept DEF TrueOf
    <3>4. QED
      BY <3>2, <3>3 DEF TrueOf
  <2>10. Reported(k)'
    BY <1>3, <2>4, <2>9 DEF Reported
  <2>11. QED
    BY <2>8, <2>10
<1>6. QED
  BY <1>4, <1>5
-----------------------------------------------------------------------------
(***************************************************************************)
(* What is left behind.                                                    *)
(***************************************************************************)

\* A child that has exited stays so, and nobody writes its file for it.
LEMMA ExitedStays ==
    ASSUME TypeOK, NEW j \in Kids, Child(j) \/ Die(j) \/ End(j),
           NEW k \in Kids, kid[k].pc = "exited"
    PROVE  kid'[k] = kid[k] /\ file'[k] = file[k]
<1>1. /\ j \in Slots /\ k \in Slots
      /\ kid \in [Slots -> KidType] /\ file \in [Slots -> Contents]
  BY KidsHaveSlots DEF TypeOK, KidType, KidStates
<1>2. CASE End(j)
  BY <1>2 DEF End
<1>3. CASE Child(j) \/ Die(j)
  <2>1. k # j
    BY <1>3 DEF Child, Die, ChildOpen, ChildFails, ChildReady, ChildWrite, ChildRecv,
                ChildReport, ChildDone, Looping
  <2>2. ASSUME NEW r, kid' = [kid EXCEPT ![j] = r]
        PROVE  kid'[k] = kid[k]
    BY <1>1, <2>1, <2>2
  <2>3. \E r : kid' = [kid EXCEPT ![j] = r]
    BY <1>3 DEF Child, Die, ChildOpen, ChildFails, ChildReady, ChildWrite, ChildRecv,
                ChildReport, ChildDone, Goto, Put
  <2>4. file' = file \/ \E t : file' = [file EXCEPT ![j] = t]
    BY <1>3 DEF Child, Die, ChildOpen, ChildFails, ChildReady, ChildWrite, ChildRecv,
                ChildReport, ChildDone, Goto, Put
  <2>5. QED
    BY <1>1, <2>1, <2>2, <2>3, <2>4
<1>4. QED
  BY <1>2, <1>3

\* No child disturbs what the parent has swept.
LEMMA ChildSwept ==
    ASSUME TypeOK, Swept, NEW j \in Kids, Child(j) \/ Die(j) \/ End(j)
    PROVE  Swept'
<1>1. UNCHANGED <<script, ppc, at>> /\ Kids' = Kids
  BY SameScript DEF Child, Die, End, ChildOpen, ChildFails, ChildReady, ChildWrite, ChildRecv,
                    ChildReport, ChildDone, parentVars
<1>2. Gone' = Gone
  BY DEF Gone, Content
<1>3. ASSUME NEW k \in Kids, kid[k].pc = "exited" /\ file[k] = Gone
      PROVE  kid'[k].pc = "exited" /\ file'[k] = Gone
  BY <1>3, ExitedStays
<1>4. QED
  BY <1>1, <1>2, <1>3 DEF Swept, CleanEnd

\* The parent kills, reaps and unlinks one child after the other.
LEMMA ParentSwept ==
    ASSUME TypeOK, Swept, Parent \/ Tick \/ Refill \/ Lose
    PROVE  Swept'
<1>1. /\ script \in Scripts /\ at \in Kids /\ at \in Slots /\ Kids \subseteq Slots
      /\ kid \in [Slots -> KidType] /\ file \in [Slots -> Contents]
      /\ NumKids \in Nat /\ NumKids > 0 /\ Kids = 0..(NumKids - 1)
  BY KidsHaveSlots, Constants DEF TypeOK, KidType, KidStates, Kids
<1>2. UNCHANGED script /\ Kids' = Kids
  BY SameScript DEF Parent, Tick, Refill, Lose, Fork, WaitRead, WaitTimeout, Connect, PublishOk,
         PublishThrows, PublishDone, PollRead, PollTimeout, Kill, Reap
<1>3. ASSUME ppc' \in {"fork", "wait", "poll", "died"}
      PROVE  Swept'
  BY <1>3 DEF Swept, CleanEnd
<1>4. ASSUME ppc' \in {"connect", "publish", "collect"}, at' = 0
      PROVE  Swept'
  BY <1>1, <1>2, <1>4 DEF Swept, CleanEnd
<1>5. ASSUME UNCHANGED <<kid, file, ppc, at>>
      PROVE  Swept'
  BY <1>2, <1>5 DEF Swept, CleanEnd
<1>6. CASE Fork
  BY <1>3, <1>6 DEF Fork, Advance
<1>7. CASE WaitRead
  BY <1>3, <1>4, <1>7 DEF WaitRead, Advance
<1>8. CASE WaitTimeout \/ PollTimeout
  BY <1>4, <1>8 DEF WaitTimeout, PollTimeout
<1>9. CASE Connect
  BY <1>3, <1>4, <1>9 DEF Connect, Swept
<1>10. CASE PublishOk \/ PublishThrows
  BY <1>3, <1>5, <1>10 DEF PublishOk, PublishThrows
<1>11. CASE PublishDone
  BY <1>3, <1>4, <1>11 DEF PublishDone, Swept
<1>12. CASE PollRead
  <2>1. PICK next \in {"poll", "collect"} : Advance(next) /\ ppc = "poll"
    BY <1>12 DEF PollRead
  <2>2. QED
    BY <1>3, <1>4, <2>1 DEF Advance
<1>13. CASE Kill
  <2>1. ppc = "collect" /\ ppc' = "reap" /\ UNCHANGED <<kid, file, at>>
    BY <1>13 DEF Kill
  <2>2. QED
    BY <1>2, <2>1 DEF Swept, CleanEnd
<1>14. CASE Reap
  <2>1. /\ ppc = "reap" /\ kid[at].pc = "exited" /\ kid' = kid
        /\ file' = [file EXCEPT ![at] = Gone]
        /\ IF at = NumKids - 1 THEN ppc' = "end" /\ at' = at
                               ELSE ppc' = "collect" /\ at' = at + 1
    BY <1>14 DEF Reap, pcntl_waitpid
  <2>2. \A k \in Kids : k <= at => kid'[k].pc = "exited" /\ file'[k] = Gone
    BY <1>1, <2>1 DEF Swept
  <2>3. \A k \in Kids : at = NumKids - 1 \/ k < at + 1 => k <= at
    BY <1>1
  <2>4. QED
    BY <1>2, <2>1, <2>2, <2>3 DEF Swept, CleanEnd
<1>15. CASE Tick \/ Refill \/ Lose
  BY <1>5, <1>15 DEF Tick, Refill, Lose
<1>16. QED
  BY <1>6, <1>7, <1>8, <1>9, <1>10, <1>11, <1>12, <1>13, <1>14, <1>15 DEF Parent

\* No child writes what the parent has read.
LEMMA ChildUnread ==
    ASSUME Unread, NEW j \in Kids, Child(j) \/ Die(j) \/ End(j)
    PROVE  Unread'
<1>1. UNCHANGED <<script, ppc, at, result>> /\ Kids' = Kids
  BY SameScript DEF Child, Die, End, ChildOpen, ChildFails, ChildReady, ChildWrite, ChildRecv,
                    ChildReport, ChildDone, parentVars
<1>2. Empty' = Empty
  BY DEF Empty, Content
<1>3. QED
  BY <1>1, <1>2 DEF Unread

\* The parent of hol_congestion.php reads the counts in the order in which it
\* kills the children.
LEMMA ParentUnread ==
    ASSUME TypeOK, Swept, Unread, Parent \/ Tick \/ Refill \/ Lose
    PROVE  Unread'
<1>1. UNCHANGED script /\ Kids' = Kids
  BY SameScript DEF Parent, Tick, Refill, Lose, Fork, WaitRead, WaitTimeout, Connect, PublishOk,
         PublishThrows, PublishDone, PollRead, PollTimeout, Kill, Reap
<1>2. SUFFICES ASSUME script = "hol_congestion"
               PROVE  Unread'
  BY <1>1 DEF Unread
<1>3. ppc # "poll" /\ at \in Kids /\ Kids \subseteq Nat /\ at \in Slots
      /\ result \in [Slots -> Contents] /\ Kids \subseteq Slots
  BY <1>2, KidsHaveSlots DEF Unread, TypeOK
<1>4. ASSUME UNCHANGED result, ppc \in {"fork", "wait", "connect", "publish"},
             ppc' \in {"fork", "wait", "connect", "publish", "collect", "died"}
      PROVE  Unread'
  <2>1. \A k \in Kids : result'[k] = Empty
    BY <1>2, <1>4 DEF Unread
  <2>2. QED
    BY <1>1, <1>4, <2>1 DEF Unread
<1>5. ASSUME UNCHANGED <<result, ppc, at>>
      PROVE  Unread'
  BY <1>1, <1>5 DEF Unread
<1>6. CASE Fork \/ WaitRead \/ WaitTimeout \/ Connect
  <2>1. /\ UNCHANGED result /\ ppc \in {"fork", "wait", "connect"}
        /\ ppc' \in {"fork", "wait", "connect", "publish", "died"}
    BY <1>6 DEF Fork, WaitRead, WaitTimeout, Connect, Advance
  <2>2. QED
    BY <1>4, <2>1
<1>7. CASE PublishOk \/ PublishThrows
  <2>1. UNCHANGED result /\ ppc = "publish" /\ ppc' \in {"publish", "died"}
    BY <1>7 DEF PublishOk, PublishThrows
  <2>2. QED
    BY <1>4, <2>1
<1>8. CASE PublishDone
  <2>1. UNCHANGED result /\ ppc = "publish" /\ ppc' = "collect"
    BY <1>2, <1>8 DEF PublishDone
  <2>2. QED
    BY <1>4, <2>1
<1>9. CASE PollRead \/ PollTimeout
  BY <1>3, <1>9 DEF PollRead, PollTimeout
<1>10. CASE Kill
  <2>1. /\ ppc = "collect" /\ ppc' = "reap" /\ at' = at
        /\ result' = [result EXCEPT ![at] = file[at]]
    BY <1>2, <1>10 DEF Kill
  <2>2. ASSUME NEW k \in Kids, k > at
        PROVE  result'[k] = Empty
    <3>1. result'[k] = result[k] /\ k >= at
      BY <1>3, <2>1, <2>2
    <3>2. QED
      BY <1>2, <2>1, <3>1 DEF Unread
  <2>3. QED
    BY <1>1, <2>1, <2>2 DEF Unread
<1>11. CASE Reap
  <2>1. /\ ppc = "reap" /\ UNCHANGED result
        /\ ppc' = "end" \/ (ppc' = "collect" /\ at' = at + 1)
    BY <1>2, <1>11 DEF Reap
  <2>2. ASSUME NEW k \in Kids, k >= at + 1
        PROVE  result'[k] = Empty
    <3>1. k > at
      BY <1>3, <2>2
    <3>2. QED
      BY <1>2, <2>1, <3>1 DEF Unread
  <2>3. QED
    BY <1>1, <2>1, <2>2 DEF Unread
<1>12. CASE Tick \/ Refill \/ Lose
  BY <1>5, <1>12 DEF Tick, Refill, Lose
<1>13. QED
  BY <1>6, <1>7, <1>8, <1>9, <1>10, <1>11, <1>12 DEF Parent
-----------------------------------------------------------------------------
(***************************************************************************)
(* The theorems.                                                           *)
(***************************************************************************)

\* Before the parent forks, nothing was received and nothing is reported.
LEMMA InitIInv == Init => IInv
<1> SUFFICES ASSUME Init
             PROVE  IInv
  OBVIOUS
<1>1. /\ script \in Scripts /\ Kids \subseteq Slots /\ 0 \in Kids
      /\ NumStreams \in Nat /\ NumStreams > 1 /\ Window \in Nat /\ MaxRetries \in Nat
      /\ N \in Nat /\ N > 0
  BY KidsHaveSlots, Constants DEF Init
<1>2. Empty \in Contents /\ Gone \in Contents
  BY ContentsTyped
<1>3. kid \in [Slots -> KidType]
  BY <1>2 DEF Init, KidType, KidStates
<1>4. TypeOK
  <2>1. file \in [Slots -> Contents] /\ result \in [Slots -> Contents]
    BY <1>2 DEF Init
  <2>2. inbox \in [Slots -> Seq(Nat)] /\ log \in [Slots -> Seq(Nat)] /\ seq \in [Slots -> Nat]
    BY DEF Init
  <2>3. /\ ended \subseteq Kids /\ killed \subseteq Kids /\ ppc = "fork" /\ at \in Kids
        /\ sent \in 0..N /\ light \in 1..NumStreams /\ retries \in 0..MaxRetries
        /\ credit \in 0..Window
    BY <1>1 DEF Init
  <2>4. lost \in BOOLEAN /\ late \in BOOLEAN
    BY Zenon DEF Init
  <2>5. QED
    BY <1>1, <1>3, <2>1, <2>2, <2>3, <2>4 DEF TypeOK, KidType, KidStates
<1>5. Swept /\ Unread
  <2>1. Swept
    BY DEF Init, Swept, CleanEnd
  <2>2. Unread
    BY <1>1 DEF Init, Unread
  <2>3. QED
    BY <2>1, <2>2
<1>6. ASSUME NEW k \in Kids
      PROVE  Counted(k) /\ Reported(k)
  <2>1. /\ log[k] = << >> /\ kid[k].count = 0 /\ kid[k].gaps = 0 /\ kid[k].dup = 0
        /\ kid[k].last = -1 /\ kid[k].put = Empty /\ file[k] = Gone /\ result[k] = Empty
    BY <1>1 DEF Init
  <2>2. Len(<< >>) = 0
    OBVIOUS
  <2>3. Skips(<< >>) = 0 /\ Repeats(<< >>) = 0
    BY NothingNext
  <2>4. Counted(k)
    BY <1>1, <2>1, <2>2, <2>3 DEF Counted
  <2>5. Reported(k)
    BY <1>4, <2>1, <2>4, TextsTrue DEF Reported
  <2>6. QED
    BY <2>4, <2>5
<1>7. QED
  BY <1>4, <1>5, <1>6 DEF IInv

\* Every step keeps the invariant.
LEMMA Inductive == IInv /\ [Next]_vars => IInv'
<1> SUFFICES ASSUME IInv, [Next]_vars
             PROVE  IInv'
  OBVIOUS
<1>1. TypeOK /\ Swept /\ Unread /\ \A k \in Kids : Counted(k) /\ Reported(k)
  BY DEF IInv
<1>2. ASSUME NEW j \in Kids, Child(j) \/ Die(j) \/ End(j)
      PROVE  IInv'
  <2>1. Kids' = Kids
    BY <1>2, SameScript DEF Child, Die, End, ChildOpen, ChildFails, ChildReady, ChildWrite,
                            ChildRecv, ChildReport, ChildDone, parentVars
  <2>2. TypeOK' /\ Swept' /\ Unread'
    BY <1>1, <1>2, ChildType, ChildSwept, ChildUnread
  <2>3. ASSUME NEW k \in Kids
        PROVE  Counted(k)' /\ Reported(k)'
    <3>1. CASE ChildRecv(j)
      BY <1>1, <3>1, RecvStep
    <3>2. CASE ~ChildRecv(j)
      BY <1>1, <1>2, <3>2, ChildIsQuiet, QuietStep
    <3>3. QED
      BY <3>1, <3>2
  <2>4. QED
    BY <2>1, <2>2, <2>3 DEF IInv
<1>3. CASE Parent \/ Tick \/ Refill \/ Lose
  <2>1. Kids' = Kids
    BY <1>3, SameScript DEF Parent, Tick, Refill, Lose, Fork, WaitRead, WaitTimeout, Connect,
         PublishOk, PublishThrows, PublishDone, PollRead, PollTimeout, Kill, Reap
  <2>2. TypeOK' /\ Swept' /\ Unread'
    BY <1>1, <1>3, ParentType, ParentSwept, ParentUnread
  <2>3. ASSUME NEW k \in Kids
        PROVE  Counted(k)' /\ Reported(k)'
    BY <1>1, <1>3, ParentIsQuiet, QuietStep
  <2>4. QED
    BY <2>1, <2>2, <2>3 DEF IInv
<1>4. CASE UNCHANGED vars
  <2>1. /\ UNCHANGED <<script, kid, file, inbox, seq, credit, lost, ended, killed, log, ppc>>
        /\ UNCHANGED <<at, sent, light, retries, late, result>> /\ Kids' = Kids /\ N' = N
    BY <1>4, SameScript DEF vars, netVars, pubVars
  <2>2. TypeOK'
    BY <1>1, <2>1 DEF TypeOK
  <2>3. Swept' /\ Unread'
    BY <1>1, <2>1 DEF Swept, CleanEnd, Unread
  <2>4. \A k \in Kids : Counted(k)' /\ Reported(k)'
    BY <1>1, <2>1 DEF Counted, Reported
  <2>5. QED
    BY <2>1, <2>2, <2>3, <2>4 DEF IInv
<1>5. QED
  BY <1>2, <1>3, <1>4 DEF Next

\* The invariant holds in every reachable state.
LEMMA Invariance == Spec => []IInv
BY InitIInv, Inductive, PTL DEF Spec

\* The processes, the files and the publishing loop are well typed, for any
\* number of children, messages and retries.
THEOREM TypeCorrect == Spec => []TypeOK
<1>1. IInv => TypeOK
  BY DEF IInv
<1>2. QED
  BY <1>1, Invariance, PTL

\* Whatever a file holds, and whatever the parent has read, is true of what
\* the child had received, however its writes and the parent's reads and
\* signals interleave.
THEOREM ReportsCorrect == Spec => []ReportsTruthful
<1>1. IInv => ReportsTruthful
  BY DEF IInv, ReportsTruthful, Reported, TrueOf, Truthful
<1>2. QED
  BY <1>1, Invariance, PTL

\* After the cleanup no child runs, and no file is there that one of them has
\* written after unlink().
THEOREM CleanCorrect == Spec => []CleanEnd
<1>1. IInv => CleanEnd
  BY DEF IInv, Swept
<1>2. QED
  BY <1>1, Invariance, PTL

\* A PASS of ordering.php: as many as published, each one above the one before.
LEMMA OrderingSound ==
    ASSUME IInv, script = "ordering", Passes
    PROVE  Len(log[0]) = N /\ \A j \in 2..N : log[0][j] = log[0][j - 1] + 1
<1> DEFINE l == log[0]
           r == result[0]
<1>1. /\ l \in Seq(Nat) /\ Len(l) \in Nat /\ N \in Nat /\ N > 0 /\ 0 \in Kids
      /\ TrueOf(r, script, l) /\ Len(l) <= N
  BY KidsHaveSlots, Constants DEF IInv, TypeOK, Counted, Reported
<1>2. r.n = N /\ r.gaps = 0 /\ r.dup = 0
  BY DEF Passes
<1>3. /\ r.text = "count" /\ N <= Len(l)
      /\ Skips(SubSeq(l, 1, N)) = 0 /\ Repeats(SubSeq(l, 1, N)) = 0
  BY <1>1, <1>2 DEF TrueOf
<1>4. Len(l) = N
  BY <1>1, <1>3
<1> HIDE DEF l, r
<1>5. SubSeq(l, 1, N) = l
  BY <1>1, <1>4
<1>6. \A j \in 2..N : l[j] = l[j - 1] + 1
  BY <1>1, <1>3, <1>4, <1>5, NothingNext
<1>7. QED
  BY <1>4, <1>6 DEF l

\* A true count is of messages that were received.
LEMMA TrueCount ==
    ASSUME NEW c \in Contents, NEW l \in Seq(Nat), TrueOf(c, script, l)
    PROVE  /\ Len(l) \in Nat /\ AsInt(c) \in Nat /\ AsInt(c) <= Len(l)
           /\ AsInt(c) # 0 => l # << >>
<1>1. Len(l) \in Nat /\ (l = << >> => Len(l) = 0)
  OBVIOUS
<1>2. AsInt(c) \in Nat /\ AsInt(c) <= Len(l)
  BY <1>1 DEF AsInt, TrueOf, Contents
<1>3. QED
  BY <1>1, <1>2

\* What was counted for a child it has received.
LEMMA CountReceived ==
    ASSUME IInv, NEW k \in Kids
    PROVE  /\ Len(log[k]) \in Nat /\ AsInt(result[k]) \in Nat
           /\ AsInt(result[k]) <= Len(log[k])
           /\ AsInt(result[k]) # 0 => log[k] # << >>
<1>1. log[k] \in Seq(Nat) /\ result[k] \in Contents /\ TrueOf(result[k], script, log[k])
  BY KidsHaveSlots DEF IInv, TypeOK, Reported
<1>2. QED
  BY <1>1, TrueCount

\* True counts, taken together, do not exceed what all children have received,
\* although each was read at a time of its own.
LEMMA TotalReceived ==
    ASSUME script \in Scripts, NEW r,
           \A k \in Kids : Len(log[k]) \in Nat /\ AsInt(r[k]) \in Nat /\ AsInt(r[k]) <= Len(log[k])
    PROVE  Total(r) \in Nat /\ Received \in Nat /\ Total(r) <= Received
<1> DEFINE f == [k \in Slots |-> AsInt(r[k])]
           h == [k \in Slots |-> Len(log[k])]
<1>1. Kids \subseteq Slots /\ IsFiniteSet(Kids)
  <2>1. NumKids - 1 \in Int /\ 0 \in Int
    BY Constants
  <2>2. IsFiniteSet(Kids)
    BY <2>1, FS_Interval DEF Kids
  <2>3. QED
    BY <2>2, KidsHaveSlots
<1>2. \A k \in Kids : f[k] \in Nat /\ h[k] \in Nat /\ f[k] <= h[k]
  BY <1>1
<1>3. Total(r) = FoldFunctionOnSet(+, 0, f, Kids) /\ Received = FoldFunctionOnSet(+, 0, h, Kids)
  BY Zenon DEF Total, Received
<1> HIDE DEF f, h
<1>4. /\ FoldFunctionOnSet(+, 0, f, Kids) \in Nat /\ FoldFunctionOnSet(+, 0, h, Kids) \in Nat
      /\ FoldFunctionOnSet(+, 0, f, Kids) <= FoldFunctionOnSet(+, 0, h, Kids)
  BY <1>1, <1>2, SumMonotone
<1>5. QED
  BY <1>3, <1>4

\* A PASS of consumer_group.php: the members have received, all together, what
\* was published, and each of them something.
LEMMA GroupSound ==
    ASSUME IInv, script = "consumer_group", Passes
    PROVE  Received >= N /\ \A k \in Kids : log[k] # << >>
<1>1. Total(result) = N /\ \A k \in Kids : AsInt(result[k]) # 0
  BY DEF Passes
<1>2. script \in Scripts /\ N \in Nat
  BY Constants DEF IInv, TypeOK
<1>3. Total(result) \in Nat /\ Received \in Nat /\ Total(result) <= Received
  BY <1>2, CountReceived, TotalReceived
<1>4. Received >= N
  BY <1>1, <1>2, <1>3
<1>5. \A k \in Kids : log[k] # << >>
  BY <1>1, CountReceived
<1>6. QED
  BY <1>4, <1>5

\* PASS means what it says: as many messages as were published have been
\* received, in ordering.php in unbroken order, by the members of
\* consumer_group.php all together and by each some, and by every light stream
\* of hol_congestion.php some, whatever the transport lost, repeated and
\* reordered and whenever the parent read the files.
THEOREM VerdictCorrect == Spec => []VerdictSound
<1>1. ASSUME IInv, ppc = "end", Passes
      PROVE  VerdictSound
  <2>1. script \in AllScripts /\ 0 \in Kids /\ N \in Nat
    BY <1>1, DrainAssumption, KidsHaveSlots, Constants DEF IInv, TypeOK
  <2>2. CASE script = "ordering"
    BY <1>1, <2>2, OrderingSound DEF VerdictSound
  <2>3. CASE script = "pool_multiplex"
    <3>1. AsInt(result[0]) = N
      BY <1>1, <2>3 DEF Passes
    <3>2. Len(log[0]) <= N
      BY <1>1, <2>1, <2>3 DEF IInv, Counted
    <3>3. Len(log[0]) = N
      BY <1>1, <2>1, <3>1, <3>2, CountReceived
    <3>4. QED
      BY <2>3, <3>3 DEF VerdictSound
  <2>4. CASE script = "consumer_group"
    BY <1>1, <2>4, GroupSound, Zenon DEF VerdictSound
  <2>5. CASE script = "hol_congestion"
    <3>1. \A k \in Kids \ {0} : AsInt(result[k]) # 0
      BY <1>1, <2>5 DEF Passes
    <3>2. QED
      BY <1>1, <2>5, <3>1, CountReceived DEF VerdictSound
  <2>6. CASE script = "bench"
    BY <1>1, <2>6 DEF Passes
  <2>7. QED
    BY <2>1, <2>2, <2>3, <2>4, <2>5, <2>6 DEF AllScripts
<1>2. IInv => VerdictSound
  BY <1>1 DEF VerdictSound
<1>3. QED
  BY <1>2, Invariance, PTL

\* When ordering.php has counted all messages and prints FAIL, two neighbours
\* were out of order: a report that arrives late, or was truncated when it was
\* read, never makes it blame the transport.
THEOREM FailCorrect == Spec => []FailJustified
<1>1. ASSUME IInv, script = "ordering", result[0].n = N,
             \A j \in 2..N : log[0][j] = log[0][j - 1] + 1
      PROVE  Passes
  <2> DEFINE l == log[0]
             r == result[0]
  <2>1. /\ l \in Seq(Nat) /\ Len(l) \in Nat /\ N \in Nat /\ N > 0 /\ 0 \in Kids
        /\ TrueOf(r, script, l) /\ Len(l) <= N
    BY <1>1, KidsHaveSlots, Constants DEF IInv, TypeOK, Counted, Reported
  <2>2. /\ r.text = "count" /\ N <= Len(l)
        /\ r.gaps = Skips(SubSeq(l, 1, N)) /\ r.dup = Repeats(SubSeq(l, 1, N))
    BY <1>1, <2>1 DEF TrueOf
  <2>3. Len(l) = N
    BY <2>1, <2>2
  <2>4. \A j \in 2..Len(l) : l[j] = l[j - 1] + 1
    BY <1>1, <2>3
  <2> HIDE DEF l
  <2>5. SubSeq(l, 1, N) = l
    BY <2>1, <2>3
  <2>6. Skips(l) = 0 /\ Repeats(l) = 0
    BY <2>1, <2>4, NextNothing
  <2>7. r.n = N /\ r.gaps = 0 /\ r.dup = 0
    BY <1>1, <2>2, <2>5, <2>6
  <2>8. QED
    BY <1>1, <2>7 DEF Passes
<1>2. IInv => FailJustified
  BY <1>1 DEF FailJustified
<1>3. QED
  BY <1>2, Invariance, PTL

\* A parent that stops polling before its deadline is right to: what it read,
\* file by file, adds up to no more than the children have received.
THEOREM PollCorrect == Spec => PollSeesAll
<1>1. ASSUME IInv, PollRead, ppc' = "collect"
      PROVE  Received >= N
  <2>1. /\ script \in Scripts /\ N \in Nat /\ at \in Slots /\ Kids \subseteq Slots
        /\ file \in [Slots -> Contents] /\ result \in [Slots -> Contents]
        /\ log \in [Slots -> Seq(Nat)]
    BY <1>1, KidsHaveSlots, Constants DEF IInv, TypeOK
  <2>2. Total(result') >= N
    <3>1. ppc = "poll" /\ Advance(IF Total(result') >= N THEN "collect" ELSE "poll")
      BY <1>1, Zenon DEF PollRead
    <3>2. QED
      BY <1>1, <3>1 DEF Advance
  <2>3. ASSUME NEW k \in Kids
        PROVE  /\ Len(log[k]) \in Nat /\ AsInt(result'[k]) \in Nat
               /\ AsInt(result'[k]) <= Len(log[k])
    <3>1. result' = result \/ result' = [result EXCEPT ![at] = file[at]]
      BY <1>1, Zenon DEF PollRead
    <3>2. result'[k] \in {result[k], file[k]}
      BY <2>1, <3>1
    <3>3. TrueOf(result'[k], script, log[k])
      BY <1>1, <3>2 DEF IInv, Reported
    <3>4. result'[k] \in Contents /\ log[k] \in Seq(Nat)
      BY <2>1, <3>2
    <3>5. QED
      BY <3>3, <3>4, TrueCount
  <2>4. Total(result') \in Nat /\ Received \in Nat /\ Total(result') <= Received
    BY <2>1, <2>3, TotalReceived
  <2>5. QED
    BY <2>1, <2>2, <2>4
<1>2. IInv /\ [Next]_vars => [PollRead /\ ppc' = "collect" => Received >= N]_vars
  BY <1>1, Zenon
<1>3. QED
  BY <1>2, Invariance, PTL DEF Spec, PollSeesAll

\* In every script but pool_multiplex.php the cleanup leaves a verdict as it
\* is: while children are killed and reaped no count of a PASS is read again.
THEOREM VerdictKeptCorrect == Spec => VerdictKept
<1>1. ASSUME IInv, Next, script # "pool_multiplex", ppc \in {"collect", "reap"}, Passes
      PROVE  UNCHANGED <<script, result>>
  <2>1. ASSUME NEW k \in Kids, Child(k) \/ Die(k) \/ End(k)
        PROVE  UNCHANGED <<script, result>>
    BY <2>1 DEF Child, Die, End, ChildOpen, ChildFails, ChildReady, ChildWrite, ChildRecv,
                ChildReport, ChildDone, parentVars
  <2>2. script # "bench"
    BY <1>1 DEF Passes
  <2>3. CASE Kill
    <3>1. script # "hol_congestion"
      <4> SUFFICES ASSUME script = "hol_congestion"
                   PROVE  FALSE
        OBVIOUS
      <4>1. at \in Kids /\ 1 \in Kids /\ Kids \subseteq Nat
        <5>1. script \in Scripts /\ at \in Kids
          BY <1>1 DEF IInv, TypeOK
        <5>2. NumKids = NumStreams
          BY DEF NumKids
        <5>3. NumStreams \in Nat /\ NumStreams > 1
          BY <5>1, Constants
        <5>4. Kids = 0..(NumStreams - 1)
          BY <5>2 DEF Kids
        <5>5. QED
          BY <5>1, <5>3, <5>4
      <4>2. \A k \in Kids : k >= at => result[k] = Empty
        BY <1>1, <2>3 DEF IInv, Unread, Kill
      <4>3. \A k \in Kids \ {0} : AsInt(result[k]) # 0
        BY <1>1 DEF Passes
      <4>4. AsInt(Empty) = 0
        BY DEF AsInt, Empty, Content
      <4>5. PICK k \in Kids : k # 0 /\ k >= at
        BY <4>1
      <4>6. QED
        BY <4>2, <4>3, <4>4, <4>5
    <3>2. QED
      BY <2>3, <3>1 DEF Kill
  <2>4. CASE Reap
    BY <1>1, <2>2, <2>4 DEF Reap
  <2>5. CASE Tick \/ Refill \/ Lose
    BY <2>5 DEF Tick, Refill, Lose
  <2>6. ~(Fork \/ WaitRead \/ WaitTimeout \/ Connect \/ PublishOk \/ PublishThrows
          \/ PublishDone \/ PollRead \/ PollTimeout)
    BY <1>1 DEF Fork, WaitRead, WaitTimeout, Connect, PublishOk, PublishThrows, PublishDone,
                PollRead, PollTimeout
  <2>7. ~Over
    BY <1>1 DEF Over
  <2>8. QED
    BY <1>1, <2>1, <2>3, <2>4, <2>5, <2>6, <2>7, Zenon DEF Next, Parent
<1>2. ASSUME UNCHANGED <<script, result>>, Passes
      PROVE  Passes'
  <2>1. script' = script /\ result' = result
    BY <1>2, Zenon
  <2>2. Kids' = Kids /\ N' = N
    BY <2>1, SameScript
  <2>3. Total(result)' = Total(result)
    BY <2>1, <2>2 DEF Total, AsInt, FoldFunctionOnSet, MapThenFoldSet
  <2>4. QED
    BY <1>2, <2>1, <2>2, <2>3 DEF Passes, AsInt
<1>3. IInv /\ [Next]_vars =>
         [(script # "pool_multiplex" /\ ppc \in {"collect", "reap"} /\ Passes) => (Passes')]_vars
  BY <1>1, <1>2, Zenon
<1>4. QED
  BY <1>3, Invariance, PTL DEF Spec, VerdictKept
=============================================================================
