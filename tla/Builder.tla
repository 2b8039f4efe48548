------------------------------ MODULE Builder ------------------------------
(***************************************************************************)
(* The way of a connection's settings from the fluent PHP builder through  *)
(* 14 positional C arguments to the SDK's builder, and the way of a        *)
(* stream's policy and topic to its StreamSpec.  Every setting changes its *)
(* representation on the way: PHP's integers become i32 or u64, null and   *)
(* empty strings become Option or String, floats become Durations.         *)
(*                                                                         *)
(* Strings are opaque, except that "" is empty and "0" is falsy in PHP.    *)
(* Floats are classes of values: "subnano" is positive and rounds to 0 ns, *)
(* "tiny" is longer and below 0.001, "huge" is finite but more seconds     *)
(* than a Duration can hold (2^64 and up).                                 *)
(***************************************************************************)
EXTENDS Integers

CONSTANTS Strings,   \* the non-empty strings to consider, "0" among them
          Unreadable,\* those that name no readable file
          Ints,      \* the PHP integers to consider
          Floats,    \* the classes of floats to consider, a subset of AllFloats
          Policies,  \* the policy ordinals passed to openStream
          Topics,    \* the topics passed to openStream
          I32Mod,    \* 2^w for the C int
          U64Mod,    \* 2^w for uint64_t
          MaxSets    \* bound: setter calls

AllFloats == {"nan", "negative", "zero", "subnano", "tiny", "ordinary", "huge", "infinite"}

ASSUME BuilderAssumption ==
    /\ "" \notin Strings /\ "null" \notin Strings /\ Unreadable \subseteq Strings
    /\ Ints \subseteq Int /\ Policies \subseteq Int
    /\ Floats \subseteq AllFloats /\ Topics \subseteq Strings \cup {""}
    /\ I32Mod \in Nat /\ I32Mod > 8
    /\ U64Mod \in Nat /\ U64Mod >= I32Mod
    /\ \A n \in Ints : -(U64Mod \div 2) <= n /\ n < U64Mod \div 2   \* PHP's are signed
    /\ MaxSets \in Nat

VARIABLES
    php,     \* the fields of the VireonClientBuilder object
    asked,   \* history: what the script last asked of each setter
    sets,    \* setter calls made so far
    state,   \* "building", "connected", or "aborted" by a panic
    sdk,     \* the SDK's ClientBuilder of the last connect(), and what was asked then
    request  \* the last openStream or rpc: what was asked for and what the SDK got

vars == <<php, asked, sets, state, sdk, request>>

None == "null"
NoIdentity == <<None, None>>
Building == {"building", "connected"}   \* a builder can connect many times

-----------------------------------------------------------------------------
(***************************************************************************)
(* Conversions.                                                            *)
(***************************************************************************)

\* A PHP integer passed as C int, and as uint64_t.
ToI32(n) == ((n + I32Mod \div 2) % I32Mod) - I32Mod \div 2
ToU64(n) == n % U64Mod

\* cstr_to_string and cstr_to_option: null is the empty string, or None.
cstr_to_string(s) == IF s = None THEN "" ELSE s
cstr_to_option(s) == IF s = None THEN None ELSE cstr_to_string(s)

\* Mutant of AtLeastMilli: a comparison that lets NaN through.
AtLeastMilliNaN(x) == IF x \in {"nan", "ordinary", "huge", "infinite"} THEN x ELSE "milli"

\* x.max(0.001): NaN loses.
AtLeastMilli(x) == IF x \in {"ordinary", "huge", "infinite"} THEN x ELSE "milli"

Positive(x) == x \in {"subnano", "tiny", "ordinary", "huge", "infinite"}

\* Duration::from_secs_f64 panics on what is negative, not finite, or too large.
Panics(x) == x \in {"nan", "negative", "huge", "infinite"}

\* What it returns otherwise: whole nanoseconds.
Duration(x) == IF x = "subnano" THEN "zero" ELSE x

\* Mutant of AtLeastOne: the clamp is missing.
AtLeastOneMissing(n) == n

\* x.max(1)
AtLeastOne(n) == IF n > 1 THEN n ELSE 1

\* Mutant of ordinal_to_policy: ordinals that start at 1.
ordinal_to_policy_From1(ord) ==
    CASE ord = 1 -> "ReliableOrdered"
      [] ord = 2 -> "ReliableUnordered"
      [] ord = 3 -> "RealtimeDropOld"
      [] OTHER   -> "LatestOnly"

ordinal_to_policy(ord) ==
    CASE ord = 0 -> "ReliableOrdered"
      [] ord = 1 -> "ReliableUnordered"
      [] ord = 2 -> "RealtimeDropOld"
      [] OTHER   -> "LatestOnly"

\* std::fs::read(&p).unwrap_or_default()
Contents(p) == IF p = None \/ p \in Unreadable THEN "" ELSE p

build_tls_verify(mode, path) ==
    CASE mode = 2 -> <<"Strict", cstr_to_string(path)>>
      [] mode = 3 -> <<"Pinned", Contents(path)>>
      [] mode = 1 -> <<"DangerAcceptInvalid", "">>
      [] OTHER    -> <<"Tofu", "">>

build_reconnect(enabled, attempts, initial, max) ==
    IF ~enabled THEN <<"disabled">>
    ELSE <<"enabled", AtLeastOne(attempts),
           Duration(AtLeastMilli(initial)), Duration(AtLeastMilli(max))>>

build_identity(cert, key) ==
    IF cert # None /\ key # None THEN <<cert, key>> ELSE NoIdentity

\* A size is handed on only if it is not 0; << >> is the SDK's own default.
SizeOption(n) == IF n > 0 THEN <<n>> ELSE << >>

-----------------------------------------------------------------------------
(***************************************************************************)
(* The fluent builder.                                                     *)
(***************************************************************************)
Defaults ==
    [tlsMode |-> 0, tlsPath |-> None, sni |-> None,
     maxMsgSize |-> 2, subscriberBuffer |-> 3, cmdChannelCap |-> 4,
     idleTimeoutSecs |-> "ordinary",
     reconnectEnabled |-> FALSE, reconnectMaxAttempts |-> 0,
     reconnectInitialSecs |-> "ordinary", reconnectMaxSecs |-> "ordinary",
     identityCert |-> None, identityKey |-> None]

NoSdk == [members |-> 0]

NoRequest == [op |-> "none"]

Init ==
    /\ php = Defaults
    /\ asked = [tls |-> <<0, None>>, sni |-> None, identity |-> NoIdentity,
                reconnect |-> <<0, "ordinary", "ordinary">>,
                size |-> 2, buffer |-> 3, cap |-> 4, idle |-> "ordinary"]
    /\ sets = 0
    /\ state = "building"
    /\ sdk = NoSdk
    /\ request = NoRequest

Setter ==
    /\ state \in Building /\ sets < MaxSets
    /\ sets' = sets + 1
    /\ UNCHANGED <<state, sdk, request>>

tlsVerify ==
    /\ Setter
    /\ \E mode \in Ints, path \in Strings \cup {"", None} :
          /\ php' = [php EXCEPT !.tlsMode = mode, !.tlsPath = path]
          /\ asked' = [asked EXCEPT !.tls = <<mode, path>>]

sni ==
    /\ Setter
    /\ \E s \in Strings \cup {""} :
          /\ php' = [php EXCEPT !.sni = s]
          /\ asked' = [asked EXCEPT !.sni = s]

clientIdentity ==
    /\ Setter
    /\ \E cert, key \in Strings \cup {""} :
          /\ php' = [php EXCEPT !.identityCert = cert, !.identityKey = key]
          /\ asked' = [asked EXCEPT !.identity = <<cert, key>>]

\* Mutant of reconnect: a second call cannot switch reconnecting off again.
reconnect_Sticky ==
    /\ Setter
    /\ \E max \in Ints, init, maxc \in Floats :
          /\ php' = [php EXCEPT !.reconnectEnabled = @ \/ max > 0,
                                !.reconnectMaxAttempts = max,
                                !.reconnectInitialSecs = init, !.reconnectMaxSecs = maxc]
          /\ asked' = [asked EXCEPT !.reconnect = <<max, init, maxc>>]

reconnect ==
    /\ Setter
    /\ \E max \in Ints, init, maxc \in Floats :
          /\ php' = [php EXCEPT !.reconnectEnabled = max > 0,
                                !.reconnectMaxAttempts = max,
                                !.reconnectInitialSecs = init, !.reconnectMaxSecs = maxc]
          /\ asked' = [asked EXCEPT !.reconnect = <<max, init, maxc>>]

maxMessageSize ==
    /\ Setter
    /\ \E n \in Ints : php' = [php EXCEPT !.maxMsgSize = n]
                       /\ asked' = [asked EXCEPT !.size = n]

subscriberBuffer ==
    /\ Setter
    /\ \E n \in Ints : php' = [php EXCEPT !.subscriberBuffer = n]
                       /\ asked' = [asked EXCEPT !.buffer = n]

cmdChannelCap ==
    /\ Setter
    /\ \E n \in Ints : php' = [php EXCEPT !.cmdChannelCap = n]
                       /\ asked' = [asked EXCEPT !.cap = n]

maxIdleTimeout ==
    /\ Setter
    /\ \E s \in Floats : php' = [php EXCEPT !.idleTimeoutSecs = s]
                         /\ asked' = [asked EXCEPT !.idle = s]

-----------------------------------------------------------------------------
(***************************************************************************)
(* Terminal calls.                                                         *)
(***************************************************************************)

\* Mutant of ffiArgs: two neighbours of the same C type are swapped.
ffiArgs_Swapped ==
    <<"addr", ToI32(php.tlsMode), php.tlsPath, php.sni,
      ToU64(php.maxMsgSize), ToU64(php.cmdChannelCap), ToU64(php.subscriberBuffer),
      php.idleTimeoutSecs,
      IF php.reconnectEnabled THEN 1 ELSE 0, ToI32(php.reconnectMaxAttempts),
      php.reconnectInitialSecs, php.reconnectMaxSecs,
      php.identityCert, php.identityKey>>

\* The positional arguments, as the C function sees them.
ffiArgs ==
    <<"addr", ToI32(php.tlsMode), php.tlsPath, php.sni,
      ToU64(php.maxMsgSize), ToU64(php.subscriberBuffer), ToU64(php.cmdChannelCap),
      php.idleTimeoutSecs,
      IF php.reconnectEnabled THEN 1 ELSE 0, ToI32(php.reconnectMaxAttempts),
      php.reconnectInitialSecs, php.reconnectMaxSecs,
      php.identityCert, php.identityKey>>

build_sdk_builder(a) ==
    [addr |-> cstr_to_string(a[1]),
     tls |-> build_tls_verify(a[2], cstr_to_option(a[3])),
     sni |-> cstr_to_option(a[4]),
     size |-> SizeOption(a[5]),
     buffer |-> SizeOption(a[6]),
     cap |-> SizeOption(a[7]),
     idle |-> IF Positive(a[8]) THEN Duration(a[8]) ELSE "SDK default",
     reconnect |-> build_reconnect(a[9] # 0, a[10], a[11], a[12]),
     identity |-> build_identity(cstr_to_option(a[13]), cstr_to_option(a[14]))]

\* A conversion to Duration that panics takes the process down: the panic
\* cannot leave an extern "C" function.
BuildPanics(a) ==
    \/ Positive(a[8]) /\ Panics(a[8])
    \/ a[9] # 0 /\ (Panics(AtLeastMilli(a[11])) \/ Panics(AtLeastMilli(a[12])))

connect ==
    /\ state \in Building
    /\ \/ BuildPanics(ffiArgs) /\ state' = "aborted" /\ UNCHANGED sdk
       \/ /\ ~BuildPanics(ffiArgs)
          /\ state' = "connected"
          /\ sdk' = [asked |-> asked, builder |-> build_sdk_builder(ffiArgs),
                     members |-> 1]
    /\ UNCHANGED <<php, asked, sets, request>>

connectPool ==
    /\ state \in Building
    /\ \E n \in Ints :
          \/ BuildPanics(ffiArgs) /\ state' = "aborted" /\ UNCHANGED sdk
          \/ /\ ~BuildPanics(ffiArgs)
             /\ state' = "connected"
             /\ sdk' = [asked |-> asked, builder |-> build_sdk_builder(ffiArgs),
                        members |-> AtLeastOne(ToI32(n))]
    /\ UNCHANGED <<php, asked, sets, request>>

\* PHP's $topic ?: null
OrNull(topic) == IF topic \in {"", "0"} THEN None ELSE topic

\* VireonClient::openStream, and the StreamSpec the SDK gets for it.
openStream ==
    /\ state = "connected"
    /\ \E policy \in Policies, topic \in Topics :
          request' = [op |-> "stream", asked |-> <<policy, topic>>,
                      policy |-> ordinal_to_policy(ToI32(policy)),
                      topic  |-> cstr_to_string(OrNull(topic))]
    /\ UNCHANGED <<php, asked, sets, state, sdk>>

\* VireonClient::rpc: its timeout is converted like a backoff.
rpc ==
    /\ state = "connected"
    /\ \E timeout \in Floats :
          /\ state' = IF Panics(AtLeastMilli(timeout)) THEN "aborted" ELSE state
          /\ request' = [op |-> "rpc", asked |-> timeout,
                         timeout |-> Duration(AtLeastMilli(timeout))]
    /\ UNCHANGED <<php, asked, sets, sdk>>

Stopped == state = "aborted" /\ UNCHANGED vars

Next ==
    \/ tlsVerify \/ sni \/ clientIdentity \/ reconnect
    \/ maxMessageSize \/ subscriberBuffer \/ cmdChannelCap \/ maxIdleTimeout
    \/ connect \/ connectPool \/ openStream \/ rpc
    \/ Stopped

Spec == Init /\ [][Next]_vars

-----------------------------------------------------------------------------
(***************************************************************************)
(* Properties.                                                             *)
(***************************************************************************)

\* Type invariant of the builder.
TypeOK ==
    /\ php.tlsMode \in Int /\ php.tlsPath \in Strings \cup {"", None}
    /\ php.sni \in Strings \cup {"", None}
    /\ {php.maxMsgSize, php.subscriberBuffer, php.cmdChannelCap} \subseteq Int
    /\ php.idleTimeoutSecs \in AllFloats
    /\ php.reconnectEnabled \in BOOLEAN /\ php.reconnectMaxAttempts \in Int
    /\ {php.reconnectInitialSecs, php.reconnectMaxSecs} \subseteq AllFloats
    /\ {php.identityCert, php.identityKey} \subseteq Strings \cup {"", None}
    /\ sets \in 0..MaxSets
    /\ state \in {"building", "connected", "aborted"}
    /\ sdk.members \in 0..I32Mod

TlsNames == <<"Tofu", "DangerAcceptInvalid", "Strict", "Pinned">>

InI32(n) == 0 < n /\ n < I32Mod \div 2

\* Every setting that is in range reaches the SDK as it was last asked for,
\* whatever was set before and whichever of the builder's connections it is:
\* the 14 positional arguments of vireon_connect are in the same order on
\* both sides, and the documented TLS modes are never weakened.
SettingsArrive ==
    sdk.members > 0 =>
        LET a == sdk.asked
            b == sdk.builder
        IN  /\ a.tls[1] \in 0..3 => b.tls[1] = TlsNames[a.tls[1] + 1]
            /\ a.tls[1] = 2 /\ a.tls[2] # None => b.tls[2] = a.tls[2]
            /\ a.tls[1] = 3 /\ a.tls[2] \in Strings \ Unreadable => b.tls[2] = a.tls[2]
            /\ b.sni = a.sni
            /\ a.size > 0 => b.size = <<a.size>>
            /\ a.buffer > 0 => b.buffer = <<a.buffer>>
            /\ a.cap > 0 => b.cap = <<a.cap>>
            /\ a.idle \in {"tiny", "ordinary"} => b.idle = a.idle
            /\ b.identity = a.identity

\* Reconnecting is on exactly when the last reconnect() asked for attempts,
\* with that number of them, and never with a zero backoff or zero attempts
\* (config.rs clamps both, the builder's $max > 0 decides).
ReconnectAsAsked ==
    sdk.members > 0 =>
        LET a == sdk.asked.reconnect
            r == sdk.builder.reconnect
        IN  /\ a[1] <= 0 <=> r = <<"disabled">>
            /\ InI32(a[1]) => r[2] = a[1]
            /\ a[1] > 0 => r[2] > 0 /\ r[3] # "zero" /\ r[4] # "zero"

Oversized == {"huge", "infinite"}

\* A conversion to Duration takes the process down only for a value that is
\* infinite or too many seconds for a Duration, and in force: NaN, zero and
\* negative ones are caught by the > 0.0 and max(0.001) in front of it, and
\* backoffs do not matter once reconnecting is switched off again.
AbortsOnlyOnOversized ==
    state = "aborted" =>
        \/ asked.idle \in Oversized
        \/ asked.reconnect[1] > 0 /\ {asked.reconnect[2], asked.reconnect[3]} \cap Oversized # {}
        \/ request.op = "rpc" /\ request.asked \in Oversized

PolicyNames == <<"ReliableOrdered", "ReliableUnordered", "RealtimeDropOld", "LatestOnly">>

\* A stream gets the delivery policy of VireonDeliveryPolicy that was asked
\* for and its topic, through PHP's ?: and the null pointer; but for the topic
\* '0', which ?: takes for none.  An rpc gets its timeout.
RequestsArrive ==
    /\ request.op = "stream" =>
          /\ request.asked[1] \in 0..3 => request.policy = PolicyNames[request.asked[1] + 1]
          /\ request.topic = (IF request.asked[2] = "0" THEN "" ELSE request.asked[2])
    /\ request.op = "rpc" /\ request.asked = "ordinary" => request.timeout = "ordinary"
=============================================================================
