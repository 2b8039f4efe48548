---------------------------- MODULE BuilderProofs ----------------------------
(***************************************************************************)
(* Proofs about Builder for integers of any width, any strings and any     *)
(* number of setter calls.                                                 *)
(***************************************************************************)
EXTENDS Builder, TLAPS

-----------------------------------------------------------------------------
(***************************************************************************)
(* Conversions.                                                            *)
(***************************************************************************)

\* The widths of the integers and the bound of the model.
LEMMA Widths ==
    /\ I32Mod \in Nat /\ I32Mod > 8 /\ U64Mod \in Nat /\ U64Mod >= I32Mod
    /\ MaxSets \in Nat
    /\ Ints \subseteq Int
    /\ \A n \in Ints : n < U64Mod \div 2
BY BuilderAssumption

\* Where a remainder is not needed.
LEMMA ModInRange ==
    ASSUME NEW m \in Nat, NEW x \in Int, 0 <= x, x < m
    PROVE  x % m = x
BY Z3

\* A remainder is below the divisor, also that of a negative number.
LEMMA ModBounds ==
    ASSUME NEW m \in Nat, m > 0, NEW x \in Int
    PROVE  x % m \in 0..(m - 1)
BY Z3

\* Passing a PHP integer as C int keeps what a C int can hold, and gives a C
\* int in any case.
LEMMA I32Conversion ==
    ASSUME NEW n \in Int
    PROVE  /\ ToI32(n) \in Int /\ ToI32(n) < I32Mod
           /\ 0 <= n /\ n < I32Mod \div 2 => ToI32(n) = n
<1> DEFINE half == I32Mod \div 2
<1>1. I32Mod \in Nat /\ I32Mod > 0 /\ half \in Nat /\ half + half <= I32Mod
  BY Widths
<1>2. (n + half) % I32Mod \in 0..(I32Mod - 1)
  BY <1>1, ModBounds
<1>3. 0 <= n /\ n < half => (n + half) % I32Mod = n + half
  BY <1>1, ModInRange
<1>4. ToI32(n) = ((n + half) % I32Mod) - half
  BY DEF ToI32
<1> HIDE DEF half
<1>5. /\ ToI32(n) \in Int /\ ToI32(n) < I32Mod
      /\ 0 <= n /\ n < half => ToI32(n) = n
  BY <1>1, <1>2, <1>3, <1>4
<1>6. QED
  BY <1>5 DEF half

\* The documented modes and ordinals fit a C int.
LEMMA SmallI32 ==
    ASSUME NEW n \in 0..3
    PROVE  ToI32(n) = n
BY I32Conversion, Widths

\* A positive PHP integer passes unchanged as uint64_t.
LEMMA U64Conversion ==
    ASSUME NEW n \in Int, 0 < n, n < U64Mod
    PROVE  ToU64(n) = n
BY ModInRange, Widths DEF ToU64

\* What Duration::from_secs_f64 panics on after the guards in front of it.
LEMMA OnlyOversizedPanics ==
    ASSUME NEW x
    PROVE  /\ Panics(AtLeastMilli(x)) <=> x \in Oversized
           /\ Positive(x) /\ Panics(x) <=> x \in Oversized
           /\ Duration(AtLeastMilli(x)) # "zero"
BY DEF Panics, AtLeastMilli, Positive, Duration, Oversized
-----------------------------------------------------------------------------
(***************************************************************************)
(* The fluent builder.                                                     *)
(***************************************************************************)
PhpInts == {n \in Int : n < U64Mod}

PhpFields ==
    [tlsMode : PhpInts, tlsPath : Strings \cup {"", None}, sni : Strings \cup {"", None},
     maxMsgSize : PhpInts, subscriberBuffer : PhpInts, cmdChannelCap : PhpInts,
     idleTimeoutSecs : AllFloats,
     reconnectEnabled : BOOLEAN, reconnectMaxAttempts : PhpInts,
     reconnectInitialSecs : AllFloats, reconnectMaxSecs : AllFloats,
     identityCert : Strings \cup {"", None}, identityKey : Strings \cup {"", None}]

\* The fields of the builder say what was last asked of its setters, and
\* reconnecting is enabled for a positive number of attempts.
Recorded ==
    /\ php \in PhpFields
    /\ php.reconnectEnabled <=> php.reconnectMaxAttempts > 0
    /\ asked = [tls |-> <<php.tlsMode, php.tlsPath>>, sni |-> php.sni,
                identity |-> build_identity(php.identityCert, php.identityKey),
                reconnect |-> <<php.reconnectMaxAttempts, php.reconnectInitialSecs,
                                php.reconnectMaxSecs>>,
                size |-> php.maxMsgSize, buffer |-> php.subscriberBuffer,
                cap |-> php.cmdChannelCap, idle |-> php.idleTimeoutSecs]

\* PHP's integers are signed and 64 bits wide.
LEMMA IntsTyped == Ints \subseteq PhpInts
BY Widths DEF PhpInts

\* Each setter writes the fields of its own setting and no other.
LEMMA SetterStep ==
    ASSUME Recorded,
           \/ tlsVerify \/ sni \/ clientIdentity \/ reconnect
           \/ maxMessageSize \/ subscriberBuffer \/ cmdChannelCap \/ maxIdleTimeout
    PROVE  Recorded'
<1> USE DEF Recorded
<1>1. CASE tlsVerify
  <2>1. PICK mode \in PhpInts, path \in Strings \cup {"", None} :
           /\ php' = [php EXCEPT !.tlsMode = mode, !.tlsPath = path]
           /\ asked' = [asked EXCEPT !.tls = <<mode, path>>]
    BY <1>1, IntsTyped DEF tlsVerify
  <2>2. php' \in PhpFields
    <3>1. php \in PhpFields
      OBVIOUS
    <3>2. QED
      BY ONLY <2>1, <3>1 DEF PhpFields
  <2>3. /\ php'.tlsMode = mode /\ php'.tlsPath = path /\ php'.sni = php.sni
        /\ php'.identityCert = php.identityCert /\ php'.identityKey = php.identityKey
        /\ php'.maxMsgSize = php.maxMsgSize /\ php'.subscriberBuffer = php.subscriberBuffer
        /\ php'.cmdChannelCap = php.cmdChannelCap /\ php'.idleTimeoutSecs = php.idleTimeoutSecs
    BY <2>1 DEF PhpFields
  <2>4. /\ php'.reconnectEnabled = php.reconnectEnabled
        /\ php'.reconnectMaxAttempts = php.reconnectMaxAttempts
        /\ php'.reconnectInitialSecs = php.reconnectInitialSecs
        /\ php'.reconnectMaxSecs = php.reconnectMaxSecs
    BY <2>1 DEF PhpFields
  <2>5. QED
    BY <2>1, <2>2, <2>3, <2>4
<1>2. CASE sni
  <2>1. PICK s \in Strings \cup {"", None} :
           php' = [php EXCEPT !.sni = s] /\ asked' = [asked EXCEPT !.sni = s]
    BY <1>2 DEF sni
  <2>2. php' \in PhpFields
    BY <2>1 DEF PhpFields
  <2>3. QED
    BY <2>1, <2>2 DEF PhpFields
<1>3. CASE clientIdentity
  <2>1. PICK cert \in Strings \cup {""}, key \in Strings \cup {""} :
           /\ php' = [php EXCEPT !.identityCert = cert, !.identityKey = key]
           /\ asked' = [asked EXCEPT !.identity = <<cert, key>>]
    BY <1>3 DEF clientIdentity
  <2>2. build_identity(cert, key) = <<cert, key>>
    BY BuilderAssumption DEF build_identity, None
  <2>3. php' \in PhpFields
    BY <2>1 DEF PhpFields
  <2>4. /\ php'.identityCert = cert /\ php'.identityKey = key
        /\ php'.tlsMode = php.tlsMode /\ php'.tlsPath = php.tlsPath /\ php'.sni = php.sni
        /\ php'.maxMsgSize = php.maxMsgSize /\ php'.subscriberBuffer = php.subscriberBuffer
        /\ php'.cmdChannelCap = php.cmdChannelCap /\ php'.idleTimeoutSecs = php.idleTimeoutSecs
    BY <2>1 DEF PhpFields
  <2>5. /\ php'.reconnectEnabled = php.reconnectEnabled
        /\ php'.reconnectMaxAttempts = php.reconnectMaxAttempts
        /\ php'.reconnectInitialSecs = php.reconnectInitialSecs
        /\ php'.reconnectMaxSecs = php.reconnectMaxSecs
    BY <2>1 DEF PhpFields
  <2>6. QED
    BY <2>1, <2>2, <2>3, <2>4, <2>5
<1>4. CASE reconnect
  <2>1. PICK max \in Ints, init \in Floats, maxc \in Floats :
           /\ php' = [php EXCEPT !.reconnectEnabled = max > 0,
                                 !.reconnectMaxAttempts = max,
                                 !.reconnectInitialSecs = init, !.reconnectMaxSecs = maxc]
           /\ asked' = [asked EXCEPT !.reconnect = <<max, init, maxc>>]
    BY <1>4, Zenon DEF reconnect
  <2>2. max \in PhpInts /\ init \in AllFloats /\ maxc \in AllFloats
    BY IntsTyped, BuilderAssumption
  <2>3. PICK on \in BOOLEAN : on = (max > 0)
    <3>1. (max > 0) \in BOOLEAN
      BY <2>2 DEF PhpInts
    <3>2. QED
      BY <3>1, Zenon
  <2>4. php' = [php EXCEPT !.reconnectEnabled = on, !.reconnectMaxAttempts = max,
                           !.reconnectInitialSecs = init, !.reconnectMaxSecs = maxc]
    BY <2>1, <2>3
  <2>5. php' \in PhpFields
    BY <2>2, <2>4 DEF PhpFields
  <2>6. /\ php'.reconnectEnabled = on /\ php'.reconnectMaxAttempts = max
        /\ php'.reconnectInitialSecs = init /\ php'.reconnectMaxSecs = maxc
    BY <2>4 DEF PhpFields
  <2>7. /\ php'.tlsMode = php.tlsMode /\ php'.tlsPath = php.tlsPath /\ php'.sni = php.sni
        /\ php'.identityCert = php.identityCert /\ php'.identityKey = php.identityKey
        /\ php'.maxMsgSize = php.maxMsgSize /\ php'.subscriberBuffer = php.subscriberBuffer
        /\ php'.cmdChannelCap = php.cmdChannelCap /\ php'.idleTimeoutSecs = php.idleTimeoutSecs
    BY <2>4 DEF PhpFields
  <2>8. php'.reconnectEnabled <=> php'.reconnectMaxAttempts > 0
    BY <2>3, <2>6
  <2>9. QED
    BY <2>1, <2>5, <2>6, <2>7, <2>8
<1>5. CASE maxMessageSize
  <2>1. PICK n \in PhpInts : php' = [php EXCEPT !.maxMsgSize = n] /\ asked' = [asked EXCEPT !.size = n]
    BY <1>5, IntsTyped DEF maxMessageSize
  <2>2. php' \in PhpFields
    BY <2>1 DEF PhpFields
  <2>3. QED
    BY <2>1, <2>2 DEF PhpFields
<1>6. CASE subscriberBuffer
  <2>1. PICK n \in PhpInts : php' = [php EXCEPT !.subscriberBuffer = n] /\ asked' = [asked EXCEPT !.buffer = n]
    BY <1>6, IntsTyped DEF subscriberBuffer
  <2>2. php' \in PhpFields
    BY <2>1 DEF PhpFields
  <2>3. QED
    BY <2>1, <2>2 DEF PhpFields
<1>7. CASE cmdChannelCap
  <2>1. PICK n \in PhpInts : php' = [php EXCEPT !.cmdChannelCap = n] /\ asked' = [asked EXCEPT !.cap = n]
    BY <1>7, IntsTyped DEF cmdChannelCap
  <2>2. php' \in PhpFields
    BY <2>1 DEF PhpFields
  <2>3. QED
    BY <2>1, <2>2 DEF PhpFields
<1>8. CASE maxIdleTimeout
  <2>1. PICK x \in AllFloats : php' = [php EXCEPT !.idleTimeoutSecs = x] /\ asked' = [asked EXCEPT !.idle = x]
    BY <1>8, BuilderAssumption DEF maxIdleTimeout
  <2>2. php' \in PhpFields
    BY <2>1 DEF PhpFields
  <2>3. QED
    BY <2>1, <2>2 DEF PhpFields
<1>9. QED
  BY <1>1, <1>2, <1>3, <1>4, <1>5, <1>6, <1>7, <1>8
-----------------------------------------------------------------------------
(***************************************************************************)
(* Connecting.                                                             *)
(***************************************************************************)

\* The positional arguments of vireon_connect one by one.
LEMMA Arguments ==
    /\ ffiArgs[2] = ToI32(php.tlsMode) /\ ffiArgs[3] = php.tlsPath /\ ffiArgs[4] = php.sni
    /\ ffiArgs[5] = ToU64(php.maxMsgSize) /\ ffiArgs[6] = ToU64(php.subscriberBuffer)
    /\ ffiArgs[7] = ToU64(php.cmdChannelCap) /\ ffiArgs[8] = php.idleTimeoutSecs
    /\ ffiArgs[9] = (IF php.reconnectEnabled THEN 1 ELSE 0)
    /\ ffiArgs[10] = ToI32(php.reconnectMaxAttempts)
    /\ ffiArgs[11] = php.reconnectInitialSecs /\ ffiArgs[12] = php.reconnectMaxSecs
    /\ ffiArgs[13] = php.identityCert /\ ffiArgs[14] = php.identityKey
BY DEF ffiArgs

\* cstr_to_option and cstr_to_string undo what PHP made of a string or null.
LEMMA StringsPass ==
    ASSUME NEW s
    PROVE  cstr_to_option(s) = s /\ (s # None => cstr_to_string(s) = s)
BY DEF cstr_to_option, cstr_to_string

\* The TLS mode and its path reach the SDK: Strict and Pinned are not weakened.
LEMMA TlsArrives ==
    ASSUME NEW mode \in Int, NEW path, NEW b, b = build_tls_verify(ToI32(mode), path)
    PROVE  /\ mode \in 0..3 => b[1] = TlsNames[mode + 1]
           /\ mode = 2 /\ path # None => b[2] = path
           /\ mode = 3 /\ path \in Strings \ Unreadable => b[2] = path
<1>1. CASE mode \notin 0..3
  BY <1>1
<1>2. ASSUME mode \in 0..3
      PROVE  ToI32(mode) = mode
  BY <1>2, SmallI32
<1>3. CASE mode = 0
  <2>1. ToI32(mode) # 1 /\ ToI32(mode) # 2 /\ ToI32(mode) # 3
    BY <1>2, <1>3
  <2>2. PICK contents : b = <<"Tofu", contents>>
    BY <2>1, Zenon DEF build_tls_verify
  <2>3. QED
    BY <1>3, <2>2 DEF TlsNames
<1>4. CASE mode = 1
  <2>1. ToI32(mode) = 1 /\ ToI32(mode) # 2 /\ ToI32(mode) # 3
    BY <1>2, <1>4
  <2>2. PICK contents : b = <<"DangerAcceptInvalid", contents>>
    BY <2>1, Zenon DEF build_tls_verify
  <2>3. QED
    BY <1>4, <2>2 DEF TlsNames
<1>5. CASE mode = 2
  <2>1. ToI32(mode) = 2
    BY <1>2, <1>5
  <2>2. b = <<"Strict", cstr_to_string(path)>>
    BY <2>1 DEF build_tls_verify
  <2>3. QED
    BY <1>5, <2>2, StringsPass DEF TlsNames
<1>6. CASE mode = 3
  <2>1. ToI32(mode) = 3
    BY <1>2, <1>6
  <2>2. b = <<"Pinned", Contents(path)>>
    BY <2>1 DEF build_tls_verify
  <2>3. path \in Strings \ Unreadable => Contents(path) = path
    BY BuilderAssumption DEF None, Contents
  <2>4. QED
    BY <1>6, <2>2, <2>3 DEF TlsNames
<1>7. QED
  BY <1>1, <1>3, <1>4, <1>5, <1>6

\* A size that was asked for reaches the SDK, 0 and less do not matter here.
LEMMA SizeArrives ==
    ASSUME NEW n \in PhpInts, n > 0
    PROVE  SizeOption(ToU64(n)) = <<n>>
BY U64Conversion DEF SizeOption, PhpInts

\* A connection gets the settings that the builder has recorded.
LEMMA ConnectArrives ==
    ASSUME Recorded, NEW k,
           sdk' = [asked |-> asked, builder |-> build_sdk_builder(ffiArgs), members |-> k]
    PROVE  SettingsArrive' /\ ReconnectAsAsked'
<1> DEFINE a == sdk'.asked
           b == sdk'.builder
<1>1. /\ a.tls[1] = php.tlsMode /\ a.tls[2] = php.tlsPath /\ a.sni = php.sni
      /\ a.size = php.maxMsgSize /\ a.buffer = php.subscriberBuffer
      /\ a.cap = php.cmdChannelCap /\ a.idle = php.idleTimeoutSecs
      /\ a.identity = build_identity(php.identityCert, php.identityKey)
      /\ a.reconnect = <<php.reconnectMaxAttempts, php.reconnectInitialSecs,
                         php.reconnectMaxSecs>>
  BY DEF Recorded
<1>2. /\ b.tls = build_tls_verify(ToI32(php.tlsMode), php.tlsPath) /\ b.sni = php.sni
      /\ b.size = SizeOption(ToU64(php.maxMsgSize))
      /\ b.buffer = SizeOption(ToU64(php.subscriberBuffer))
      /\ b.cap = SizeOption(ToU64(php.cmdChannelCap))
      /\ b.idle = IF Positive(php.idleTimeoutSecs) THEN Duration(php.idleTimeoutSecs)
                  ELSE "SDK default"
      /\ b.identity = build_identity(php.identityCert, php.identityKey)
      /\ b.reconnect = IF ffiArgs[9] = 0 THEN <<"disabled">>
                       ELSE <<"enabled", AtLeastOne(ToI32(php.reconnectMaxAttempts)),
                              Duration(AtLeastMilli(php.reconnectInitialSecs)),
                              Duration(AtLeastMilli(php.reconnectMaxSecs))>>
  BY Arguments, StringsPass DEF build_sdk_builder, build_reconnect
<1>3. /\ php.tlsMode \in Int /\ php.reconnectMaxAttempts \in Int
      /\ {php.maxMsgSize, php.subscriberBuffer, php.cmdChannelCap} \subseteq PhpInts
  BY DEF Recorded, PhpFields, PhpInts
<1> HIDE DEF a, b
<1>4. SettingsArrive'
  <2>1. /\ a.tls[1] \in 0..3 => b.tls[1] = TlsNames[a.tls[1] + 1]
        /\ a.tls[1] = 2 /\ a.tls[2] # None => b.tls[2] = a.tls[2]
        /\ a.tls[1] = 3 /\ a.tls[2] \in Strings \ Unreadable => b.tls[2] = a.tls[2]
    <3>1. /\ php.tlsMode \in 0..3 => b.tls[1] = TlsNames[php.tlsMode + 1]
          /\ php.tlsMode = 2 /\ php.tlsPath # None => b.tls[2] = php.tlsPath
          /\ php.tlsMode = 3 /\ php.tlsPath \in Strings \ Unreadable => b.tls[2] = php.tlsPath
      BY <1>2, <1>3, TlsArrives
    <3>2. QED
      BY <1>1, <3>1
  <2>2. /\ a.size > 0 => b.size = <<a.size>>
        /\ a.buffer > 0 => b.buffer = <<a.buffer>>
        /\ a.cap > 0 => b.cap = <<a.cap>>
    BY <1>1, <1>2, <1>3, SizeArrives
  <2>3. a.idle \in {"tiny", "ordinary"} => b.idle = a.idle
    BY <1>1, <1>2 DEF Positive, Duration
  <2>4. b.sni = a.sni /\ b.identity = a.identity
    BY <1>1, <1>2
  <2>5. QED
    BY <2>1, <2>2, <2>3, <2>4 DEF SettingsArrive, a, b
<1>5. ReconnectAsAsked'
  <2> DEFINE n == php.reconnectMaxAttempts
             r == b.reconnect
  <2>1. a.reconnect[1] = n
    BY <1>1
  <2>2. CASE n <= 0
    <3>1. r = <<"disabled">>
      <4>1. ffiArgs[9] = 0
        BY <1>3, <2>2, Arguments DEF Recorded
      <4>2. QED
        BY <1>2, <4>1
    <3>2. QED
      BY <1>3, <2>1, <2>2, <3>1 DEF ReconnectAsAsked, InI32, a, b
  <2>3. CASE n > 0
    <3>1. r = <<"enabled", AtLeastOne(ToI32(n)),
                Duration(AtLeastMilli(php.reconnectInitialSecs)),
                Duration(AtLeastMilli(php.reconnectMaxSecs))>>
      <4>1. ffiArgs[9] # 0
        BY <1>3, <2>3, Arguments DEF Recorded
      <4>2. QED
        BY <1>2, <4>1, Zenon
    <3>2. r[3] # "zero" /\ r[4] # "zero"
      BY <3>1, OnlyOversizedPanics
    <3>3. r[2] > 0 /\ r # <<"disabled">>
      BY <3>1, <1>3, I32Conversion DEF AtLeastOne
    <3>4. InI32(n) => r[2] = n
      BY <3>1, <1>3, I32Conversion DEF AtLeastOne, InI32
    <3>5. QED
      BY <1>3, <2>1, <2>3, <3>2, <3>3, <3>4 DEF ReconnectAsAsked, a, b
  <2>4. QED
    BY <1>3, <2>2, <2>3
<1>6. QED
  BY <1>4, <1>5

\* Building the SDK's builder panics only on an oversized value in force.
LEMMA PanicsAsAsked ==
    ASSUME Recorded, BuildPanics(ffiArgs)
    PROVE  \/ asked.idle \in Oversized
           \/ /\ asked.reconnect[1] > 0
              /\ {asked.reconnect[2], asked.reconnect[3]} \cap Oversized # {}
<1>1. \/ php.idleTimeoutSecs \in Oversized
      \/ /\ php.reconnectEnabled
         /\ php.reconnectInitialSecs \in Oversized \/ php.reconnectMaxSecs \in Oversized
  BY Arguments, OnlyOversizedPanics DEF BuildPanics
<1>2. /\ asked.idle = php.idleTimeoutSecs /\ asked.reconnect[1] = php.reconnectMaxAttempts
      /\ asked.reconnect[2] = php.reconnectInitialSecs
      /\ asked.reconnect[3] = php.reconnectMaxSecs
      /\ php.reconnectEnabled => php.reconnectMaxAttempts > 0
  BY DEF Recorded
<1>3. QED
  BY <1>1, <1>2
-----------------------------------------------------------------------------
(***************************************************************************)
(* The theorems.                                                           *)
(***************************************************************************)
IInv == /\ TypeOK /\ Recorded
        /\ SettingsArrive /\ ReconnectAsAsked /\ AbortsOnlyOnOversized /\ RequestsArrive

\* The types of the builder's fields follow from what is recorded.
LEMMA FieldsTyped ==
    ASSUME Recorded, sets \in 0..MaxSets, state \in {"building", "connected", "aborted"},
           sdk.members \in 0..I32Mod
    PROVE  TypeOK
BY DEF Recorded, PhpFields, PhpInts, TypeOK

\* A new builder has the defaults, which are what was asked so far.
LEMMA InitIInv == Init => IInv
<1> SUFFICES ASSUME Init
             PROVE  IInv
  OBVIOUS
<1>1. php \in PhpFields
  <2>1. {0, 2, 3, 4} \subseteq PhpInts
    BY Widths DEF PhpInts
  <2>2. "ordinary" \in AllFloats
    BY DEF AllFloats
  <2>3. QED
    BY <2>1, <2>2 DEF Init, Defaults, PhpFields
<1>2. Recorded
  <2>1. build_identity(php.identityCert, php.identityKey) = NoIdentity
    BY DEF Init, Defaults, build_identity
  <2>2. ~php.reconnectEnabled /\ ~(php.reconnectMaxAttempts > 0)
    BY DEF Init, Defaults
  <2>3. QED
    BY <1>1, <2>1, <2>2 DEF Recorded, Init, Defaults
<1>3. sets = 0 /\ state = "building" /\ sdk.members = 0 /\ request.op = "none"
  BY DEF Init, NoSdk, NoRequest
<1>4. sets \in 0..MaxSets /\ sdk.members \in 0..I32Mod
  BY <1>3, Widths
<1>5. TypeOK
  BY <1>2, <1>3, <1>4, FieldsTyped
<1>6. SettingsArrive /\ ReconnectAsAsked
  BY <1>3 DEF SettingsArrive, ReconnectAsAsked
<1>7. AbortsOnlyOnOversized /\ RequestsArrive
  BY <1>3 DEF AbortsOnlyOnOversized, RequestsArrive
<1>8. QED
  BY <1>2, <1>5, <1>6, <1>7 DEF IInv
\* A setter changes nothing for a connection that was made or a request.
LEMMA SetterIInv ==
    ASSUME IInv,
           \/ tlsVerify \/ sni \/ clientIdentity \/ reconnect
           \/ maxMessageSize \/ subscriberBuffer \/ cmdChannelCap \/ maxIdleTimeout
    PROVE  IInv'
<1>1. Recorded'
  BY SetterStep DEF IInv
<1>2. /\ state \in Building /\ sets < MaxSets /\ sets' = sets + 1
      /\ UNCHANGED <<state, sdk, request>>
  BY DEF tlsVerify, sni, clientIdentity, reconnect, maxMessageSize, subscriberBuffer,
         cmdChannelCap, maxIdleTimeout, Setter
<1>3. sets' \in 0..MaxSets
  <2>1. sets \in 0..MaxSets
    BY DEF IInv, TypeOK
  <2>2. QED
    BY <1>2, <2>1, Widths
<1>4. TypeOK'
  BY <1>1, <1>2, <1>3 DEF IInv, Recorded, PhpFields, PhpInts, TypeOK
<1>5. SettingsArrive' /\ ReconnectAsAsked'
  BY <1>2 DEF IInv, SettingsArrive, ReconnectAsAsked
<1>6. RequestsArrive'
  BY <1>2 DEF IInv, RequestsArrive
<1>7. state' # "aborted"
  BY <1>2 DEF Building
<1>8. QED
  BY <1>1, <1>4, <1>5, <1>6, <1>7 DEF IInv, AbortsOnlyOnOversized

\* connect and connectPool build a connection of 1 or max(1, n) members, or
\* take the process down.
LEMMA ConnectIInv ==
    ASSUME IInv, connect \/ connectPool
    PROVE  IInv'
<1>1. UNCHANGED <<php, asked, sets, request>>
  BY DEF connect, connectPool
<1>2. Recorded' /\ RequestsArrive'
  BY <1>1 DEF IInv, Recorded, RequestsArrive
<1>3. ASSUME BuildPanics(ffiArgs), state' = "aborted", UNCHANGED sdk
      PROVE  IInv'
  <2>1. TypeOK'
    BY <1>1, <1>3 DEF IInv, TypeOK
  <2>2. AbortsOnlyOnOversized'
    BY <1>1, <1>3, PanicsAsAsked DEF IInv, AbortsOnlyOnOversized
  <2>3. SettingsArrive' /\ ReconnectAsAsked'
    BY <1>3 DEF IInv, SettingsArrive, ReconnectAsAsked
  <2>4. QED
    BY <1>2, <2>1, <2>2, <2>3 DEF IInv
<1>4. ASSUME NEW k \in 1..I32Mod, state' = "connected",
             sdk' = [asked |-> asked, builder |-> build_sdk_builder(ffiArgs), members |-> k]
      PROVE  IInv'
  <2>1. SettingsArrive' /\ ReconnectAsAsked'
    BY <1>4, ConnectArrives DEF IInv
  <2>2. sdk'.members \in 0..I32Mod
    BY <1>4, Widths
  <2>3. TypeOK'
    BY <1>1, <1>4, <2>2 DEF IInv, TypeOK
  <2>4. QED
    BY <1>2, <1>4, <2>1, <2>3 DEF IInv, AbortsOnlyOnOversized
<1>5. 1 \in 1..I32Mod /\ \A n \in Ints : AtLeastOne(ToI32(n)) \in 1..I32Mod
  BY I32Conversion, Widths DEF AtLeastOne
<1>6. QED
  BY <1>3, <1>4, <1>5 DEF connect, connectPool

\* openStream hands on the policy and the topic.
LEMMA StreamIInv ==
    ASSUME IInv, openStream
    PROVE  IInv'
<1>1. UNCHANGED <<php, asked, sets, state, sdk>> /\ state = "connected"
  BY DEF openStream
<1>2. PICK policy \in Policies, topic \in Topics :
         request' = [op |-> "stream", asked |-> <<policy, topic>>,
                     policy |-> ordinal_to_policy(ToI32(policy)),
                     topic  |-> cstr_to_string(OrNull(topic))]
  BY DEF openStream
<1>3. policy \in 0..3 => ordinal_to_policy(ToI32(policy)) = PolicyNames[policy + 1]
  BY SmallI32 DEF ordinal_to_policy, PolicyNames
<1>4. cstr_to_string(OrNull(topic)) = IF topic = "0" THEN "" ELSE topic
  <2>1. topic # None
    BY BuilderAssumption, Zenon DEF None
  <2>2. QED
    BY <2>1, Zenon DEF cstr_to_string, OrNull
<1>5. RequestsArrive'
  BY <1>2, <1>3, <1>4 DEF RequestsArrive
<1>6. Recorded' /\ SettingsArrive' /\ ReconnectAsAsked'
  BY <1>1 DEF IInv, Recorded, SettingsArrive, ReconnectAsAsked
<1>7. TypeOK'
  BY <1>1 DEF IInv, TypeOK
<1>8. QED
  BY <1>1, <1>5, <1>6, <1>7 DEF IInv, AbortsOnlyOnOversized

\* rpc hands on its timeout, or takes the process down for an oversized one.
LEMMA RpcIInv ==
    ASSUME IInv, rpc
    PROVE  IInv'
<1>1. UNCHANGED <<php, asked, sets, sdk>> /\ state = "connected"
  BY DEF rpc
<1>2. PICK timeout \in Floats :
         /\ state' = IF Panics(AtLeastMilli(timeout)) THEN "aborted" ELSE state
         /\ request' = [op |-> "rpc", asked |-> timeout,
                        timeout |-> Duration(AtLeastMilli(timeout))]
  BY DEF rpc
<1>3. /\ request'.op = "rpc" /\ request'.asked = timeout
      /\ request'.timeout = Duration(AtLeastMilli(timeout))
  BY <1>2
<1>4. RequestsArrive'
  BY <1>3 DEF RequestsArrive, AtLeastMilli, Duration
<1>5. AbortsOnlyOnOversized'
  BY <1>1, <1>2, <1>3, OnlyOversizedPanics DEF AbortsOnlyOnOversized
<1>6. Recorded' /\ SettingsArrive' /\ ReconnectAsAsked'
  BY <1>1 DEF IInv, Recorded, SettingsArrive, ReconnectAsAsked
<1>7. TypeOK'
  BY <1>1, <1>2 DEF IInv, TypeOK
<1>8. QED
  BY <1>4, <1>5, <1>6, <1>7 DEF IInv

\* Whatever a script sets, connects and requests, the combined invariant holds.
LEMMA Inductive == Spec => []IInv
<1>1. ASSUME IInv, UNCHANGED vars
      PROVE  IInv'
  <2>1. TypeOK' /\ RequestsArrive'
    BY <1>1 DEF IInv, TypeOK, RequestsArrive, vars
  <2>2. Recorded' /\ SettingsArrive' /\ ReconnectAsAsked' /\ AbortsOnlyOnOversized'
    BY <1>1 DEF IInv, Recorded, SettingsArrive, ReconnectAsAsked, AbortsOnlyOnOversized, vars
  <2>3. QED
    BY <2>1, <2>2 DEF IInv
<1>2. IInv /\ [Next]_vars => IInv'
  BY <1>1, SetterIInv, ConnectIInv, StreamIInv, RpcIInv DEF Next, Stopped
<1>3. QED
  BY InitIInv, <1>2, PTL DEF Spec

\* The fields of VireonClientBuilder and the members of a pool keep their
\* types, whatever is set and however often.
THEOREM TypeCorrect == Spec => []TypeOK
<1>1. IInv => TypeOK
  BY DEF IInv
<1>2. QED
  BY Inductive, <1>1, PTL

\* Every setting in range reaches the SDK through the 14 positional arguments
\* of vireon_connect as the script last asked for it, for integers of any
\* width.
THEOREM SettingsCorrect == Spec => []SettingsArrive
<1>1. IInv => SettingsArrive
  BY DEF IInv
<1>2. QED
  BY Inductive, <1>1, PTL

\* build_reconnect is told to reconnect exactly when the last reconnect()
\* asked for attempts, and never gets zero attempts or a zero backoff.
THEOREM ReconnectCorrect == Spec => []ReconnectAsAsked
<1>1. IInv => ReconnectAsAsked
  BY DEF IInv
<1>2. QED
  BY Inductive, <1>1, PTL

\* Duration::from_secs_f64 panics, which takes the process down, only for
\* a value that is infinite or too many seconds for a Duration, and in force
\* when a call converts it.
THEOREM AbortsCorrect == Spec => []AbortsOnlyOnOversized
<1>1. IInv => AbortsOnlyOnOversized
  BY DEF IInv
<1>2. QED
  BY Inductive, <1>1, PTL

\* openStream's policy and topic and rpc's timeout reach the SDK, but for the
\* topic '0'.
THEOREM RequestsCorrect == Spec => []RequestsArrive
<1>1. IInv => RequestsArrive
  BY DEF IInv
<1>2. QED
  BY Inductive, <1>1, PTL
=============================================================================
