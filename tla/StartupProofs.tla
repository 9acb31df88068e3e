---------------------------- MODULE StartupProofs ----------------------------
(***************************************************************************)
(* What a program makes of its file, the ports it gets, and that every     *)
(* start ends, for every file and every duration that ParseDuration reads. *)
(*                                                                         *)
(* The invariant says of each program that its settings are those of some  *)
(* file, the one it has loaded last if it was ever started, and follows    *)
(* the embedded program's ports from one stage of its start to the next.   *)
(***************************************************************************)
EXTENDS Startup, TLAPS

\* What a program may have loaded.
Readable(f) == f = Missing \/ IsFile(f)

\* The types of the stages.
StageType ==
  /\ stage \in [Programs -> {"down", "loaded", "hooked", "listening", "valid", "running"}]
  /\ web \in [Programs -> {"closed", "opening", "open", "refused"}]
  /\ stage["embedded"] # "valid"
  /\ \A p \in Programs : stage[p] = "down" => web[p] = "closed"

\* The settings are those of the file.
SettingsOfFile ==
  /\ from = [p \in Programs |-> from[p]]
  /\ setting = [p \in Programs |-> setting[p]]
  /\ \A p \in Programs : \E f : Readable(f) /\
       setting[p] = Settings(p, f) /\ (Started(p) => from[p] = f)

\* The ports of the embedded program, stage by stage.
Listening(s) ==
  CASE stage["embedded"] = "listening" -> {s.port} \ {0}
    [] stage["embedded"] = "running"   ->
         ({s.port} \cup IF s.tls = "off" THEN {} ELSE {s.tls_port}) \ {0}
    [] OTHER                           -> {}

\* What each stage of a start holds.
PortsOfStage ==
  /\ bound \subseteq 1 .. MaxUint16
  /\ bound = Listening(setting["embedded"])
  /\ stage["embedded"] = "running" => setting["embedded"].tls # "no certificate"
  /\ \A p \in Programs : web[p] = "open" => setting[p].listen \notin bound

\* The inductive invariant.
IInv ==
  /\ file \in {Missing, Corrupt} \/ IsFile(file)
  /\ edits \in 0 .. MaxEdits
  /\ StageType
  /\ SettingsOfFile
  /\ PortsOfStage

-----------------------------------------------------------------------------
(* The conversions. *)

\* The keys, one by one.
LEMMA KeyNames ==
  Keys = {"metrics_ttl", "keep_alive", "expiry", "inflight", "pending", "qos", "host",
          "port", "tls", "tls_port", "listen", "alert_path"}
BY DEF Keys, Default

\* The value of a key is its default or one of the operator's.
LEMMA ValueType ==
  ASSUME NEW f, Readable(f), NEW key \in Keys
  PROVE  Value(f, key) \in Values[key] \cup {Default[key]}
BY DEF Value, Readable, IsFile

\* The values of a duration's key can be given to ParseDuration.
LEMMA DurationKeys ==
  ASSUME NEW f, Readable(f)
  PROVE  {Value(f, "metrics_ttl"), Value(f, "expiry")} \subseteq Durations
<1>1. Value(f, "metrics_ttl") \in Values["metrics_ttl"] \cup {Default["metrics_ttl"]}
  BY ValueType, KeyNames
<1>2. Value(f, "expiry") \in Values["expiry"] \cup {Default["expiry"]}
  BY ValueType, KeyNames
<1>3. Default["metrics_ttl"] = "30m" /\ Default["expiry"] = "24h"
  BY DEF Default
<1> QED BY <1>1, <1>2, <1>3, StartupAssumption

\* What is made of them is a number, if anything.
LEMMA DurationType ==
  ASSUME NEW f, Readable(f)
  PROVE  /\ ParseDuration[Value(f, "metrics_ttl")] \in Int \cup {Unreadable}
         /\ ParseDuration[Value(f, "expiry")] \in Int \cup {Unreadable}
BY DurationKeys, StartupAssumption

\* The values of a number's key are integers.
LEMMA NumberType ==
  ASSUME NEW f, Readable(f), NEW key \in {"inflight", "pending", "qos", "port", "tls_port"}
  PROVE  Value(f, key) \in Int
<1>1. Value(f, key) \in Values[key] \cup {Default[key]}
  BY ValueType, KeyNames
<1>2. /\ Default["inflight"] \in Int /\ Default["pending"] \in Int /\ Default["qos"] \in Int
      /\ Default["port"] \in Int /\ Default["tls_port"] \in Int
  BY DEF Default
<1> QED BY <1>1, <1>2, StartupAssumption

\* A number that is too large or too small becomes the nearest one that fits ...
LEMMA ClampType ==
  ASSUME NEW low \in Int, NEW high \in Int, low <= high, NEW n \in Int
  PROVE  Clamp(low, high, n) \in low .. high
BY DEF Clamp

\* ... and larger numbers stay larger: no conversion wraps.
LEMMA ClampMonotone ==
  ASSUME NEW low \in Int, NEW high \in Int, low <= high, NEW m \in Int, NEW n \in Int, m <= n
  PROVE  Clamp(low, high, m) <= Clamp(low, high, n)
BY DEF Clamp

\* The two conversions fit their types ...
LEMMA SafeType ==
  ASSUME NEW n \in Int
  PROVE  SafeUint16(n) \in 0 .. MaxUint16 /\ SafeInt32(n) \in MinInt32 .. MaxInt32
<1>1. MaxUint16 \in Int /\ 0 <= MaxUint16
  BY SMT DEF MaxUint16
<1>2. MinInt32 \in Int /\ MaxInt32 \in Int /\ MinInt32 <= MaxInt32
  BY SMT DEF MinInt32, MaxInt32
<1>3. SafeUint16(n) \in 0 .. MaxUint16
  BY <1>1, ClampType DEF SafeUint16
<1>4. SafeInt32(n) \in MinInt32 .. MaxInt32
  BY <1>2, ClampType DEF SafeInt32
<1> QED BY <1>3, <1>4

\* ... and keep the order.
LEMMA SafeMonotone ==
  ASSUME NEW m \in Int, NEW n \in Int, m <= n
  PROVE  SafeUint16(m) <= SafeUint16(n) /\ SafeInt32(m) <= SafeInt32(n)
<1>1. MaxUint16 \in Int /\ 0 <= MaxUint16
  BY SMT DEF MaxUint16
<1>2. MinInt32 \in Int /\ MaxInt32 \in Int /\ MinInt32 <= MaxInt32
  BY SMT DEF MinInt32, MaxInt32
<1>3. SafeUint16(m) <= SafeUint16(n)
  BY <1>1, ClampMonotone DEF SafeUint16
<1>4. SafeInt32(m) <= SafeInt32(n)
  BY <1>2, ClampMonotone DEF SafeInt32
<1> QED BY <1>3, <1>4

\* Every setting fits its integers.
LEMMA SettingsType ==
  ASSUME NEW p \in Programs, NEW f, Readable(f)
  PROVE  /\ Settings(p, f).metrics_ttl \in Nat \ {0}
         /\ Settings(p, f).inflight \in 0 .. MaxUint16
         /\ Settings(p, f).pending \in MinInt32 .. MaxInt32
         /\ Settings(p, f).qos \in 0 .. 255
<1>1. CollectorTTL(f) \in Nat \ {0}
  BY DurationType DEF CollectorTTL, Minute
<1>2. Value(f, "inflight") \in Int /\ Value(f, "pending") \in Int
  BY NumberType
<1>3. SafeUint16(Value(f, "inflight")) \in 0 .. MaxUint16
  BY <1>2, SafeType
<1>4. SafeInt32(Value(f, "pending")) \in MinInt32 .. MaxInt32
  BY <1>2, SafeType
<1>5. Value(f, "qos") % 256 \in 0 .. 255
  BY NumberType
<1> QED BY <1>1, <1>3, <1>4, <1>5 DEF Settings

-----------------------------------------------------------------------------
(* The invariant. *)

\* The two assumptions that proofs of steps need.
LEMMA Bounds == MaxEdits \in Nat /\ Unreadable \notin Int
BY StartupAssumption

\* An empty file can be parsed.
LEMMA NoKeysType == IsFile(NoKeys)
BY DEF IsFile, NoKeys

\* A port that can be bound is nobody's.
LEMMA CanBindFree ==
  ASSUME NEW port, CanBind(port), port # 0
  PROVE  /\ port \in 1 .. MaxUint16
         /\ port \notin bound
         /\ \A p \in Programs : web[p] = "open" => setting[p].listen # port
BY DEF CanBind, Taken

\* The invariant holds before anything is started.
LEMMA InitInvariant == Init => IInv
<1> SUFFICES ASSUME Init PROVE IInv
  OBVIOUS
<1>1. file \in {Missing, Corrupt} \/ IsFile(file)
  BY NoKeysType DEF Init
<1>2. edits \in 0 .. MaxEdits
  BY Bounds DEF Init
<1>3. StageType
  BY DEF Init, StageType, Programs
<1>4. SettingsOfFile
  <2>1. Readable(NoKeys)
    BY NoKeysType DEF Readable
  <2> QED BY <2>1 DEF Init, SettingsOfFile, Started
<1>5. PortsOfStage
  BY DEF Init, PortsOfStage, Listening, Programs
<1> QED BY <1>1, <1>2, <1>3, <1>4, <1>5 DEF IInv

\* What ends a process keeps the invariant.
LEMMA EndInvariant ==
  ASSUME IInv, NEW p \in Programs, End(p)
  PROVE  IInv'
<1> USE DEF IInv, End, Become, Programs
<1>1. StageType'
  BY DEF StageType
<1>2. SettingsOfFile'
  BY DEF SettingsOfFile, Started
<1>3. PortsOfStage'
  <2>1. CASE p = "embedded"
    BY <2>1 DEF PortsOfStage, Listening, StageType
  <2>2. CASE p = "standalone"
    BY <2>2 DEF PortsOfStage, Listening, StageType
  <2> QED BY <2>1, <2>2
<1> QED BY <1>1, <1>2, <1>3

\* No running program notices an edit.
LEMMA EditInvariant == IInv /\ Edit => IInv'
<1> SUFFICES ASSUME IInv, Edit PROVE IInv'
  OBVIOUS
<1> USE DEF IInv, Edit
<1>1. (file \in {Missing, Corrupt} \/ IsFile(file))'
  <2>1. CASE file' \in {Missing, Corrupt}
    BY <2>1
  <2>2. CASE IsFile(file) /\ \E key \in Keys : \E v \in Values[key] : file' = [file EXCEPT ![key] = v]
    BY <2>2 DEF IsFile
  <2> QED BY <2>1, <2>2
<1>2. (edits \in 0 .. MaxEdits)'
  BY Bounds
<1>3. StageType' /\ SettingsOfFile' /\ PortsOfStage'
  BY DEF StageType, SettingsOfFile, Started, PortsOfStage, Listening
<1> QED BY <1>1, <1>2, <1>3

\* A program is started with the settings of the file.
LEMMA LoadInvariant ==
  ASSUME IInv, NEW p \in Programs, Load(p)
  PROVE  IInv'
<1> USE DEF IInv, Load, Become
<1>1. StageType'
  BY DEF StageType, Programs
<1>2. SettingsOfFile'
  BY DEF SettingsOfFile, Started, Readable
<1>3. PortsOfStage'
  <2>1. CASE p = "embedded"
    BY <2>1 DEF PortsOfStage, Listening, StageType, Programs, SettingsOfFile
  <2>2. CASE p = "standalone"
    BY <2>2 DEF PortsOfStage, Listening, StageType, Programs, SettingsOfFile
  <2> QED BY <2>1, <2>2 DEF Programs
<1> QED BY <1>1, <1>2, <1>3

\* The HTTP server takes a free port or none.
LEMMA OpenWebInvariant ==
  ASSUME IInv, NEW p \in Programs, OpenWeb(p)
  PROVE  IInv'
<1> USE DEF IInv, OpenWeb
<1>1. StageType' /\ SettingsOfFile'
  BY DEF StageType, SettingsOfFile, Started
<1>2. PortsOfStage'
  BY DEF PortsOfStage, Listening, StageType, CanBind, Taken
<1> QED BY <1>1, <1>2

\* The hook takes no port yet.
LEMMA HookInvariant == IInv /\ AddMeshtasticHook => IInv'
<1> SUFFICES ASSUME IInv, AddMeshtasticHook PROVE IInv'
  OBVIOUS
<1> USE DEF IInv, AddMeshtasticHook, Become, Programs
<1>1. StageType'
  BY DEF StageType
<1>2. SettingsOfFile'
  BY DEF SettingsOfFile, Started
<1>3. PortsOfStage'
  BY DEF PortsOfStage, Listening, StageType
<1> QED BY <1>1, <1>2, <1>3

\* The first listener takes a port that is nobody's.
LEMMA AddTCPInvariant == IInv /\ AddTCPListener => IInv'
<1> SUFFICES ASSUME IInv, AddTCPListener, CanBind(setting["embedded"].port) PROVE IInv'
  BY EndInvariant DEF AddTCPListener, Programs
<1> USE DEF IInv, AddTCPListener, Become, Programs
<1>1. StageType'
  BY DEF StageType
<1>2. SettingsOfFile'
  BY DEF SettingsOfFile, Started
<1>3. PortsOfStage'
  <2>1. bound = {}
    BY DEF PortsOfStage, Listening
  <2>2. bound' = {setting["embedded"].port} \ {0} /\ bound' = Listening(setting["embedded"])'
    BY <2>1 DEF Bind, Listening, StageType
  <2> QED BY <2>2, CanBindFree DEF PortsOfStage, StageType
<1> QED BY <1>1, <1>2, <1>3

\* So does the second one.
LEMMA AddTLSInvariant == IInv /\ AddTLSListener => IInv'
<1> SUFFICES ASSUME IInv, AddTLSListener, ~End("embedded") PROVE IInv'
  BY EndInvariant DEF Programs
<1> USE DEF IInv, AddTLSListener, Become, Programs
<1>1. StageType'
  BY DEF StageType
<1>2. SettingsOfFile'
  BY DEF SettingsOfFile, Started
<1>3. PortsOfStage'
  <2>1. CASE setting["embedded"].tls = "off"
    BY <2>1 DEF PortsOfStage, Listening, StageType
  <2>2. CASE setting["embedded"].tls # "off"
    <3>1. /\ CanBind(setting["embedded"].tls_port)
          /\ setting["embedded"].tls = "on"
          /\ bound' = bound \cup ({setting["embedded"].tls_port} \ {0})
      BY <2>2 DEF Bind
    <3>2. bound = {setting["embedded"].port} \ {0}
      BY DEF PortsOfStage, Listening
    <3>3. bound' = Listening(setting["embedded"])'
      BY <2>2, <3>1, <3>2 DEF Listening, StageType
    <3> QED BY <3>1, <3>3, CanBindFree DEF PortsOfStage, StageType
  <2> QED BY <2>1, <2>2
<1> QED BY <1>1, <1>2, <1>3

\* The standalone program changes nothing of the embedded one.
LEMMA StandaloneInvariant == IInv /\ (Validate \/ Connect) => IInv'
<1> SUFFICES ASSUME IInv, Validate \/ Connect, ~End("standalone") PROVE IInv'
  BY EndInvariant DEF Programs
<1> USE DEF IInv, Validate, Connect, Become, Programs
<1>1. StageType'
  BY DEF StageType
<1>2. SettingsOfFile'
  BY DEF SettingsOfFile, Started
<1>3. PortsOfStage'
  BY DEF PortsOfStage, Listening, StageType
<1> QED BY <1>1, <1>2, <1>3

\* Every step keeps the invariant.
LEMMA NextInvariant == IInv /\ [Next]_vars => IInv'
<1> SUFFICES ASSUME IInv, [Next]_vars PROVE IInv'
  OBVIOUS
<1>1. CASE Edit
  BY <1>1, EditInvariant
<1>2. CASE \E p \in Programs : Load(p)
  BY <1>2, LoadInvariant
<1>3. CASE AddMeshtasticHook
  BY <1>3, HookInvariant
<1>4. CASE AddMeshtasticHookPanics
  BY <1>4, EndInvariant DEF AddMeshtasticHookPanics, Programs
<1>5. CASE AddTCPListener
  BY <1>5, AddTCPInvariant
<1>6. CASE AddTLSListener
  BY <1>6, AddTLSInvariant
<1>7. CASE Validate \/ Connect
  BY <1>7, StandaloneInvariant
<1>8. CASE ConnectFails
  BY <1>8, EndInvariant DEF ConnectFails, Programs
<1>9. CASE \E p \in Programs : OpenWeb(p)
  BY <1>9, OpenWebInvariant
<1>10. CASE \E p \in Programs : Stop(p)
  BY <1>10, EndInvariant DEF Stop
<1>11. CASE UNCHANGED vars
  BY <1>11 DEF vars, IInv, StageType, SettingsOfFile, Started, PortsOfStage, Listening
<1> QED BY <1>1, <1>2, <1>3, <1>4, <1>5, <1>6, <1>7, <1>8, <1>9, <1>10, <1>11 DEF Next

\* The invariant holds in every reachable state.
THEOREM Invariance == Spec => []IInv
BY InitInvariant, NextInvariant, PTL DEF Spec

-----------------------------------------------------------------------------
(* The properties. *)

\* Every variable keeps its type, and every number its range.
THEOREM TypeCorrect == Spec => []TypeOK
<1>1. IInv => TypeOK
  <2> SUFFICES ASSUME IInv PROVE TypeOK
    OBVIOUS
  <2>1. ASSUME NEW p \in Programs
        PROVE  /\ setting[p].metrics_ttl \in Nat \ {0}
               /\ setting[p].inflight \in 0 .. MaxUint16
               /\ setting[p].pending \in MinInt32 .. MaxInt32
               /\ setting[p].qos \in 0 .. 255
    BY SettingsType DEF IInv, SettingsOfFile
  <2> QED BY <2>1 DEF IInv, TypeOK, StageType, PortsOfStage
<1> QED BY Invariance, <1>1, PTL

\* The TTL of the file, or half an hour.
LEMMA ExpiryOfReadings == Spec => []ReadingsExpireAsSaid
<1>1. IInv => ReadingsExpireAsSaid
  <2> SUFFICES ASSUME IInv, NEW p \in Programs, Started(p)
               PROVE  LET said == ParseDuration[Value(from[p], "metrics_ttl")]
                      IN  setting[p].metrics_ttl =
                            IF said # Unreadable /\ said > 0 THEN said ELSE 30 * Minute
    BY DEF ReadingsExpireAsSaid
  <2>1. Readable(from[p]) /\ setting[p] = Settings(p, from[p])
    BY DEF IInv, SettingsOfFile
  <2>2. ParseDuration[Value(from[p], "metrics_ttl")] \in Int \cup {Unreadable}
    BY <2>1, DurationType
  <2>3. setting[p].metrics_ttl = CollectorTTL(from[p])
    BY <2>1 DEF Settings
  <2>4. ParseDuration[Value(from[p], "metrics_ttl")] # Unreadable =>
          ParseDuration[Value(from[p], "metrics_ttl")] \in Int
    BY <2>2
  <2> QED BY <2>3, <2>4 DEF CollectorTTL
<1> QED BY Invariance, <1>1, PTL

\* Seconds that go towards zero honour a duration ...
LEMMA SecondsHonour ==
  ASSUME NEW n \in Int
  PROVE  Honours(Seconds(n), n)
BY SMTT(30) DEF Seconds, Honours

\* ... and are none for exactly those of less than a second.
LEMMA SecondsLost ==
  ASSUME NEW n \in Int
  PROVE  Seconds(n) = 0 <=> BelowASecond(n)
BY SMTT(30) DEF Seconds, BelowASecond

\* The setting is the whole seconds of what the file says.
LEMMA ExpiryOfFile ==
  ASSUME IInv, NEW p \in Programs, Started(p)
  PROVE  ExpirySaid(from[p]) \in Int /\ setting[p].expiry = Seconds(ExpirySaid(from[p]))
<1>1. Readable(from[p]) /\ setting[p] = Settings(p, from[p])
  BY DEF IInv, SettingsOfFile
<1>2. setting[p].expiry = MessageExpiry(from[p])
  BY <1>1 DEF Settings
<1>3. ExpirySaid(from[p]) \in Int
  BY <1>1, DurationType DEF ExpirySaid, Hour, Minute
<1>4. CASE Value(from[p], "expiry") = "0"
  <2>1. Value(from[p], "expiry") \in Durations
    BY <1>1, DurationKeys
  <2>2. ParseDuration[Value(from[p], "expiry")] = 0
    BY <2>1, <1>4, StartupAssumption
  <2>3. ExpirySaid(from[p]) = 0
    BY <2>2, Bounds DEF ExpirySaid
  <2>4. setting[p].expiry = 0
    BY <1>2, <1>4 DEF MessageExpiry
  <2> QED BY <1>3, <2>3, <2>4 DEF Seconds
<1>5. CASE Value(from[p], "expiry") # "0"
  BY <1>2, <1>3, <1>5 DEF MessageExpiry, ExpirySaid
<1> QED BY <1>4, <1>5

\* The expiry of the file, unless it is below a second.
LEMMA ExpiryOfMessages == Spec => []MessagesExpireAsSaid
<1>1. IInv => MessagesExpireAsSaid
  BY ExpiryOfFile, SecondsHonour DEF MessagesExpireAsSaid
<1> QED BY Invariance, <1>1, PTL

\* Both, for every file: what the programs can read is honoured from a second on,
\* and what they cannot read is a limit.
THEOREM ExpiryOfBoth == Spec => []ExpiryAsSaid
<1>1. ReadingsExpireAsSaid /\ MessagesExpireAsSaid => ExpiryAsSaid
  BY DEF ExpiryAsSaid
<1> QED BY <1>1, ExpiryOfReadings, ExpiryOfMessages, PTL

\* What ExpiryAsSaid excepts: messages are kept without a limit for exactly the
\* files that say less than a second, zero among them.
THEOREM ShortIsUnlimited == Spec => []NoLimitBelowASecond
<1>1. IInv => NoLimitBelowASecond
  <2> SUFFICES ASSUME IInv, NEW p \in Programs, Started(p)
               PROVE  setting[p].expiry = 0 <=> BelowASecond(ExpirySaid(from[p]))
    BY DEF NoLimitBelowASecond
  <2>1. ExpirySaid(from[p]) \in Int /\ setting[p].expiry = Seconds(ExpirySaid(from[p]))
    BY ExpiryOfFile
  <2>2. Seconds(ExpirySaid(from[p])) = 0 <=> BelowASecond(ExpirySaid(from[p]))
    BY <2>1, SecondsLost
  <2> QED BY <2>1, <2>2
<1> QED BY Invariance, <1>1, PTL

\* A running embedded program has its listeners to itself.
THEOREM PortsHeld == Spec => []RunningHoldsItsPorts
<1>1. IInv => RunningHoldsItsPorts
  BY DEF IInv, PortsOfStage, Listening, RunningHoldsItsPorts
<1> QED BY Invariance, <1>1, PTL

\* Raising a limit never lowers it.
THEOREM LimitsMonotone == Spec => HigherLimitNotLower
<1>1. ASSUME IInv, IInv', [Next]_vars, NEW p \in Programs, NEW limit \in {"inflight", "pending"},
             Started(p), Started(p)', Value(from[p], limit) <= Value(from'[p], limit)
      PROVE  setting[p][limit] <= setting'[p][limit]
  <2>1. Readable(from[p]) /\ setting[p] = Settings(p, from[p])
    BY <1>1 DEF IInv, SettingsOfFile
  <2>2. Readable(from'[p]) /\ setting'[p] = Settings(p, from'[p])
    BY <1>1 DEF IInv, SettingsOfFile, Started
  <2>3. Value(from[p], limit) \in Int /\ Value(from'[p], limit) \in Int
    BY <2>1, <2>2, NumberType
  <2>4. CASE limit = "inflight"
    BY <1>1, <2>1, <2>2, <2>3, <2>4, SafeMonotone DEF Settings
  <2>5. CASE limit = "pending"
    BY <1>1, <2>1, <2>2, <2>3, <2>5, SafeMonotone DEF Settings
  <2> QED BY <2>4, <2>5
<1>2. IInv /\ IInv' /\ [Next]_vars =>
        [\A p \in Programs, limit \in {"inflight", "pending"} :
           Started(p) /\ Started(p)' /\ Value(from[p], limit) <= Value(from'[p], limit) =>
             setting[p][limit] <= setting'[p][limit]]_vars
  BY <1>1
<1> QED BY Invariance, <1>2, PTL DEF Spec, HigherLimitNotLower

-----------------------------------------------------------------------------
(* Every start ends. *)

\* What the proof takes from fairness, since it cannot look into ENABLED: a
\* process whose guard holds for ever takes its step again and again.  As the
\* guards below enable their steps, it follows from weak fairness of the steps.
Runs(guard, step) == []<>~guard \/ []<><<step>>_vars

\* The steps of main, from what is loaded to what runs.
Main(p) ==
  \/ /\ p = "embedded"
     /\ AddMeshtasticHook \/ AddMeshtasticHookPanics \/ AddTCPListener \/ AddTLSListener
  \/ /\ p = "standalone"
     /\ Validate \/ Connect \/ ConnectFails

Starting(p) == stage[p] \in {"loaded", "hooked", "listening", "valid"}

\* The fairness of FairSpec, with the guards written out.
ProgramsRun ==
  \A p \in Programs : Runs(Starting(p), Main(p)) /\ Runs(web[p] = "opening", OpenWeb(p))

\* A start goes from stage to stage, or ends.
LEMMA StagesInOrder ==
  ASSUME IInv, [Next]_vars, NEW p \in Programs
  PROVE  /\ stage[p] = "loaded" => stage'[p] \in {"loaded", "hooked", "valid", "running", "down"}
         /\ stage[p] = "hooked" => stage'[p] \in {"hooked", "listening", "down"}
         /\ stage[p] \in {"listening", "valid"} => stage'[p] \in {stage[p], "running", "down"}
BY DEF IInv, StageType, Programs, Next, vars, Edit, Load, AddMeshtasticHook, AddMeshtasticHookPanics,
   AddTCPListener, AddTLSListener, Validate, Connect, ConnectFails, OpenWeb, Stop, End, Become

\* Each step of main is one.
LEMMA MainGoesOn ==
  ASSUME IInv, NEW p \in Programs, Main(p)
  PROVE  stage'[p] # stage[p]
BY DEF IInv, StageType, Programs, Main, AddMeshtasticHook, AddMeshtasticHookPanics,
   AddTCPListener, AddTLSListener, Validate, Connect, ConnectFails, End, Become

\* A program that is loaded gets to run or ends, and its HTTP server gets its
\* address or is refused, whatever the file says and whoever holds the ports.
THEOREM StartIsDecided == Spec /\ ProgramsRun => StartDecides
<1>1. ASSUME NEW p \in Programs
      PROVE  Spec /\ ProgramsRun => (stage[p] = "loaded" ~> stage[p] \in {"running", "down"})
  <2> DEFINE At(s)   == stage[p] = s
             Decided == stage[p] \in {"running", "down"}
  <2>1. IInv /\ [Next]_vars /\ At("loaded") =>
          At("loaded")' \/ At("hooked")' \/ At("valid")' \/ Decided'
    BY StagesInOrder
  <2>2. IInv /\ [Next]_vars /\ At("hooked") => At("hooked")' \/ At("listening")' \/ Decided'
    BY StagesInOrder
  <2>3. IInv /\ [Next]_vars /\ At("listening") => At("listening")' \/ Decided'
    BY StagesInOrder
  <2>4. IInv /\ [Next]_vars /\ At("valid") => At("valid")' \/ Decided'
    BY StagesInOrder
  <2>5. /\ IInv /\ <<Main(p)>>_vars /\ At("loaded") => ~At("loaded")'
        /\ IInv /\ <<Main(p)>>_vars /\ At("hooked") => ~At("hooked")'
        /\ IInv /\ <<Main(p)>>_vars /\ At("listening") => ~At("listening")'
        /\ IInv /\ <<Main(p)>>_vars /\ At("valid") => ~At("valid")'
    BY MainGoesOn
  <2>6. At("loaded") \/ At("hooked") \/ At("listening") \/ At("valid") => Starting(p)
    BY DEF Starting
  <2>7. ProgramsRun => Runs(Starting(p), Main(p))
    BY DEF ProgramsRun
  <2> QED BY <2>1, <2>2, <2>3, <2>4, <2>5, <2>6, <2>7, Invariance, PTL DEF Spec, Runs
<1>2. ASSUME NEW p \in Programs
      PROVE  Spec /\ ProgramsRun => (web[p] = "opening" ~> web[p] # "opening")
  <2>1. ProgramsRun => Runs(web[p] = "opening", OpenWeb(p))
    BY DEF ProgramsRun
  <2>2. IInv /\ <<OpenWeb(p)>>_vars => (web[p] # "opening")'
    BY DEF IInv, StageType, OpenWeb
  <2>3. web[p] # "opening" <=> ~(web[p] = "opening")
    OBVIOUS
  <2> QED BY <2>1, <2>2, <2>3, Invariance, PTL DEF Spec, Runs
<1> QED BY <1>1, <1>2 DEF StartDecides
=============================================================================
