------------------------ MODULE MessageProcessorProofs ------------------------
(***************************************************************************)
(* What the registry owes to the messages accepted so far, for any         *)
(* messages, families and node ids.  The properties of the history are     *)
(* inductive together with the types and one more fact (LastExists): where *)
(* a property, or SaveState, takes the last of something, there is one.    *)
(* From the same invariant: what a restart does to names (NamedAreShown),  *)
(* and that no reading goes back.                                          *)
(***************************************************************************)
EXTENDS MessageProcessor, FiniteSetTheorems, TLAPS

\* An entry of the log.
Entry == [node : Node, message : Messages]

\* Those counted since the start.
SinceStart(n, t) == {i \in CountedOf(n, t) : i > counted}

\* One element is the last.
HasMax(S) == \E x \in S : \A y \in S : x >= y

\* Types; that a counter is bounded follows from CountersAddUp.
RegistryTypes ==
  /\ log \in Seq(Entry)
  /\ Len(log) <= MaxAccepted
  /\ counted \in 0 .. Len(log)
  /\ restarts \in 0 .. MaxRestarts
  /\ result \in {"none", "ok", "error"}
  /\ lastSeen \in [Node -> 0 .. MaxAccepted]
  /\ counter \in [Node -> [Types -> Nat]]
  /\ gauge \in [Node -> [Telemetry -> ((1 .. MaxAccepted) \X Places) \cup {NoValue}]]
  /\ info \in [Node -> SUBSET Identities]

\* The sets of which the properties take the last element have one.
LastExists ==
  \A n \in Node :
    /\ info[n] = {} \/ HasMax(info[n])
    /\ Of(n) = {} \/ Max(Of(n)) \in Of(n)
    /\ \A f \in Telemetry : CarriedOf(n, f) = {} \/ Max(CarriedOf(n, f)) \in CarriedOf(n, f)

\* The inductive invariant.
IInv ==
  /\ RegistryTypes
  /\ CountersAddUp
  /\ ReadingsAreLatest
  /\ NamesAreAnnounced
  /\ LastExists

-----------------------------------------------------------------------------
\* The greatest element, where there is one.
LEMMA MaxIs ==
  ASSUME NEW S, S \subseteq Int, NEW x \in S, \A y \in S : x >= y
  PROVE  Max(S) = x
<1>1. Max(S) \in S /\ \A y \in S : Max(S) >= y
  BY DEF Max
<1>2. Max(S) >= x /\ x >= Max(S) /\ x \in Int /\ Max(S) \in Int
  BY <1>1
<1> QED BY <1>2

-----------------------------------------------------------------------------
(* One more accepted message. *)

\* A node id is a positive number, and the bounds are natural numbers.
LEMMA Bounds ==
  /\ MaxAccepted \in Nat /\ MaxRestarts \in Nat /\ Identities \subseteq Nat /\ Messages \subseteq Message
BY MessageAssumption

\* Whoever is accepted is a node, and the fields of a message are telemetry.
LEMMA Senders ==
  ASSUME NEW m \in Messages, NEW n \in ToUint32(m.from) \ {0}
  PROVE  n \in Node
<1>1. ToUint32(m.from) \subseteq {0} \cup Node
  BY DEF ToUint32
<1> QED BY <1>1

\* Every message is counted under a type.
LEMMA MessageFacts ==
  ASSUME NEW m \in Messages
  PROVE  CountedAs(m) \in Types /\ m.identity \in Identities /\ m.type \in MessageTypes
<1>1. m \in Message
  BY Bounds
<1>2. m.identity \in Identities /\ m.type \in MessageTypes
  BY <1>1 DEF Message
<1>3. CountedAs(m) \in Types
  BY <1>2 DEF CountedAs, MessageTypes, Types
<1> QED BY <1>2, <1>3

\* The number of a message to come.
Now == Len(log) + 1

\* The log of the messages so far, and of one more.
LEMMA LogSoFar ==
  ASSUME RegistryTypes
  PROVE  /\ Now \in Nat /\ Now >= 1 /\ Len(log) \in Nat /\ Now \notin DOMAIN log
         /\ DOMAIN log = 1 .. Len(log)
         /\ \A i \in DOMAIN log : /\ i \in Nat /\ 1 <= i /\ i < Now /\ i <= Len(log)
                                  /\ log[i] \in Entry
         /\ IsFiniteSet(DOMAIN log)
<1>1. log \in Seq(Entry) /\ Len(log) \in Nat /\ DOMAIN log = 1 .. Len(log)
  BY DEF RegistryTypes
<1>2. IsFiniteSet(1 .. Len(log))
  BY <1>1, FS_Interval
<1> QED BY <1>1, <1>2 DEF Now

\* Its entries keep their numbers.
LEMMA LogGrows ==
  ASSUME RegistryTypes, NEW e \in Entry, log' = Append(log, e)
  PROVE  /\ log' \in Seq(Entry) /\ Len(log') = Now
         /\ DOMAIN log' = DOMAIN log \cup {Now}
         /\ log'[Now] = e
         /\ \A i \in DOMAIN log : log'[i] = log[i]
<1>1. log \in Seq(Entry)
  BY DEF RegistryTypes
<1>2. log' \in Seq(Entry) /\ Len(log') = Now
  BY <1>1 DEF Now
<1>3. DOMAIN log' = 1 .. Now
  BY <1>2
<1>4. DOMAIN log' = DOMAIN log \cup {Now}
  BY <1>3, LogSoFar
<1>5. log'[Now] = e /\ \A i \in DOMAIN log : log'[i] = log[i]
  BY <1>1, LogSoFar DEF Now
<1> QED BY <1>2, <1>4, <1>5

\* Each set of messages gains the new one exactly when it belongs there.
LEMMA SetsGrow ==
  ASSUME RegistryTypes, NEW m \in Messages, NEW k \in Node, UNCHANGED counted,
         log' = Append(log, [node |-> k, message |-> m]), NEW n \in Node
  PROVE  /\ Of(n)' = IF n = k THEN Of(n) \cup {Now} ELSE Of(n)
         /\ \A t : SinceStart(n, t)' = IF n = k /\ CountedAs(m) = t
                                       THEN SinceStart(n, t) \cup {Now} ELSE SinceStart(n, t)
         /\ \A f : CarriedOf(n, f)' = IF n = k /\ m.type = "telemetry" /\ f \in m.payload \cup m.top
                                    THEN CarriedOf(n, f) \cup {Now} ELSE CarriedOf(n, f)
         /\ NamesOf(n)' = IF n = k /\ m.type = "nodeinfo" THEN NamesOf(n) \cup {Now} ELSE NamesOf(n)
<1> DEFINE e == [node |-> k, message |-> m]
<1>1. e \in Entry /\ e.node = k /\ e.message = m
  BY DEF Entry
<1>2. /\ DOMAIN log' = DOMAIN log \cup {Now} /\ Now \notin DOMAIN log
      /\ log'[Now].node = k /\ log'[Now].message = m
      /\ \A i \in DOMAIN log : log'[i] = log[i]
      /\ Now > counted /\ counted' = counted
  <2>1. Now > counted
    BY DEF RegistryTypes, Now
  <2> QED BY <1>1, <2>1, LogGrows, LogSoFar
<1>3. Of(n)' = IF n = k THEN Of(n) \cup {Now} ELSE Of(n)
  BY <1>2 DEF Of
<1>4. ASSUME NEW t
      PROVE  SinceStart(n, t)' = IF n = k /\ CountedAs(m) = t
                                 THEN SinceStart(n, t) \cup {Now} ELSE SinceStart(n, t)
  BY <1>2 DEF SinceStart, CountedOf, Of
<1>5. ASSUME NEW f
      PROVE  CarriedOf(n, f)' = IF n = k /\ m.type = "telemetry" /\ f \in m.payload \cup m.top
                              THEN CarriedOf(n, f) \cup {Now} ELSE CarriedOf(n, f)
  BY <1>2 DEF CarriedOf, Of
<1>6. NamesOf(n)' = IF n = k /\ m.type = "nodeinfo" THEN NamesOf(n) \cup {Now} ELSE NamesOf(n)
  BY <1>2 DEF NamesOf, Of
<1> QED BY <1>3, <1>4, <1>5, <1>6

\* The new message is the last of every set it belongs to.
LEMMA NowIsLast ==
  ASSUME RegistryTypes, NEW S, S \subseteq DOMAIN log
  PROVE  Max(S \cup {Now}) = Now /\ S \cup {Now} # {}
<1>1. S \cup {Now} \subseteq Int /\ \A i \in S \cup {Now} : Now >= i
  BY LogSoFar
<1> QED BY <1>1, MaxIs

-----------------------------------------------------------------------------
(* The steps. *)

\* An accepted message is counted, and what it carries is shown.
LEMMA AcceptStep ==
  ASSUME IInv, NEW m \in Messages, NEW k \in ToUint32(m.from) \ {0}, Accept(m, k)
  PROVE  IInv'
<1>1. RegistryTypes /\ CountersAddUp /\ ReadingsAreLatest /\ NamesAreAnnounced /\ LastExists
  BY DEF IInv
<1>2. k \in Node /\ CountedAs(m) \in Types /\ m.identity \in Identities
  BY Senders, MessageFacts
<1>3. /\ Now <= MaxAccepted /\ result' = "ok" /\ UNCHANGED <<counted, restarts>>
      /\ lastSeen' = [lastSeen EXCEPT ![k] = Now]
      /\ counter' = [counter EXCEPT ![k][CountedAs(m)] = @ + 1]
      /\ gauge' = [gauge EXCEPT ![k] =
           [f \in Telemetry |-> IF f \in Carried(m) THEN <<Now, Place(m, f)>> ELSE @[f]]]
      /\ info' = [info EXCEPT ![k] = Announced(@, m)]
      /\ log' = Append(log, [node |-> k, message |-> m])
  BY DEF Accept, Count, Now
<1>4. [node |-> k, message |-> m] \in Entry
  BY <1>2 DEF Entry
<1>5. /\ Now \in Nat /\ Now >= 1 /\ Now \notin DOMAIN log
      /\ log' \in Seq(Entry) /\ Len(log') = Now /\ Len(log) \in Nat /\ Len(log) <= Now
      /\ log'[Now].message = m /\ log'[Now].node = k
      /\ \A i \in DOMAIN log : log'[i] = log[i]
  BY <1>1, <1>3, <1>4, LogSoFar, LogGrows DEF Now
<1>6. /\ lastSeen \in [Node -> 0 .. MaxAccepted]
      /\ counter \in [Node -> [Types -> Nat]]
      /\ gauge \in [Node -> [Telemetry -> ((1 .. MaxAccepted) \X Places) \cup {NoValue}]]
      /\ info \in [Node -> SUBSET Identities]
      /\ counted \in 0 .. Len(log) /\ restarts \in 0 .. MaxRestarts
  BY <1>1 DEF RegistryTypes
<1>7. RegistryTypes'
  <2>1. lastSeen' \in [Node -> 0 .. MaxAccepted]
    <3>1. Now \in 0 .. MaxAccepted
      BY <1>3, <1>5, Bounds
    <3> QED BY <1>3, <1>6, <3>1
  <2>2. counter' \in [Node -> [Types -> Nat]]
    BY <1>2, <1>3, <1>6
  <2>3. gauge' \in [Node -> [Telemetry -> ((1 .. MaxAccepted) \X Places) \cup {NoValue}]]
    <3>1. \A f \in Telemetry : <<Now, Place(m, f)>> \in (1 .. MaxAccepted) \X Places
      BY <1>3, <1>5, Bounds DEF Place, Places
    <3>2. [f \in Telemetry |-> IF f \in Carried(m) THEN <<Now, Place(m, f)>> ELSE gauge[k][f]]
            \in [Telemetry -> ((1 .. MaxAccepted) \X Places) \cup {NoValue}]
      BY <1>2, <1>6, <3>1
    <3> QED BY <1>2, <1>3, <1>6, <3>2
  <2>4. info' \in [Node -> SUBSET Identities]
    BY <1>2, <1>3, <1>6 DEF Announced
  <2>5. counted' \in 0 .. Len(log')
    BY <1>3, <1>5, <1>6
  <2> QED BY <1>3, <1>5, <1>6, <2>1, <2>2, <2>3, <2>4, <2>5 DEF RegistryTypes
<1>8. CountersAddUp'
  <2> SUFFICES ASSUME NEW n \in Node, NEW t \in Types
               PROVE  counter'[n][t] = Cardinality(SinceStart(n, t)')
    BY DEF CountersAddUp, SinceStart
  <2>1. counter[n][t] = Cardinality(SinceStart(n, t)) /\ counter[n][t] \in Nat
    BY <1>1, <1>6 DEF CountersAddUp, SinceStart
  <2>2. IsFiniteSet(SinceStart(n, t)) /\ Now \notin SinceStart(n, t)
    <3>1. SinceStart(n, t) \subseteq DOMAIN log
      BY DEF SinceStart, CountedOf, Of
    <3> QED BY <1>1, <1>5, <3>1, LogSoFar, FS_Subset
  <2>3. Cardinality(SinceStart(n, t) \cup {Now}) = Cardinality(SinceStart(n, t)) + 1
    BY <2>2, FS_AddElement
  <2>4. SinceStart(n, t)' = IF n = k /\ CountedAs(m) = t
                            THEN SinceStart(n, t) \cup {Now} ELSE SinceStart(n, t)
    BY <1>1, <1>2, <1>3, SetsGrow
  <2>5. counter'[n][t] = IF n = k /\ CountedAs(m) = t THEN counter[n][t] + 1 ELSE counter[n][t]
    BY <1>2, <1>3, <1>6
  <2> QED BY <2>1, <2>3, <2>4, <2>5
<1>9. ASSUME NEW n \in Node, NEW f \in Telemetry
      PROVE  /\ CarriedOf(n, f)' = {} \/ Max(CarriedOf(n, f)') \in CarriedOf(n, f)'
             /\ gauge'[n][f] = IF CarriedOf(n, f)' = {} THEN NoValue ELSE LastReading(n, f)'
  <2>1. CarriedOf(n, f)' = IF n = k /\ m.type = "telemetry" /\ f \in m.payload \cup m.top
                         THEN CarriedOf(n, f) \cup {Now} ELSE CarriedOf(n, f)
    BY <1>1, <1>2, <1>3, SetsGrow
  <2>2. gauge'[n][f] = IF n = k /\ m.type = "telemetry" /\ f \in m.payload \cup m.top
                       THEN <<Now, Place(m, f)>> ELSE gauge[n][f]
    BY <1>2, <1>3, <1>6 DEF Carried
  <2>3. CASE n = k /\ m.type = "telemetry" /\ f \in m.payload \cup m.top
    <3>1. Max(CarriedOf(n, f) \cup {Now}) = Now
      <4>1. CarriedOf(n, f) \subseteq DOMAIN log
        BY DEF CarriedOf, Of
      <4> QED BY <1>1, <4>1, NowIsLast
    <3>2. CarriedOf(n, f)' = CarriedOf(n, f) \cup {Now}
      BY <2>1, <2>3
    <3>3. Max(CarriedOf(n, f)') = Now /\ Now \in CarriedOf(n, f)'
      BY <3>1, <3>2
    <3>4. LastReading(n, f)' = <<Now, Place(m, f)>>
      BY <1>5, <3>3 DEF LastReading, Place
    <3> QED BY <2>2, <2>3, <3>3, <3>4
  <2>4. CASE ~(n = k /\ m.type = "telemetry" /\ f \in m.payload \cup m.top)
    <3>1. /\ CarriedOf(n, f) = {} \/ Max(CarriedOf(n, f)) \in CarriedOf(n, f)
          /\ gauge[n][f] = IF CarriedOf(n, f) = {} THEN NoValue ELSE LastReading(n, f)
      BY <1>1 DEF ReadingsAreLatest, LastExists
    <3>2. CarriedOf(n, f)' = CarriedOf(n, f) /\ gauge'[n][f] = gauge[n][f]
      BY <2>1, <2>2, <2>4
    <3>3. ASSUME CarriedOf(n, f) # {} PROVE LastReading(n, f)' = LastReading(n, f)
      <4>1. log'[Max(CarriedOf(n, f))] = log[Max(CarriedOf(n, f))]
        BY <1>5, <3>1, <3>3 DEF CarriedOf, Of
      <4> QED BY <3>2, <4>1 DEF LastReading
    <3> QED BY <3>1, <3>2, <3>3
  <2> QED BY <2>3, <2>4
<1>10. ReadingsAreLatest'
  <2>1. ASSUME NEW n \in Node PROVE lastSeen'[n] = IF Of(n)' = {} THEN 0 ELSE Max(Of(n)')
    <3>1. Of(n)' = IF n = k THEN Of(n) \cup {Now} ELSE Of(n)
      BY <1>1, <1>2, <1>3, SetsGrow
    <3>2. Max(Of(n) \cup {Now}) = Now /\ Of(n) \cup {Now} # {}
      BY <1>1, NowIsLast DEF Of
    <3>3. lastSeen[n] = IF Of(n) = {} THEN 0 ELSE Max(Of(n))
      BY <1>1 DEF ReadingsAreLatest
    <3> QED BY <1>2, <1>3, <1>6, <3>1, <3>2, <3>3
  <2> QED BY <1>9, <2>1 DEF ReadingsAreLatest
<1>11. ASSUME NEW n \in Node
       PROVE  /\ info'[n] = {} \/ HasMax(info'[n])
              /\ info'[n] \subseteq {log'[i].message.identity : i \in NamesOf(n)'}
              /\ \A i \in NamesOf(n)' : i = Max(NamesOf(n)') /\ i > counted' =>
                                       log'[i].message.identity \in info'[n]
  <2>1. /\ info[n] = {} \/ HasMax(info[n])
        /\ info[n] \subseteq {log[i].message.identity : i \in NamesOf(n)}
        /\ \A i \in NamesOf(n) : i = Max(NamesOf(n)) /\ i > counted => log[i].message.identity \in info[n]
        /\ info[n] \subseteq Nat /\ m.identity \in Nat
    BY <1>1, <1>2, <1>6, Bounds DEF NamesAreAnnounced, LastExists
  <2>2. \A i \in NamesOf(n) : log'[i] = log[i]
    BY <1>5 DEF NamesOf, Of
  <2>3. NamesOf(n)' = IF n = k /\ m.type = "nodeinfo" THEN NamesOf(n) \cup {Now} ELSE NamesOf(n)
    BY <1>1, <1>2, <1>3, SetsGrow
  <2>4. info'[n] = IF n = k /\ m.type = "nodeinfo" THEN info[n] \cup {m.identity} ELSE info[n]
    BY <1>2, <1>3, <1>6 DEF Announced
  <2>5. CASE n = k /\ m.type = "nodeinfo"
    <3>1. HasMax(info[n] \cup {m.identity})
      BY <2>1 DEF HasMax
    <3>2. Max(NamesOf(n)') = Now
      <4>1. NamesOf(n) \subseteq DOMAIN log
        BY DEF NamesOf, Of
      <4> QED BY <1>1, <2>3, <2>5, <4>1, NowIsLast
    <3>3. info'[n] \subseteq {log'[i].message.identity : i \in NamesOf(n)'}
      BY <1>5, <2>1, <2>2, <2>3, <2>4, <2>5
    <3>4. HasMax(info'[n])
      BY <2>4, <2>5, <3>1
    <3>5. \A i \in NamesOf(n)' : i = Max(NamesOf(n)') => log'[i].message.identity \in info'[n]
      BY <1>5, <2>4, <2>5, <3>2
    <3> QED BY <3>3, <3>4, <3>5
  <2>6. CASE ~(n = k /\ m.type = "nodeinfo")
    <3>1. info'[n] = info[n] /\ NamesOf(n)' = NamesOf(n) /\ counted' = counted
      BY <1>3, <2>3, <2>4, <2>6
    <3>2. \A i \in NamesOf(n)' : log'[i].message.identity = log[i].message.identity
      BY <2>2, <3>1
    <3>3. info'[n] \subseteq {log'[i].message.identity : i \in NamesOf(n)'}
      BY <2>1, <3>1, <3>2
    <3>4. \A i \in NamesOf(n)' : i = Max(NamesOf(n)') /\ i > counted' => log'[i].message.identity \in info'[n]
      BY <2>1, <3>1, <3>2
    <3> QED BY <2>1, <3>1, <3>3, <3>4
  <2> QED BY <2>5, <2>6
<1>12. NamesAreAnnounced'
  BY <1>11 DEF NamesAreAnnounced
<1>13. LastExists'
  <2>1. ASSUME NEW n \in Node PROVE Of(n)' = {} \/ Max(Of(n)') \in Of(n)'
    <3>1. Of(n)' = IF n = k THEN Of(n) \cup {Now} ELSE Of(n)
      BY <1>1, <1>2, <1>3, SetsGrow
    <3>2. Max(Of(n) \cup {Now}) = Now
      BY <1>1, NowIsLast DEF Of
    <3> QED BY <1>1, <3>1, <3>2 DEF LastExists
  <2> QED BY <1>9, <1>11, <2>1 DEF LastExists, HasMax
<1> QED BY <1>7, <1>8, <1>10, <1>12, <1>13 DEF IInv

\* A restart forgets the counters, and of a node's names all but the last.
LEMMA RestartStep == IInv /\ Restart => IInv'
<1> SUFFICES ASSUME IInv, Restart PROVE IInv'
  OBVIOUS
<1>1. RegistryTypes /\ CountersAddUp /\ ReadingsAreLatest /\ NamesAreAnnounced /\ LastExists
  BY DEF IInv
<1>2. /\ restarts < MaxRestarts /\ restarts' = restarts + 1
      /\ counter' = [n \in Node |-> [t \in Types |-> 0]]
      /\ info' = [n \in Node |-> Remembered(info[n])]
      /\ result' = "none" /\ counted' = Len(log) /\ UNCHANGED <<lastSeen, gauge, log>>
  BY DEF Restart
<1>3. ASSUME NEW n \in Node
      PROVE  /\ Remembered(info[n]) \subseteq info[n]
             /\ Remembered(info[n]) = {} \/ HasMax(Remembered(info[n]))
  <2>1. info[n] \subseteq Nat /\ (info[n] = {} \/ HasMax(info[n]))
    BY <1>1, Bounds DEF RegistryTypes, LastExists
  <2>2. CASE info[n] = {}
    BY <2>2 DEF Remembered
  <2>3. CASE info[n] # {}
    <3>1. PICK x \in info[n] : \A y \in info[n] : x >= y
      BY <2>1, <2>3 DEF HasMax
    <3>2. Remembered(info[n]) = {x}
      BY <2>1, <2>3, <3>1, MaxIs DEF Remembered
    <3> QED BY <2>1, <3>1, <3>2 DEF HasMax
  <2> QED BY <2>2, <2>3
<1>4. RegistryTypes'
  <2>1. info' \in [Node -> SUBSET Identities]
    BY <1>1, <1>2, <1>3 DEF RegistryTypes
  <2>2. restarts' \in 0 .. MaxRestarts /\ counted' \in 0 .. Len(log')
    BY <1>1, <1>2, Bounds, LogSoFar DEF RegistryTypes
  <2>3. counter' \in [Node -> [Types -> Nat]]
    BY <1>2
  <2> QED BY <1>1, <1>2, <2>1, <2>2, <2>3 DEF RegistryTypes
<1>5. ASSUME NEW n
      PROVE  /\ Of(n)' = Of(n) /\ NamesOf(n)' = NamesOf(n)
             /\ \A f : CarriedOf(n, f)' = CarriedOf(n, f) /\ LastReading(n, f)' = LastReading(n, f)
  <2>1. Of(n)' = Of(n)
    BY <1>2 DEF Of
  <2>2. NamesOf(n)' = NamesOf(n)
    BY <1>2, <2>1 DEF NamesOf
  <2>3. ASSUME NEW f PROVE CarriedOf(n, f)' = CarriedOf(n, f)
    BY <1>2, <2>1 DEF CarriedOf
  <2>4. ASSUME NEW f PROVE LastReading(n, f)' = LastReading(n, f)
    BY <1>2, <2>3 DEF LastReading
  <2> QED BY <2>1, <2>2, <2>3, <2>4
<1>6. CountersAddUp'
  <2> SUFFICES ASSUME NEW n \in Node, NEW t \in Types
               PROVE  counter'[n][t] = Cardinality({i \in CountedOf(n, t)' : i > counted'})
    BY DEF CountersAddUp
  <2>1. {i \in CountedOf(n, t)' : i > counted'} = {}
    <3>1. \A i \in CountedOf(n, t)' : i \in DOMAIN log
      BY <1>2 DEF CountedOf, Of
    <3>2. \A i \in DOMAIN log : i \in Nat /\ Len(log) \in Nat /\ i <= Len(log)
      BY <1>1, LogSoFar
    <3> QED BY <1>2, <3>1, <3>2
  <2> QED BY <1>2, <2>1, FS_EmptySet
<1>7. ReadingsAreLatest'
  <2>1. ASSUME NEW n \in Node PROVE lastSeen'[n] = IF Of(n)' = {} THEN 0 ELSE Max(Of(n)')
    BY <1>1, <1>2, <1>5 DEF ReadingsAreLatest
  <2>2. ASSUME NEW n \in Node, NEW f \in Telemetry
        PROVE  gauge'[n][f] = IF CarriedOf(n, f)' = {} THEN NoValue ELSE LastReading(n, f)'
    BY <1>1, <1>2, <1>5 DEF ReadingsAreLatest
  <2> QED BY <2>1, <2>2 DEF ReadingsAreLatest
<1>8. NamesAreAnnounced'
  <2> SUFFICES ASSUME NEW n \in Node
               PROVE  /\ info'[n] \subseteq {log'[i].message.identity : i \in NamesOf(n)'}
                      /\ \A i \in NamesOf(n)' : ~(i > counted')
    BY DEF NamesAreAnnounced
  <2>1. info'[n] \subseteq info[n]
    BY <1>2, <1>3
  <2>2. info[n] \subseteq {log[i].message.identity : i \in NamesOf(n)}
    BY <1>1 DEF NamesAreAnnounced
  <2>3. \A i \in NamesOf(n) : i \in Nat /\ Len(log) \in Nat /\ i <= Len(log)
    BY <1>1, LogSoFar DEF NamesOf, Of
  <2> QED BY <1>2, <1>5, <2>1, <2>2, <2>3
<1>9. LastExists'
  <2>1. ASSUME NEW n \in Node PROVE info'[n] = {} \/ HasMax(info'[n])
    BY <1>2, <1>3
  <2>2. ASSUME NEW n \in Node, NEW f \in Telemetry
        PROVE  CarriedOf(n, f)' = {} \/ Max(CarriedOf(n, f)') \in CarriedOf(n, f)'
    BY <1>1, <1>5 DEF LastExists
  <2>3. ASSUME NEW n \in Node PROVE Of(n)' = {} \/ Max(Of(n)') \in Of(n)'
    BY <1>1, <1>5 DEF LastExists
  <2> QED BY <2>1, <2>2, <2>3 DEF LastExists, HasMax
<1> QED BY <1>4, <1>6, <1>7, <1>8, <1>9 DEF IInv

\* Everything else leaves the registry and the log alone.
LEMMA QuietStep ==
  ASSUME IInv, UNCHANGED <<registry, log, counted, restarts>>, result' \in {"none", "ok", "error"}
  PROVE  IInv'
<1>1. RegistryTypes /\ CountersAddUp /\ ReadingsAreLatest /\ NamesAreAnnounced /\ LastExists
  BY DEF IInv
<1>2. UNCHANGED <<lastSeen, counter, gauge, info, log, counted, restarts>>
  BY DEF registry
<1>3. ASSUME NEW n
      PROVE  /\ Of(n)' = Of(n) /\ NamesOf(n)' = NamesOf(n)
             /\ \A f : CarriedOf(n, f)' = CarriedOf(n, f) /\ LastReading(n, f)' = LastReading(n, f)
             /\ \A t : CountedOf(n, t)' = CountedOf(n, t)
  <2>1. Of(n)' = Of(n)
    BY <1>2 DEF Of
  <2>2. NamesOf(n)' = NamesOf(n)
    BY <1>2, <2>1 DEF NamesOf
  <2>3. ASSUME NEW f PROVE CarriedOf(n, f)' = CarriedOf(n, f)
    BY <1>2, <2>1 DEF CarriedOf
  <2>4. ASSUME NEW f PROVE LastReading(n, f)' = LastReading(n, f)
    BY <1>2, <2>3 DEF LastReading
  <2>5. ASSUME NEW t PROVE CountedOf(n, t)' = CountedOf(n, t)
    BY <1>2, <2>1 DEF CountedOf
  <2> QED BY <2>1, <2>2, <2>3, <2>4, <2>5
<1>4. RegistryTypes'
  BY <1>1, <1>2 DEF RegistryTypes
<1>5. CountersAddUp'
  BY <1>1, <1>2, <1>3 DEF CountersAddUp
<1>6. ReadingsAreLatest'
  <2>1. ASSUME NEW n \in Node PROVE lastSeen'[n] = IF Of(n)' = {} THEN 0 ELSE Max(Of(n)')
    BY <1>1, <1>2, <1>3 DEF ReadingsAreLatest
  <2>2. ASSUME NEW n \in Node, NEW f \in Telemetry
        PROVE  gauge'[n][f] = IF CarriedOf(n, f)' = {} THEN NoValue ELSE LastReading(n, f)'
    BY <1>1, <1>2, <1>3 DEF ReadingsAreLatest
  <2> QED BY <2>1, <2>2 DEF ReadingsAreLatest
<1>7. NamesAreAnnounced'
  BY <1>1, <1>2, <1>3 DEF NamesAreAnnounced
<1>8. LastExists'
  BY <1>1, <1>2, <1>3 DEF LastExists, HasMax
<1> QED BY <1>4, <1>5, <1>6, <1>7, <1>8 DEF IInv

-----------------------------------------------------------------------------
(* The theorems. *)

\* Without messages there are no series.
LEMMA InitInvariant == Init => IInv
<1> SUFFICES ASSUME Init PROVE IInv
  OBVIOUS
<1>1. log = <<>> /\ DOMAIN log = {} /\ Len(log) = 0 /\ log \in Seq(Entry)
  BY DEF Init
<1>2. RegistryTypes
  <2>1. /\ lastSeen \in [Node -> 0 .. MaxAccepted]
        /\ counter \in [Node -> [Types -> Nat]]
        /\ gauge \in [Node -> [Telemetry -> ((1 .. MaxAccepted) \X Places) \cup {NoValue}]]
        /\ info \in [Node -> SUBSET Identities]
    BY Bounds DEF Init
  <2> QED BY <1>1, <2>1, Bounds DEF Init, RegistryTypes
<1>3. ASSUME NEW n \in Node
      PROVE  Of(n) = {} /\ NamesOf(n) = {} /\ (\A f : CarriedOf(n, f) = {})
             /\ \A t : {i \in CountedOf(n, t) : i > counted} = {}
  BY <1>1 DEF Of, NamesOf, CarriedOf, CountedOf
<1>4. CountersAddUp
  BY <1>3, FS_EmptySet DEF Init, CountersAddUp
<1>5. ReadingsAreLatest
  BY <1>3 DEF Init, ReadingsAreLatest
<1>6. NamesAreAnnounced
  BY <1>3 DEF Init, NamesAreAnnounced
<1>7. LastExists
  BY <1>3 DEF Init, LastExists
<1> QED BY <1>2, <1>4, <1>5, <1>6, <1>7 DEF IInv

\* The invariant holds in every reachable state.
THEOREM Invariance == Spec => []IInv
<1>1. Init => IInv
  BY InitInvariant
<1>2. IInv /\ [Next]_vars => IInv'
  <2> SUFFICES ASSUME IInv, [Next]_vars PROVE IInv'
    OBVIOUS
  <2>1. CASE \E m \in Messages : Ignore(m) \/ Reject(m) \/ RejectSender(m)
    BY <2>1, QuietStep DEF Ignore, Reject, RejectSender
  <2>2. CASE \E m \in Messages : \E n \in ToUint32(m.from) \ {0} : Accept(m, n)
    BY <2>2, AcceptStep
  <2>3. CASE Restart
    BY <2>3, RestartStep
  <2>4. CASE UNCHANGED vars
    <3>1. result' \in {"none", "ok", "error"}
      BY <2>4 DEF vars, IInv, RegistryTypes
    <3> QED BY <2>4, <3>1, QuietStep DEF vars
  <2> QED BY <2>1, <2>2, <2>3, <2>4 DEF Next
<1> QED BY <1>1, <1>2, PTL DEF Spec

\* No more messages are counted than were accepted.
LEMMA CountersBounded == IInv => counter \in [Node -> [Types -> 0 .. MaxAccepted]]
<1> SUFFICES ASSUME IInv, NEW n \in Node, NEW t \in Types PROVE counter[n][t] \in 0 .. MaxAccepted
  BY DEF IInv, RegistryTypes
<1>1. RegistryTypes /\ counter[n][t] = Cardinality(SinceStart(n, t)) /\ counter[n][t] \in Nat
  BY DEF IInv, CountersAddUp, SinceStart, RegistryTypes
<1>2. SinceStart(n, t) \subseteq 1 .. Len(log) /\ Len(log) \in Nat /\ Len(log) <= MaxAccepted
  BY <1>1, LogSoFar DEF SinceStart, CountedOf, Of, RegistryTypes
<1>3. Cardinality(SinceStart(n, t)) <= Cardinality(1 .. Len(log)) /\ Cardinality(1 .. Len(log)) = Len(log)
  <2>1. /\ IsFiniteSet(1 .. Len(log))
        /\ Cardinality(1 .. Len(log)) = IF 1 > Len(log) THEN 0 ELSE Len(log) - 1 + 1
    BY <1>2, FS_Interval
  <2>2. Cardinality(1 .. Len(log)) = Len(log)
    BY <1>2, <2>1
  <2>3. Cardinality(SinceStart(n, t)) <= Cardinality(1 .. Len(log))
    BY <1>2, <2>1, FS_Subset
  <2> QED BY <2>2, <2>3
<1> QED BY <1>1, <1>2, <1>3, Bounds

\* Every variable has its type: node ids fit the width, however wide the number
\* in the message.
THEOREM TypeCorrect == Spec => []TypeOK
<1>1. IInv => TypeOK
  <2> SUFFICES ASSUME IInv PROVE TypeOK
    OBVIOUS
  <2>1. RegistryTypes /\ counter \in [Node -> [Types -> 0 .. MaxAccepted]]
    BY CountersBounded DEF IInv
  <2>2. \A i \in DOMAIN log : log[i].node \in Node /\ log[i].message \in Messages
    BY <2>1, LogSoFar DEF Entry
  <2> QED BY <2>1, <2>2 DEF RegistryTypes, TypeOK
<1> QED BY <1>1, Invariance, PTL

\* messages_total counts every accepted message once, under its sender and type.
THEOREM CountersExact == Spec => []CountersAddUp
<1>1. IInv => CountersAddUp
  BY DEF IInv
<1> QED BY <1>1, Invariance, PTL

\* Gauges and last seen come from the last message that carried them.
THEOREM LatestReadings == Spec => []ReadingsAreLatest
<1>1. IInv => ReadingsAreLatest
  BY DEF IInv
<1> QED BY <1>1, Invariance, PTL

\* node_info shows announced names only, and the last one announced since the start.
THEOREM AnnouncedNames == Spec => []NamesAreAnnounced
<1>1. IInv => NamesAreAnnounced
  BY DEF IInv
<1> QED BY <1>1, Invariance, PTL

\* A refused message leaves the registry as it is.
THEOREM NoTrace == Spec => RefusedLeaveNoTrace
<1>1. IInv /\ [Next]_vars => [log' = log /\ restarts' = restarts => UNCHANGED registry]_vars
  <2> SUFFICES ASSUME IInv, Next, log' = log, restarts' = restarts PROVE UNCHANGED registry
    OBVIOUS
  <2>1. CASE \E m \in Messages : Ignore(m) \/ Reject(m) \/ RejectSender(m)
    BY <2>1 DEF Ignore, Reject, RejectSender
  <2>2. ASSUME NEW m \in Messages, NEW n \in ToUint32(m.from) \ {0}, Accept(m, n) PROVE FALSE
    <3>1. RegistryTypes /\ [node |-> n, message |-> m] \in Entry
      BY Senders DEF IInv, Entry
    <3>2. log' = Append(log, [node |-> n, message |-> m])
      BY <2>2 DEF Accept
    <3>3. Len(log') = Now
      BY <3>1, <3>2, LogGrows
    <3> QED BY <3>1, <3>3, LogSoFar DEF Now
  <2>3. CASE Restart
    BY <2>3 DEF Restart, IInv, RegistryTypes
  <2> QED BY <2>1, <2>2, <2>3 DEF Next
<1> QED BY <1>1, Invariance, PTL DEF Spec, RefusedLeaveNoTrace

\* The families that a message changes: the last reading was another one.
LEMMA ChangedFamilies ==
  ASSUME IInv, NEW m \in Messages, NEW k \in ToUint32(m.from) \ {0}, Accept(m, k), NEW n \in Node
  PROVE  /\ n # k => Changed(n) = {}
         /\ {LastSeen, MessageCounter} \cup Carried(m) \subseteq Changed(k)
         /\ Changed(k) \subseteq {LastSeen, MessageCounter, NodeHardware} \cup Carried(m)
         /\ m.type # "nodeinfo" => NodeHardware \notin Changed(k)
<1>1. RegistryTypes /\ CountersAddUp /\ ReadingsAreLatest /\ NamesAreAnnounced /\ LastExists
  BY DEF IInv
<1>2. k \in Node /\ CountedAs(m) \in Types
  BY Senders, MessageFacts
<1>3. /\ lastSeen' = [lastSeen EXCEPT ![k] = Now]
      /\ counter' = [counter EXCEPT ![k][CountedAs(m)] = @ + 1]
      /\ gauge' = [gauge EXCEPT ![k] =
           [f \in Telemetry |-> IF f \in Carried(m) THEN <<Now, Place(m, f)>> ELSE @[f]]]
      /\ info' = [info EXCEPT ![k] = Announced(@, m)]
  BY DEF Accept, Count, Now
<1>4. /\ lastSeen \in [Node -> 0 .. MaxAccepted]
      /\ counter \in [Node -> [Types -> Nat]]
      /\ gauge \in [Node -> [Telemetry -> ((1 .. MaxAccepted) \X Places) \cup {NoValue}]]
      /\ info \in [Node -> SUBSET Identities]
  BY <1>1 DEF RegistryTypes
<1>5. n # k => Changed(n) = {}
  <2>1. n # k => /\ lastSeen'[n] = lastSeen[n] /\ counter'[n] = counter[n]
                 /\ gauge'[n] = gauge[n] /\ info'[n] = info[n]
    BY <1>2, <1>3, <1>4
  <2> QED BY <2>1 DEF Changed
<1>6. lastSeen'[k] # lastSeen[k]
  <2>1. lastSeen'[k] = Now /\ Now \notin DOMAIN log /\ Now >= 1 /\ Now \in Nat
    BY <1>1, <1>2, <1>3, <1>4, LogSoFar
  <2>2. lastSeen[k] = 0 \/ lastSeen[k] \in DOMAIN log
    BY <1>1, <1>2 DEF ReadingsAreLatest, LastExists, Of
  <2> QED BY <2>1, <2>2
<1>7. counter'[k] # counter[k]
  <2>1. counter'[k][CountedAs(m)] = counter[k][CountedAs(m)] + 1 /\ counter[k][CountedAs(m)] \in Nat
    BY <1>2, <1>3, <1>4
  <2> QED BY <2>1
<1>8. ASSUME NEW f \in Telemetry PROVE gauge'[k][f] # gauge[k][f] <=> f \in Carried(m)
  <2>1. gauge'[k][f] = IF f \in Carried(m) THEN <<Now, Place(m, f)>> ELSE gauge[k][f]
    BY <1>2, <1>3, <1>4
  <2>2. gauge[k][f] # <<Now, Place(m, f)>>
    <3>1. CASE CarriedOf(k, f) = {}
      <4>1. gauge[k][f] = <<0, "none">>
        BY <1>1, <1>2, <3>1 DEF ReadingsAreLatest, NoValue
      <4>2. Now # 0
        BY <1>1, LogSoFar
      <4> QED BY <4>1, <4>2
    <3>2. CASE CarriedOf(k, f) # {}
      <4>1. Max(CarriedOf(k, f)) \in DOMAIN log /\ gauge[k][f] = LastReading(k, f)
        BY <1>1, <1>2, <3>2 DEF ReadingsAreLatest, LastExists, CarriedOf, Of
      <4>2. Max(CarriedOf(k, f)) # Now
        BY <1>1, <4>1, LogSoFar
      <4> QED BY <4>1, <4>2 DEF LastReading
    <3> QED BY <3>1, <3>2
  <2> QED BY <2>1, <2>2
<1>9. m.type # "nodeinfo" => info'[k] = info[k]
  BY <1>2, <1>3, <1>4 DEF Announced
<1>10. Carried(m) \subseteq Telemetry
  <2>1. m.payload \subseteq Telemetry /\ m.top \subseteq {RSSI, SNR} \cap Families
    BY Bounds DEF Message
  <2> QED BY <2>1 DEF Carried, Telemetry, RSSI, SNR, BatteryLevel
<1>11. \A f \in Telemetry : f # NodeHardware /\ f # LastSeen /\ f # MessageCounter
  BY DEF Telemetry, NodeHardware, LastSeen, MessageCounter, BatteryLevel, SNR
<1>12. LastSeen # NodeHardware /\ MessageCounter # NodeHardware
  BY DEF NodeHardware, LastSeen, MessageCounter
<1> QED BY <1>5, <1>6, <1>7, <1>8, <1>9, <1>10, <1>11, <1>12 DEF Changed

\* A message changes series of one node, in families that Collector interleaves
\* as one message's.
THEOREM KnownEffects == Spec => EffectsAreKnown
<1>1. IInv /\ [Next]_vars =>
        [log' # log =>
           \A n \in Node :
             IF n = log'[Len(log')].node
             THEN \E effects \in MessageEffects :
                    Changed(n) \subseteq effects /\ effects \ Changed(n) \subseteq {NodeHardware}
             ELSE Changed(n) = {}]_vars
  <2> SUFFICES ASSUME IInv, Next, log' # log, NEW n \in Node
               PROVE  IF n = log'[Len(log')].node
                      THEN \E effects \in MessageEffects :
                             Changed(n) \subseteq effects /\ effects \ Changed(n) \subseteq {NodeHardware}
                      ELSE Changed(n) = {}
    OBVIOUS
  <2>1. PICK m \in Messages : \E k \in ToUint32(m.from) \ {0} : Accept(m, k)
    BY DEF Next, Ignore, Reject, RejectSender, Restart
  <2>2. PICK k \in ToUint32(m.from) \ {0} : Accept(m, k)
    BY <2>1
  <2>3. k \in Node /\ log'[Len(log')].node = k
    <3>1. RegistryTypes /\ k \in Node /\ [node |-> k, message |-> m] \in Entry
      BY Senders DEF IInv, Entry
    <3>2. log' = Append(log, [node |-> k, message |-> m])
      BY <2>2 DEF Accept
    <3> QED BY <3>1, <3>2, LogGrows
  <2>4. /\ n # k => Changed(n) = {}
        /\ {LastSeen, MessageCounter} \cup Carried(m) \subseteq Changed(k)
        /\ Changed(k) \subseteq {LastSeen, MessageCounter, NodeHardware} \cup Carried(m)
        /\ m.type # "nodeinfo" => NodeHardware \notin Changed(k)
    BY <2>2, ChangedFamilies
  <2>5. CASE m.type = "nodeinfo"
    <3>1. Carried(m) = {}
      BY <2>5 DEF Carried
    <3>2. {LastSeen, MessageCounter} \cup (Families \cap {NodeHardware}) \in MessageEffects
      BY DEF MessageEffects
    <3>3. Changed(k) \subseteq Families
      BY FamiliesAssumption DEF Changed, Telemetry
    <3> QED BY <2>3, <2>4, <3>1, <3>2, <3>3
  <2>6. CASE m.type # "nodeinfo"
    <3>1. Carried(m) \subseteq Telemetry
      <4>1. m.payload \subseteq Telemetry /\ m.top \subseteq {RSSI, SNR} \cap Families
        BY Bounds DEF Message
      <4> QED BY <4>1 DEF Carried, Telemetry, RSSI, SNR, BatteryLevel
    <3>2. {LastSeen, MessageCounter} \cup Carried(m) \in MessageEffects
      BY <3>1 DEF MessageEffects
    <3> QED BY <2>3, <2>4, <2>6, <3>2
  <2> QED BY <2>5, <2>6
<1> QED BY <1>1, Invariance, PTL DEF Spec, EffectsAreKnown
-----------------------------------------------------------------------------
(* Names across restarts. *)

\* The nodes that announced a name are those that are shown with one.
NamedAreShown == \A n \in Node : NamesOf(n) # {} => info[n] # {}

\* Neither a later name nor a restart takes the last one away.
LEMMA NamedStayShown == IInv /\ NamedAreShown /\ [Next]_vars => NamedAreShown'
<1> SUFFICES ASSUME IInv, NamedAreShown, [Next]_vars, NEW n \in Node, NamesOf(n)' # {}
             PROVE  info'[n] # {}
  BY DEF NamedAreShown
<1>1. RegistryTypes
  BY DEF IInv
<1>2. CASE \E m \in Messages : \E k \in ToUint32(m.from) \ {0} : Accept(m, k)
  <2>1. PICK m \in Messages : \E k \in ToUint32(m.from) \ {0} : Accept(m, k)
    BY <1>2
  <2>2. PICK k \in ToUint32(m.from) \ {0} : Accept(m, k)
    BY <2>1
  <2>3. /\ info' = [info EXCEPT ![k] = Announced(info[k], m)]
        /\ log' = Append(log, [node |-> k, message |-> m]) /\ UNCHANGED counted
    BY <2>2 DEF Accept
  <2>4. info'[n] = IF n = k THEN Announced(info[n], m) ELSE info[n]
    BY <1>1, <2>3 DEF RegistryTypes
  <2>5. NamesOf(n)' = IF n = k /\ m.type = "nodeinfo" THEN NamesOf(n) \cup {Now} ELSE NamesOf(n)
    BY <1>1, <2>3, SetsGrow, Senders
  <2>6. NamesOf(n) # {} => info[n] # {}
    BY DEF NamedAreShown
  <2> QED BY <2>4, <2>5, <2>6 DEF Announced
<1>3. CASE Restart
  <2>1. info'[n] = Remembered(info[n]) /\ NamesOf(n)' = NamesOf(n)
    BY <1>3 DEF Restart, NamesOf, Of
  <2> QED BY <2>1 DEF NamedAreShown, Remembered
<1>4. CASE UNCHANGED <<info, log>>
  BY <1>4 DEF NamedAreShown, NamesOf, Of
<1> QED BY <1>2, <1>3, <1>4 DEF Next, Ignore, Reject, RejectSender, vars, registry

\* A node that has announced a name is never shown without one again, and one
\* that has always announced the same name is shown with it alone, however often
\* the exporter restarts: only a renamed node can get a former name back.
THEOREM UnrenamedKeepTheirName ==
  Spec => [](\A n \in Node : NamesOf(n) # {} =>
               /\ info[n] # {}
               /\ \A x \in Identities :
                    (\A i \in NamesOf(n) : log[i].message.identity = x) => info[n] = {x})
<1>1. Init => NamedAreShown
  BY DEF Init, NamedAreShown, NamesOf, Of
<1>2. IInv /\ NamedAreShown =>
        \A n \in Node : NamesOf(n) # {} =>
          /\ info[n] # {}
          /\ \A x \in Identities :
               (\A i \in NamesOf(n) : log[i].message.identity = x) => info[n] = {x}
  BY DEF IInv, NamedAreShown, NamesAreAnnounced
<1> QED BY <1>1, <1>2, NamedStayShown, Invariance, PTL DEF Spec

-----------------------------------------------------------------------------
(* Nothing goes back. *)

\* The message that last set a series is never an earlier one than before.
NeverBack ==
  [][\A n \in Node :
       /\ lastSeen'[n] >= lastSeen[n]
       /\ \A f \in Telemetry : gauge'[n][f][1] >= gauge[n][f][1]]_vars

\* Neither a message nor a restart puts an older reading back.
THEOREM ReadingsOnlyGetNewer == Spec => NeverBack
<1>1. IInv /\ [Next]_vars =>
        [\A n \in Node :
           /\ lastSeen'[n] >= lastSeen[n]
           /\ \A f \in Telemetry : gauge'[n][f][1] >= gauge[n][f][1]]_vars
  <2> SUFFICES ASSUME IInv, Next, NEW n \in Node
               PROVE  /\ lastSeen'[n] >= lastSeen[n]
                      /\ \A f \in Telemetry : gauge'[n][f][1] >= gauge[n][f][1]
    BY DEF vars
  <2>1. RegistryTypes
    BY DEF IInv
  <2>2. lastSeen[n] \in Nat /\ lastSeen[n] < Now
    <3>1. Of(n) = {} \/ lastSeen[n] \in Of(n)
      BY DEF IInv, ReadingsAreLatest, LastExists
    <3>2. CASE Of(n) = {}
      BY <2>1, <3>2, LogSoFar DEF IInv, ReadingsAreLatest
    <3>3. CASE lastSeen[n] \in Of(n)
      BY <2>1, <3>3, LogSoFar DEF Of
    <3> QED BY <3>1, <3>2, <3>3
  <2>3. ASSUME NEW f \in Telemetry
        PROVE  gauge[n][f][1] \in Nat /\ gauge[n][f][1] < Now
    <3>1. CASE CarriedOf(n, f) = {}
      BY <2>1, <3>1, LogSoFar DEF IInv, ReadingsAreLatest, NoValue
    <3>2. CASE CarriedOf(n, f) # {}
      <4>1. Max(CarriedOf(n, f)) \in DOMAIN log
        BY <3>2 DEF IInv, LastExists, CarriedOf, Of
      <4>2. gauge[n][f] = LastReading(n, f)
        BY <3>2 DEF IInv, ReadingsAreLatest
      <4>3. LastReading(n, f)[1] = Max(CarriedOf(n, f))
        BY DEF LastReading
      <4> QED BY <2>1, <4>1, <4>2, <4>3, LogSoFar
    <3> QED BY <3>1, <3>2
  <2>4. CASE \E m \in Messages : \E k \in ToUint32(m.from) \ {0} : Accept(m, k)
    <3>1. PICK m \in Messages : \E k \in ToUint32(m.from) \ {0} : Accept(m, k)
      BY <2>4
    <3>2. PICK k \in ToUint32(m.from) \ {0} : Accept(m, k)
      BY <3>1
    <3>3. /\ lastSeen' = [lastSeen EXCEPT ![k] = Now]
          /\ gauge' = [gauge EXCEPT ![k] =
               [f \in Telemetry |-> IF f \in Carried(m) THEN <<Now, Place(m, f)>> ELSE gauge[k][f]]]
      BY <3>2 DEF Accept, Now
    <3>4. /\ lastSeen'[n] \in {Now, lastSeen[n]}
          /\ \A f \in Telemetry : gauge'[n][f] = gauge[n][f] \/ gauge'[n][f][1] = Now
      BY <2>1, <3>3 DEF RegistryTypes
    <3>5. Now \in Nat
      BY <2>1, LogSoFar
    <3>6. lastSeen'[n] >= lastSeen[n]
      BY <2>2, <3>4, <3>5
    <3>7. \A f \in Telemetry : gauge'[n][f][1] >= gauge[n][f][1]
      BY <2>3, <3>4, <3>5
    <3> QED BY <3>6, <3>7
  <2>5. CASE UNCHANGED <<lastSeen, gauge>>
    BY <2>2, <2>3, <2>5
  <2> QED BY <2>4, <2>5 DEF Next, Ignore, Reject, RejectSender, Restart, registry
<1> QED BY <1>1, Invariance, PTL DEF Spec, NeverBack
=============================================================================
