-------------------------- MODULE TopicFilterProofs --------------------------
(***************************************************************************)
(* The two matchers, for all topics and patterns of any length.  The       *)
(* hook's is not recursive.  The validator's is, and what it computes is   *)
(* shown by looking at the least number of levels for which it would be    *)
(* wrong (LeastNumber stands for the induction).  Together they say which  *)
(* of the messages that MQTT selects are not logged.                       *)
(***************************************************************************)
EXTENDS TopicFilter, SequenceTheorems, WellFoundedInduction, TLAPS

\* A set of numbers has a least one.
LEMMA LeastNumber ==
  ASSUME NEW T, T \subseteq Nat, T # {}
  PROVE  \E m \in T : \A k \in T : m <= k
<1>1. PICK m \in T : \A k \in T : <<k, m>> \notin OpToRel(<, Nat)
  BY NatLessThanWellFounded, WFMin
<1>2. \A k \in T : ~(k < m)
  BY <1>1 DEF OpToRel
<1> QED BY <1>2

\* Induction from n down to 1, over a set instead of a predicate.
LEMMA Downwards ==
  ASSUME NEW n \in Nat, n >= 1, NEW S, n \in S,
         \A i \in 1 .. n - 1 : i + 1 \in S => i \in S
  PROVE  \A i \in 1 .. n : i \in S
<1> DEFINE T == {k \in Nat : k < n /\ n - k \notin S}
<1>1. T = {}
  <2> SUFFICES ASSUME T # {} PROVE FALSE
    OBVIOUS
  <2>1. PICK m \in T : \A k \in T : m <= k
    BY LeastNumber
  <2>2. m \in Nat /\ m < n /\ n - m \notin S
    OBVIOUS
  <2>3. m >= 1
    BY <2>2
  <2>4. m - 1 \in Nat /\ m - 1 < n /\ ~(m <= m - 1)
    BY <2>2, <2>3
  <2>5. n - (m - 1) \in S
    BY <2>1, <2>4
  <2>6. n - m \in 1 .. n - 1 /\ (n - m) + 1 = n - (m - 1)
    BY <2>2, <2>3
  <2> QED BY <2>2, <2>5, <2>6
<1>2. ASSUME NEW i \in 1 .. n PROVE i \in S
  <2>1. n - i \in Nat /\ n - i < n /\ n - (n - i) = i
    OBVIOUS
  <2>2. n - i \notin T
    BY <1>1
  <2> HIDE DEF T
  <2> QED BY <2>1, <2>2 DEF T
<1> QED BY <1>2

\* A topic or a pattern, by its levels.
IsLevels(s) == s \in Seq(Level) /\ Len(s) \in Nat /\ Len(s) >= 1 /\ DOMAIN s = 1 .. Len(s)

\* Topics and patterns are such, and topics have no wildcards.
LEMMA Levels ==
  /\ \A s \in Topics \cup Patterns \cup {Default} : IsLevels(s)
  /\ \A s \in Topics : s # Empty /\ \A i \in 1 .. Len(s) : s[i] # "+" /\ s[i] # "#"
  /\ \A i \in 1 .. Len(Default) : Default[i] # "#"
<1>1. ASSUME NEW s \in Topics \cup Patterns \cup {Default} PROVE IsLevels(s)
  <2>1. s \in Seq(Level) /\ s # <<>>
    BY <1>1, TopicAssumption
  <2> QED BY <2>1, EmptySeq, LenProperties DEF IsLevels
<1> QED BY <1>1, TopicAssumption DEF IsLevels

\* The pattern of one level, which is empty.
LEMMA EmptyPattern == IsLevels(Empty) /\ Len(Empty) = 1 /\ Empty[1] = Blank /\ Blank # "#"
<1>1. Blank \in Level /\ Blank # "#"
  BY TopicAssumption
<1>2. Empty \in Seq(Level)
  BY <1>1 DEF Empty
<1>3. Len(Empty) = 1
  BY DEF Empty
<1>4. Empty[1] = Blank
  BY DEF Empty
<1>5. DOMAIN Empty = 1 .. 1
  BY <1>2, <1>3, LenProperties
<1> QED BY <1>1, <1>2, <1>3, <1>4, <1>5 DEF IsLevels

-----------------------------------------------------------------------------
(* The hook. *)

\* q is a beginning of p.
IsCut(q, p) ==
  /\ Len(q) <= Len(p)
  /\ \A i \in 1 .. Len(q) : q[i] = p[i]

\* The constructors and matchesTopicPattern together cut at most one level.
LEMMA CutOnce ==
  ASSUME NEW d, IsLevels(d)
  PROVE  LET q == IF Len(d) > 1 /\ d[Len(d)] = Blank THEN SubSeq(d, 1, Len(d) - 1) ELSE d
         IN  IsLevels(q) /\ IsCut(q, d)
<1>1. CASE Len(d) > 1 /\ d[Len(d)] = Blank
  <2> DEFINE q == SubSeq(d, 1, Len(d) - 1)
  <2>1. \A i \in 1 .. Len(d) - 1 : d[i] \in Level
    BY ElementOfSeq DEF IsLevels
  <2>2. Len(d) - 1 \in Nat /\ Len(d) - 1 >= 1
    BY <1>1 DEF IsLevels
  <2>3. q \in Seq(Level) /\ Len(q) = Len(d) - 1 /\ \A i \in 1 .. Len(d) - 1 : q[i] = d[i]
    BY <2>1, <2>2, SubSeqProperties
  <2>4. DOMAIN q = 1 .. Len(q)
    BY <2>3, LenProperties
  <2> QED BY <1>1, <2>2, <2>3, <2>4 DEF IsLevels, IsCut
<1>2. CASE ~(Len(d) > 1 /\ d[Len(d)] = Blank)
  BY <1>2 DEF IsCut
<1> QED BY <1>1, <1>2

\* The hook's pattern is the configured one, maybe cut, or the default.
LEMMA HookPatternType ==
  ASSUME NEW p \in Patterns
  PROVE  /\ IsLevels(HookPattern(p))
         /\ p # Empty => IsCut(HookPattern(p), p)
         /\ p = Empty => \A i \in 1 .. Len(HookPattern(p)) : HookPattern(p)[i] # "#"
<1>1. CASE p # Empty
  BY <1>1, Levels, CutOnce DEF HookPattern
<1>2. CASE p = Empty
  <2>1. IsLevels(HookPattern(p)) /\ IsCut(HookPattern(p), Default)
    BY <1>2, Levels, CutOnce DEF HookPattern
  <2>2. \A i \in 1 .. Len(HookPattern(p)) : i \in 1 .. Len(Default)
    BY <2>1, Levels DEF IsLevels, IsCut
  <2> QED BY <1>2, <2>1, <2>2, Levels DEF IsCut
<1> QED BY <1>1, <1>2

\* Only an empty topic is as long as the empty pattern and accepted by it.
LEMMA EmptySelectsNothing ==
  ASSUME NEW t \in Topics
  PROVE  ~MQTTMatches(t, Empty)
<1> SUFFICES ASSUME MQTTMatches(t, Empty) PROVE FALSE
  OBVIOUS
<1>1. /\ Len(t) = 1
      /\ \A i \in 1 .. 1 : Accepts(Empty[i], t[i])
  <2>1. ~(Empty[Len(Empty)] = "#")
    BY EmptyPattern
  <2>2. DOMAIN Empty = 1 .. 1 /\ Len(Empty) = 1
    BY EmptyPattern DEF IsLevels
  <2> QED BY <2>1, <2>2 DEF MQTTMatches
<1>4. t[1] = Blank
  <2>1. Blank # "+"
    BY TopicAssumption
  <2>2. Accepts(Blank, t[1])
    BY <1>1, EmptyPattern
  <2> QED BY <2>1, <2>2 DEF Accepts
<1>2. t \in Seq(Level)
  BY Levels DEF IsLevels
<1>3. t = Empty
  <2>1. \A i \in 1 .. Len(t) : t[i] = Empty[i]
    BY <1>1, <1>4, EmptyPattern
  <2>2. Len(t) = Len(Empty) /\ Empty \in Seq(Level)
    BY <1>1, EmptyPattern DEF IsLevels
  <2> QED BY <1>2, <2>1, <2>2, SeqEqual
<1> QED BY <1>3, Levels

\* What MQTT selects, the hook's matcher lets pass.
LEMMA SelectedPasses ==
  ASSUME NEW t \in Topics, NEW p \in Patterns, WellFormed(p), MQTTMatches(t, p)
  PROVE  HookMatches(t, p)
<1> DEFINE q == HookPattern(p)
<1>1. IsLevels(q) /\ IsCut(q, p) /\ IsLevels(p) /\ IsLevels(t)
  BY EmptySelectsNothing, HookPatternType, Levels
<1>2. SUFFICES ASSUME NEW i \in 1 .. Len(q), q[i] # "#"
               PROVE  i \in 1 .. Len(t) /\ Accepts(q[i], t[i])
  BY <1>1 DEF HookMatches, IsLevels
<1> HIDE DEF q
<1>3. i \in 1 .. Len(p) /\ q[i] = p[i] /\ p[i] # "#"
  BY <1>1, <1>2 DEF IsLevels, IsCut
<1>4. CASE Len(t) = Len(p) /\ \A j \in DOMAIN p : p[j] # "#" /\ Accepts(p[j], t[j])
  BY <1>1, <1>3, <1>4 DEF IsLevels
<1>5. CASE /\ p[Len(p)] = "#"
           /\ Len(t) >= Len(p) - 1
           /\ \A j \in 1 .. Len(p) - 1 : Accepts(p[j], t[j])
  <2>1. i # Len(p)
    BY <1>3, <1>5
  <2>2. Len(p) \in Nat /\ i \in 1 .. Len(p)
    BY <1>1, <1>3 DEF IsLevels
  <2>3. i \in 1 .. Len(p) - 1
    BY <2>1, <2>2
  <2> QED BY <1>1, <1>3, <1>5, <2>3 DEF IsLevels
<1> QED BY <1>4, <1>5 DEF MQTTMatches

\* What it lets pass is below the pattern.
LEMMA PassedIsBelow ==
  ASSUME NEW t \in Topics, NEW p \in Patterns, WellFormed(p), HookMatches(t, p)
  PROVE  MQTTMatches(t, IF HookPattern(p)[Len(HookPattern(p))] = "#"
                        THEN HookPattern(p) ELSE Append(HookPattern(p), "#"))
<1> DEFINE q == HookPattern(p)
<1>1. IsLevels(q) /\ IsLevels(t) /\ IsLevels(p)
  BY HookPatternType, Levels
<1>2. ASSUME NEW i \in 1 .. Len(q), q[i] = "#" PROVE i = Len(q)
  <2>1. p # Empty /\ IsCut(q, p)
    BY <1>2, HookPatternType
  <2> HIDE DEF q
  <2>2. i \in 1 .. Len(p) /\ p[i] = "#"
    BY <1>1, <1>2, <2>1 DEF IsCut, IsLevels
  <2>3. i = Len(p)
    BY <1>1, <2>2 DEF WellFormed, IsLevels
  <2>4. i \in 1 .. Len(q) /\ Len(q) \in Nat /\ Len(p) \in Nat /\ Len(q) <= Len(p)
    BY <1>1, <1>2, <2>1 DEF IsCut, IsLevels
  <2> QED BY <2>3, <2>4
<1>3. \A i \in 1 .. Len(q) : (\A j \in 1 .. Len(q) : q[j] = "#" => i < j) =>
        i \in 1 .. Len(t) /\ Accepts(q[i], t[i])
  BY <1>1 DEF HookMatches, IsLevels
<1> HIDE DEF q
<1>4. CASE q[Len(q)] = "#"
  <2>1. ASSUME NEW i \in 1 .. Len(q) - 1
        PROVE  i \in 1 .. Len(t) /\ Accepts(q[i], t[i])
    <3>1. Len(q) \in Nat /\ i \in 1 .. Len(q) /\ i < Len(q)
      BY <1>1 DEF IsLevels
    <3>2. \A j \in 1 .. Len(q) : q[j] = "#" => i < j
      BY <1>2, <3>1
    <3> QED BY <1>3, <3>1, <3>2
  <2>2. Len(t) >= Len(q) - 1
    BY <1>1, <2>1 DEF IsLevels
  <2>3. MQTTMatches(t, q)
    BY <1>4, <2>1, <2>2 DEF MQTTMatches
  <2> QED BY <1>4, <2>3 DEF q
<1>5. CASE q[Len(q)] # "#"
  <2>1. \A i \in 1 .. Len(q) : i \in 1 .. Len(t) /\ Accepts(q[i], t[i])
    BY <1>1, <1>2, <1>3, <1>5 DEF IsLevels
  <2>2. Len(t) >= Len(q)
    BY <1>1, <2>1 DEF IsLevels
  <2>3. /\ Len(Append(q, "#")) = Len(q) + 1
        /\ Append(q, "#")[Len(q) + 1] = "#"
        /\ \A i \in 1 .. Len(q) : Append(q, "#")[i] = q[i]
    BY <1>1, AppendProperties DEF IsLevels, Level
  <2>4. Len(Append(q, "#")) - 1 = Len(q)
    BY <1>1, <2>3 DEF IsLevels
  <2>5. MQTTMatches(t, Append(q, "#"))
    BY <2>1, <2>2, <2>3, <2>4 DEF MQTTMatches
  <2> QED BY <1>5, <2>5 DEF q
<1> QED BY <1>4, <1>5

-----------------------------------------------------------------------------
(* The validator. *)

\* At its last level the pattern has been read: no rest decides.
LEMMA RestIsUnused ==
  ASSUME NEW t, NEW p, NEW r, NEW s
  PROVE  MatchesAt(t, p, Len(p), r) = MatchesAt(t, p, Len(p), s)
BY DEF MatchesAt

LEMMA MatchesAtType ==
  ASSUME NEW t, NEW p, NEW i, NEW r \in BOOLEAN
  PROVE  MatchesAt(t, p, i, r) \in BOOLEAN
BY DEF MatchesAt

\* The recursion of matchMQTTPattern, as the equations it satisfies.
Solves(f, t, p, i) ==
  \A j \in i .. Len(p) : f[j] = MatchesAt(t, p, j, f[j + 1])

\* The recursion ends: a function of the levels satisfies its equations.
LEMMA Terminates ==
  ASSUME NEW t, NEW p, IsLevels(p)
  PROVE  \E f \in [1 .. Len(p) -> BOOLEAN] : Solves(f, t, p, 1)
<1> DEFINE n == Len(p)
           S == {i \in 1 .. n : \E f \in [1 .. n -> BOOLEAN] : Solves(f, t, p, i)}
<1>1. n \in Nat /\ n >= 1
  BY DEF IsLevels
<1>2. n \in S
  <2> DEFINE f == [j \in 1 .. n |-> MatchesAt(t, p, n, FALSE)]
  <2>1. f \in [1 .. n -> BOOLEAN]
    BY MatchesAtType
  <2>2. f[n] = MatchesAt(t, p, n, f[n + 1])
    <3>1. f[n] = MatchesAt(t, p, n, FALSE)
      BY <1>1
    <3> HIDE DEF f
    <3>2. MatchesAt(t, p, n, f[n + 1]) = MatchesAt(t, p, n, FALSE)
      BY RestIsUnused
    <3> QED BY <3>1, <3>2
  <2> HIDE DEF f
  <2>3. Solves(f, t, p, n)
    BY <1>1, <2>2 DEF Solves
  <2> QED BY <1>1, <2>1, <2>3
<1>3. ASSUME NEW i \in 1 .. n - 1, i + 1 \in S PROVE i \in S
  <2>1. PICK f \in [1 .. n -> BOOLEAN] : Solves(f, t, p, i + 1)
    BY <1>3
  <2>2. i \in 1 .. n /\ i + 1 \in 1 .. n
    BY <1>1
  <2> DEFINE g == [f EXCEPT ![i] = MatchesAt(t, p, i, f[i + 1])]
  <2>3. g \in [1 .. n -> BOOLEAN]
    BY <2>2, MatchesAtType
  <2>4. g[i] = MatchesAt(t, p, i, f[i + 1])
    BY <2>2
  <2>5. \A j \in 1 .. n : j # i => g[j] = f[j]
    OBVIOUS
  <2> HIDE DEF g
  <2>6. ASSUME NEW j \in i .. n PROVE g[j] = MatchesAt(t, p, j, g[j + 1])
    <3>1. CASE j = i
      <4>1. i + 1 # i
        OBVIOUS
      <4> QED BY <2>2, <2>4, <2>5, <3>1, <4>1
    <3>2. CASE j # i
      <4>1. j \in i + 1 .. n /\ j \in 1 .. n
        BY <1>1, <3>2
      <4>2. g[j] = MatchesAt(t, p, j, f[j + 1])
        BY <2>1, <2>5, <3>2, <4>1 DEF Solves
      <4>3. CASE j = n
        BY <4>2, <4>3, RestIsUnused
      <4>4. CASE j # n
        <5>1. j + 1 \in 1 .. n /\ j + 1 # i
          BY <1>1, <4>1, <4>4
        <5> QED BY <2>5, <4>2, <5>1
      <4> QED BY <4>3, <4>4
    <3> QED BY <3>1, <3>2
  <2>7. Solves(g, t, p, i)
    BY <2>6 DEF Solves
  <2> QED BY <2>2, <2>3, <2>7
<1>4. 1 \in S
  <2> HIDE DEF S
  <2>1. \A i \in 1 .. n : i \in S
    <3> HIDE DEF n
    <3> QED BY <1>1, <1>2, <1>3, Downwards
  <2> QED BY <1>1, <2>1
<1> QED BY <1>4

LEMMA MatchesFromSolves ==
  ASSUME NEW t, NEW p, IsLevels(p)
  PROVE  Solves(MatchesFrom(t, p), t, p, 1)
<1> DEFINE F(f) == [i \in 1 .. Len(p) |-> MatchesAt(t, p, i, f[i + 1])]
<1>1. PICK f \in [1 .. Len(p) -> BOOLEAN] : Solves(f, t, p, 1)
  BY Terminates
<1>2. f = F(f)
  BY <1>1 DEF Solves
<1>3. MatchesFrom(t, p) = CHOOSE g : g = F(g)
  BY DEF MatchesFrom
<1>4. MatchesFrom(t, p) = F(MatchesFrom(t, p))
  BY <1>2, <1>3
<1> QED BY <1>4 DEF Solves

\* The levels of p from i on select those of t.
SelectsFrom(t, p, i) ==
  \/ /\ Len(t) = Len(p)
     /\ \A j \in i .. Len(p) : p[j] # "#" /\ Accepts(p[j], t[j])
  \/ /\ p[Len(p)] = "#"
     /\ Len(t) >= Len(p) - 1
     /\ \A j \in i .. Len(p) - 1 : Accepts(p[j], t[j])

\* Where the validator says yes with that many levels of the topic read, the
\* levels that are left are selected: the two strings stay in step.
InStep(t, p, i) ==
  i - 1 <= Len(t) /\ MatchesFrom(t, p)[i] => SelectsFrom(t, p, i)

LEMMA LastInStep ==
  ASSUME NEW t, NEW p, IsLevels(t), IsLevels(p)
  PROVE  InStep(t, p, Len(p))
<1> DEFINE n == Len(p)
<1>1. n \in Nat /\ n >= 1 /\ Len(t) \in Nat
  BY DEF IsLevels
<1> SUFFICES ASSUME n - 1 <= Len(t), MatchesFrom(t, p)[n]
             PROVE  SelectsFrom(t, p, n)
  BY DEF InStep
<1>2. MatchesAt(t, p, n, MatchesFrom(t, p)[n + 1])
  BY <1>1, MatchesFromSolves DEF Solves
<1>3. CASE p[n] = "#"
  BY <1>1, <1>3 DEF SelectsFrom
<1>4. CASE p[n] # "#"
  <2>1. n = Len(t) /\ Accepts(p[n], t[n])
    BY <1>2, <1>4 DEF MatchesAt, Nothing, LastSegment, Accepts
  <2>2. \A j \in n .. n : j = n
    BY <1>1
  <2> QED BY <1>4, <2>1, <2>2 DEF SelectsFrom
<1> QED BY <1>3, <1>4

LEMMA EarlierInStep ==
  ASSUME NEW t, NEW p, IsLevels(t), IsLevels(p), WellFormed(p),
         NEW i \in 1 .. Len(p) - 1, InStep(t, p, i + 1)
  PROVE  InStep(t, p, i)
<1>1. Len(p) \in Nat /\ Len(t) \in Nat /\ i \in 1 .. Len(p) /\ i < Len(p)
  BY DEF IsLevels
<1> SUFFICES ASSUME i - 1 <= Len(t), MatchesFrom(t, p)[i]
             PROVE  SelectsFrom(t, p, i)
  BY DEF InStep
<1>2. MatchesAt(t, p, i, MatchesFrom(t, p)[i + 1])
  BY <1>1, MatchesFromSolves DEF Solves
<1>3. i # Len(p)
  BY <1>1
<1>4. p[i] # "#"
  BY <1>1, <1>3 DEF WellFormed, IsLevels
<1>5. i < Len(t) /\ Accepts(p[i], t[i]) /\ MatchesFrom(t, p)[i + 1]
  BY <1>2, <1>3, <1>4 DEF MatchesAt, Nothing
<1>6. (i + 1) - 1 <= Len(t)
  BY <1>1, <1>5
<1>7. SelectsFrom(t, p, i + 1)
  BY <1>5, <1>6 DEF InStep
<1>8. /\ \A j \in i .. Len(p) : j = i \/ j \in i + 1 .. Len(p)
      /\ \A j \in i .. Len(p) - 1 : j = i \/ j \in i + 1 .. Len(p) - 1
  BY <1>1
<1> QED BY <1>4, <1>5, <1>7, <1>8 DEF SelectsFrom

\* What the validator says yes to, MQTT selects.
LEMMA ValidatedIsSelected ==
  ASSUME NEW t \in Topics, NEW p \in Patterns, WellFormed(p), p # Empty,
         ValidatorMatches(t, p)
  PROVE  MQTTMatches(t, p)
<1>1. IsLevels(t) /\ IsLevels(p)
  BY Levels
<1>2. Len(p) \in Nat /\ Len(p) >= 1 /\ Len(t) \in Nat /\ DOMAIN p = 1 .. Len(p)
  BY <1>1 DEF IsLevels
<1> DEFINE S == {i \in 1 .. Len(p) : InStep(t, p, i)}
<1>3. Len(p) \in S
  BY <1>1, <1>2, LastInStep
<1>4. ASSUME NEW i \in 1 .. Len(p) - 1, i + 1 \in S PROVE i \in S
  BY <1>1, <1>2, <1>4, EarlierInStep
<1> HIDE DEF S
<1>5. 1 \in S
  <2>1. \A i \in 1 .. Len(p) : i \in S
    BY <1>2, <1>3, <1>4, Downwards
  <2> QED BY <1>2, <2>1
<1>6. 1 - 1 <= Len(t)
  BY <1>2
<1>7. SelectsFrom(t, p, 1)
  BY <1>5, <1>6 DEF S, InStep, ValidatorMatches
<1> QED BY <1>2, <1>7 DEF SelectsFrom, MQTTMatches

-----------------------------------------------------------------------------
(* What the validator misses. *)

\* MQTT selects these, the validator does not: "#" stands for no level at all, or
\* a last "+" for an empty level.
Overlooked(t, p) ==
  \/ p[Len(p)] = "#" /\ Len(t) = Len(p) - 1
  \/ p[Len(p)] = "+" /\ Len(t) = Len(p) /\ t[Len(t)] = Blank

\* What is selected at the last level and not overlooked is found there.
LEMMA LastIsFound ==
  ASSUME NEW t, NEW p, IsLevels(t), IsLevels(p), ~Overlooked(t, p),
         SelectsFrom(t, p, Len(p))
  PROVE  MatchesFrom(t, p)[Len(p)]
<1> DEFINE n == Len(p)
<1>1. n \in Nat /\ n >= 1 /\ n \in 1 .. n /\ n \in n .. n
  BY DEF IsLevels
<1>2. MatchesFrom(t, p)[n] = MatchesAt(t, p, n, MatchesFrom(t, p)[n + 1])
  BY <1>1, MatchesFromSolves DEF Solves
<1>3. CASE p[n] = "#"
  BY <1>2, <1>3 DEF MatchesAt
<1>4. CASE p[n] # "#"
  <2>1. Len(t) = n /\ Accepts(p[n], t[n])
    BY <1>1, <1>4 DEF SelectsFrom
  <2>2. ~(p[n] = "+" /\ t[n] = Blank)
    BY <2>1 DEF Overlooked
  <2>3. p[n] = Blank <=> t[n] = Blank
    BY <2>1, <2>2, TopicAssumption DEF Accepts
  <2>4. Nothing(p, n) <=> Nothing(t, n)
    BY <2>1, <2>3 DEF Nothing
  <2> QED BY <1>2, <2>1, <2>4 DEF MatchesAt, LastSegment
<1> QED BY <1>3, <1>4

\* And it is found at the level before, if it is found at the next one.
LEMMA EarlierIsFound ==
  ASSUME NEW t, NEW p, IsLevels(t), IsLevels(p), WellFormed(p), ~Overlooked(t, p),
         NEW i \in 1 .. Len(p) - 1, SelectsFrom(t, p, i),
         SelectsFrom(t, p, i + 1) => MatchesFrom(t, p)[i + 1]
  PROVE  MatchesFrom(t, p)[i]
<1>0. Len(p) \in Nat /\ Len(t) \in Nat
  BY DEF IsLevels
<1>1. i \in 1 .. Len(p) /\ i < Len(p) /\ i # Len(p)
  BY <1>0
<1>2. MatchesFrom(t, p)[i] = MatchesAt(t, p, i, MatchesFrom(t, p)[i + 1])
  BY <1>0, <1>1, MatchesFromSolves DEF Solves
<1>3. Len(t) >= Len(p) /\ i < Len(t) /\ i # Len(t)
  BY <1>0, <1>1 DEF SelectsFrom, Overlooked
<1>4. Accepts(p[i], t[i])
  BY <1>0, <1>1 DEF SelectsFrom
<1>5. SelectsFrom(t, p, i + 1)
  <2>1. /\ \A j \in i + 1 .. Len(p) : j \in i .. Len(p)
        /\ \A j \in i + 1 .. Len(p) - 1 : j \in i .. Len(p) - 1
    BY <1>0, <1>1
  <2> QED BY <2>1 DEF SelectsFrom
<1> QED BY <1>0, <1>1, <1>2, <1>3, <1>4, <1>5 DEF MatchesAt, Nothing

\* What is overlooked is lost at the topic's last level, and so at all before.
LEMMA OverlookedIsLost ==
  ASSUME NEW t, NEW p, IsLevels(t), IsLevels(p), WellFormed(p), Overlooked(t, p)
  PROVE  ~MatchesFrom(t, p)[1]
<1> DEFINE m == Len(t)
           S == {i \in 1 .. m : ~MatchesFrom(t, p)[i]}
<1>0. m \in Nat /\ m >= 1 /\ Len(p) \in Nat
  BY DEF IsLevels
<1>1. m <= Len(p) /\ m \in 1 .. Len(p)
  <2>1. Len(t) = Len(p) - 1 \/ Len(t) = Len(p)
    BY DEF Overlooked
  <2> QED BY <1>0, <2>1
<1>2. \A i \in 1 .. m : MatchesFrom(t, p)[i] = MatchesAt(t, p, i, MatchesFrom(t, p)[i + 1])
  BY <1>0, <1>1, MatchesFromSolves DEF Solves
<1>3. m \in S
  <2>1. MatchesFrom(t, p)[m] = MatchesAt(t, p, m, MatchesFrom(t, p)[m + 1])
    BY <1>0, <1>1, <1>2
  <2>2. CASE p[Len(p)] = "#" /\ m = Len(p) - 1
    <3>1. m # Len(p) /\ ~(m < Len(t))
      BY <1>0, <1>1, <2>2
    <3>2. ~MatchesAt(t, p, m, MatchesFrom(t, p)[m + 1])
      BY <3>1 DEF MatchesAt, Nothing
    <3> QED BY <1>0, <1>1, <2>1, <3>2
  <2>3. CASE p[Len(p)] = "+" /\ m = Len(p) /\ t[m] = Blank
    <3>1. ~Nothing(p, m) /\ Nothing(t, m) /\ p[m] # "#"
      BY <2>3, TopicAssumption DEF Nothing
    <3>2. ~MatchesAt(t, p, m, MatchesFrom(t, p)[m + 1])
      BY <3>1 DEF MatchesAt
    <3> QED BY <1>0, <1>1, <2>1, <3>2
  <2> QED BY <2>2, <2>3 DEF Overlooked
<1>4. ASSUME NEW i \in 1 .. m - 1, i + 1 \in S PROVE i \in S
  <2>1. i \in 1 .. m /\ i # Len(p) /\ i \in 1 .. Len(p)
    BY <1>0, <1>1
  <2>2. p[i] # "#"
    BY <2>1 DEF WellFormed, IsLevels
  <2>3. ~MatchesAt(t, p, i, MatchesFrom(t, p)[i + 1])
    BY <1>4, <2>1, <2>2 DEF MatchesAt, Nothing
  <2> QED BY <1>2, <2>1, <2>3
<1> HIDE DEF S
<1>5. \A i \in 1 .. m : i \in S
  <2> HIDE DEF m
  <2> QED BY <1>0, <1>1, <1>3, <1>4, Downwards
<1>6. 1 \in S
  BY <1>0, <1>1, <1>5
<1> QED BY <1>6 DEF S

\* The validator says yes to what MQTT selects and it does not overlook.
LEMMA ValidatedExactly ==
  ASSUME NEW t \in Topics, NEW p \in Patterns, WellFormed(p), p # Empty
  PROVE  ValidatorMatches(t, p) <=> MQTTMatches(t, p) /\ ~Overlooked(t, p)
<1> DEFINE n == Len(p)
           S == {i \in 1 .. n : SelectsFrom(t, p, i) => MatchesFrom(t, p)[i]}
<1>1. IsLevels(t) /\ IsLevels(p) /\ n \in Nat /\ n >= 1 /\ DOMAIN p = 1 .. n
  BY Levels DEF IsLevels
<1>2. ValidatorMatches(t, p) => MQTTMatches(t, p) /\ ~Overlooked(t, p)
  BY <1>1, ValidatedIsSelected, OverlookedIsLost DEF ValidatorMatches
<1>3. ASSUME MQTTMatches(t, p), ~Overlooked(t, p) PROVE ValidatorMatches(t, p)
  <2>1. n \in S
    BY <1>1, <1>3, LastIsFound
  <2>2. ASSUME NEW i \in 1 .. n - 1, i + 1 \in S PROVE i \in S
    <3>1. i \in 1 .. n
      BY <1>1
    <3> QED BY <1>1, <1>3, <2>2, <3>1, EarlierIsFound
  <2> HIDE DEF S
  <2>3. \A i \in 1 .. n : i \in S
    <3> HIDE DEF n
    <3> QED BY <1>1, <2>1, <2>2, Downwards
  <2>4. 1 \in S
    BY <1>1, <2>3
  <2>5. SelectsFrom(t, p, 1)
    BY <1>1, <1>3 DEF MQTTMatches, SelectsFrom
  <2> QED BY <2>4, <2>5 DEF S, ValidatorMatches
<1> QED BY <1>2, <1>3

-----------------------------------------------------------------------------
(* The program. *)

\* The last message went where the two matchers sent it.
Inv ==
  /\ pattern \in Patterns
  /\ topic # None =>
       /\ topic \in Topics
       /\ processed = HookMatches(topic, pattern)
       /\ logged = (processed /\ ValidatorMatches(topic, pattern))
  /\ topic = None => ~processed /\ ~logged

LEMMA Invariance == Spec => []Inv
<1>1. Init => Inv
  BY DEF Init, Inv
<1>2. Inv /\ [Next]_vars => Inv'
  <2> SUFFICES ASSUME Inv, [Next]_vars PROVE Inv'
    OBVIOUS
  <2>1. ASSUME NEW t \in Topics, OnPublish(t) PROVE Inv'
    <3>1. t # None
      BY TopicAssumption DEF None
    <3> QED BY <2>1, <3>1 DEF OnPublish, Inv
  <2>2. CASE UNCHANGED vars
    BY <2>2 DEF vars, Inv
  <2> QED BY <2>1, <2>2 DEF Next
<1> QED BY <1>1, <1>2, PTL DEF Spec

\* Every message the configured filter selects is processed, for all topics
\* and patterns.
THEOREM NothingSelected == Spec => []NothingSelectedIsSkipped
<1>1. Inv => NothingSelectedIsSkipped
  BY SelectedPasses DEF Inv, NothingSelectedIsSkipped
<1> QED BY <1>1, Invariance, PTL

\* Only messages below the configured pattern are processed.
THEOREM OnlyBelow == Spec => []OnlyBelowIsProcessed
<1>1. Inv => OnlyBelowIsProcessed
  BY PassedIsBelow DEF Inv, OnlyBelowIsProcessed
<1> QED BY <1>1, Invariance, PTL

\* The validator's cutting never runs out of step: only selected messages are
\* logged.
THEOREM OnlySelected == Spec => []OnlySelectedIsLogged
<1>1. Inv => OnlySelectedIsLogged
  BY ValidatedIsSelected DEF Inv, OnlySelectedIsLogged
<1> QED BY <1>1, Invariance, PTL
\* Of the messages the configured filter selects, exactly those are not logged
\* that the validator overlooks: the topic a filter with "/#" names itself, and,
\* for a filter that ends in "/+", the topics that end in a slash.
THEOREM LoggedExactly ==
  Spec => [](topic # None /\ WellFormed(pattern) /\ pattern # Empty =>
               (logged <=> MQTTMatches(topic, pattern) /\ ~Overlooked(topic, pattern)))
<1>1. Inv => (topic # None /\ WellFormed(pattern) /\ pattern # Empty =>
                (logged <=> MQTTMatches(topic, pattern) /\ ~Overlooked(topic, pattern)))
  BY SelectedPasses, ValidatedExactly DEF Inv
<1> QED BY <1>1, Invariance, PTL
=============================================================================
