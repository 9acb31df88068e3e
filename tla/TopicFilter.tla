----------------------------- MODULE TopicFilter -----------------------------
(***************************************************************************)
(* Which topics the embedded program reads.  The one pattern of the        *)
(* configuration (hook.prometheus.topic.pattern) is matched twice, by two  *)
(* algorithms: the hook's, which decides whether a message is processed    *)
(* (matchesTopicPattern of pkg/hooks/meshtastic.go), and the validator's,  *)
(* which decides whether it is logged (pkg/validator/validator.go).        *)
(*                                                                         *)
(* A topic or pattern is the sequence of its levels: splitting "a//b" at   *)
(* the slashes gives <<"a", "", "b">>, and the empty string is <<"">>.     *)
(***************************************************************************)
EXTENDS Integers, Sequences

CONSTANTS
  Topics,        \* the topics of published messages; the broker passes on none
                 \* with an empty topic
  Patterns,      \* the patterns a configuration may have
  Default,       \* the levels of domain.DefaultTopicPrefix
  Blank          \* the empty level, between two slashes or after the last one

Level == STRING
Empty == <<Blank>>
None  == <<>>   \* no message yet

ASSUME TopicAssumption ==
  /\ Blank \in Level \ {"+", "#"}
  /\ \A t \in Topics \cup Patterns \cup {Default} : t \in Seq(Level) /\ t # <<>>
  /\ \A t \in Topics : \A i \in DOMAIN t : t[i] \notin {"+", "#"}
  /\ Empty \notin Topics
  /\ \A i \in DOMAIN Default : Default[i] # "#"

VARIABLES
  pattern,    \* the configured pattern
  topic,      \* the topic of the last message published
  processed,  \* whether it has been processed
  logged      \* whether it has been logged (with log_all_messages)

vars == <<pattern, topic, processed, logged>>

-----------------------------------------------------------------------------
(* The hook. *)

\* Bug: the slash is not taken off.
HookPatternWithSlash(p) ==
  LET q == IF p = Empty THEN Default ELSE p
  IN  IF q[Len(q)] = Blank THEN q ELSE Append(q, Blank)

\* The constructors replace the empty pattern by the default and append a
\* slash when there is none; matchesTopicPattern takes one slash off again.
HookPattern(p) ==
  LET q == IF p = Empty THEN Default ELSE p
  IN  IF Len(q) > 1 /\ q[Len(q)] = Blank THEN SubSeq(q, 1, Len(q) - 1) ELSE q

\* A level of the pattern accepts a level of the topic.
Accepts(p, t) == p = "+" \/ p = t

\* Bug: the loop ends one level early.
HookMatchesSkipsLast(t, configured) ==
  LET p       == HookPattern(configured)
      hashes  == {i \in DOMAIN p : p[i] = "#"}
      checked == {i \in DOMAIN p : i < Len(p) /\ \A j \in hashes : i < j}
  IN  \A i \in checked : i \in DOMAIN t /\ Accepts(p[i], t[i])

\* matchesTopicPattern: the pattern up to its first "#" is matched with as
\* many levels of the topic; the topic may be longer.
HookMatches(t, configured) ==
  LET p       == HookPattern(configured)
      hashes  == {i \in DOMAIN p : p[i] = "#"}
      checked == {i \in DOMAIN p : \A j \in hashes : i < j}
  IN  \A i \in checked : i \in DOMAIN t /\ Accepts(p[i], t[i])

-----------------------------------------------------------------------------
(* The validator. *)

\* Bug: more levels may follow the last one of the pattern.
LastSegmentPrefix(t, p, i) == Accepts(p[i], t[i])

\* matchLastSegment: the pattern's last level, which is not "#".
LastSegment(t, p, i) == i = Len(t) /\ Accepts(p[i], t[i])

\* Nothing is left, from level i on, of a string that ends in an empty level.
Nothing(s, i) == i = Len(s) /\ s[i] = Blank

\* matchMQTTPattern with matchSegments, from level i on; rest is what they say of
\* the levels after it.
MatchesAt(t, p, i, rest) ==
  \/ i = Len(p) /\ p[i] = "#"
  \/ Nothing(p, i) /\ Nothing(t, i)
  \/ /\ ~Nothing(p, i)
     /\ ~Nothing(t, i)
     /\ IF i = Len(p) THEN LastSegment(t, p, i)
        ELSE /\ i < Len(t)
             /\ p[i] = "#" \/ (Accepts(p[i], t[i]) /\ rest)

\* Both strings are cut at their first slash again and again: what
\* matchMQTTPattern says from each level of the pattern on.
MatchesFrom(t, p) ==
  LET matches[i \in 1 .. Len(p)] == MatchesAt(t, p, i, matches[i + 1])
  IN  matches

\* MatchesMQTTPattern
ValidatorMatches(t, p) == p = Empty \/ MatchesFrom(t, p)[1]

-----------------------------------------------------------------------------
Init ==
  /\ pattern \in Patterns
  /\ topic = None
  /\ processed = FALSE
  /\ logged = FALSE

\* OnPublish: a message that passes the hook's filter goes to ProcessMessage,
\* which first logs it if the validator's filter lets it pass.
OnPublish(t) ==
  /\ topic' = t
  /\ processed' = HookMatches(t, pattern)
  /\ logged' = (processed' /\ ValidatorMatches(t, pattern))
  /\ UNCHANGED pattern

Next == \E t \in Topics : OnPublish(t)

Spec == Init /\ [][Next]_vars

-----------------------------------------------------------------------------
(* Properties. *)

\* The filters of MQTT: "#" stands for any number of last levels, and none.
WellFormed(p) == \A i \in DOMAIN p : p[i] = "#" => i = Len(p)

MQTTMatches(t, p) ==
  \/ /\ Len(t) = Len(p)
     /\ \A i \in DOMAIN p : p[i] # "#" /\ Accepts(p[i], t[i])
  \/ /\ p[Len(p)] = "#"
     /\ Len(t) >= Len(p) - 1
     /\ \A i \in 1 .. Len(p) - 1 : Accepts(p[i], t[i])

\* The hook processes every message whose topic the configured MQTT filter
\* selects, whatever slashes and wildcards the filter ends in.
NothingSelectedIsSkipped ==
  topic # None /\ WellFormed(pattern) /\ MQTTMatches(topic, pattern) => processed

\* The hook's filter is the MQTT filter followed by "#": a message is processed
\* only if its first levels are those of the pattern, whatever the wildcards
\* and however short the topic.
OnlyBelowIsProcessed ==
  LET p == HookPattern(pattern)
  IN  WellFormed(pattern) /\ processed =>
        MQTTMatches(topic, IF p[Len(p)] = "#" THEN p ELSE Append(p, "#"))

\* What is logged was selected by the filter: the validator's cutting of both
\* strings never runs out of step.
OnlySelectedIsLogged ==
  WellFormed(pattern) /\ pattern # Empty /\ logged => MQTTMatches(topic, pattern)
=============================================================================
