--------------------------- MODULE ReadingLifetime ---------------------------
(***************************************************************************)
(* What a reader of /metrics may rely on for the readings that expire      *)
(* (temperature, humidity, pressure), without goroutines, locks or         *)
(* timestamps: when a reading may be taken off display, and how long one   *)
(* may stay.  Collector implements it (CollectorRefinement).               *)
(***************************************************************************)
EXTENDS Integers

CONSTANTS
  Readings,  \* the readings that expire, one per node and metric
  Writers,   \* who may write them
  TTL,       \* the age from which a reading may be removed
  Grace      \* how much later it is removed at the latest

VARIABLES
  shown,     \* the readings on display
  kept,      \* those that come from the state file
  writing,   \* the writers that have begun and not ended a write of a reading
  age,       \* ticks since the displayed value was written
  idle,      \* ticks since the last write of the reading ended
  expiring   \* the collector has not been shut down

vars == <<shown, kept, writing, age, idle, expiring>>

\* Ages above the longest life of a reading are not told apart.
Deadline == TTL + Grace
Older(a) == IF a <= Deadline THEN a + 1 ELSE a

\* A reading is settled when its value is a message's and nobody is writing it.
Settled == {r \in shown \ kept : writing[r] = {}}

Init ==
  /\ shown \in SUBSET Readings
  /\ kept = shown
  /\ writing = [r \in Readings |-> {}]
  /\ age = [r \in Readings |-> 0]
  /\ idle = [r \in Readings |-> 0]
  /\ expiring = TRUE

BeginWrite(w, r) ==
  /\ \A q \in Readings : w \notin writing[q]
  /\ shown' = shown \cup {r}
  /\ kept' = kept \ {r}
  /\ writing' = [writing EXCEPT ![r] = @ \cup {w}]
  /\ age' = [age EXCEPT ![r] = 0]
  /\ idle' = [idle EXCEPT ![r] = 0]
  /\ UNCHANGED expiring

EndWrite(w, r) ==
  /\ w \in writing[r]
  /\ writing' = [writing EXCEPT ![r] = @ \ {w}]
  /\ idle' = [idle EXCEPT ![r] = 0]
  /\ UNCHANGED <<shown, kept, age, expiring>>

\* Readings go once they are older than the TTL, or while they are written;
\* restored readings do not go.
Remove(gone) ==
  /\ expiring
  /\ gone \subseteq shown \ kept
  /\ \A r \in gone : age[r] > TTL \/ writing[r] # {}
  /\ shown' = shown \ gone
  /\ age' = [r \in Readings |-> IF r \in gone THEN 0 ELSE age[r]]
  /\ idle' = [r \in Readings |-> IF r \in gone THEN 0 ELSE idle[r]]
  /\ UNCHANGED <<kept, writing, expiring>>

StopExpiring ==
  /\ expiring' = FALSE
  /\ UNCHANGED <<shown, kept, writing, age, idle>>

\* Time does not pass a settled reading's deadline.
Tick ==
  /\ expiring => \A r \in Settled : idle[r] < Deadline
  /\ age' = [r \in Readings |-> IF r \in shown THEN Older(age[r]) ELSE age[r]]
  /\ idle' = [r \in Readings |-> IF r \in Settled THEN Older(idle[r]) ELSE idle[r]]
  /\ UNCHANGED <<shown, kept, writing, expiring>>

Next ==
  \/ \E w \in Writers, r \in Readings : BeginWrite(w, r)
  \/ \E w \in Writers, r \in Readings : EndWrite(w, r)
  \/ \E gone \in SUBSET Readings : Remove(gone)
  \/ StopExpiring
  \/ Tick

Spec == Init /\ [][Next]_vars
=============================================================================
