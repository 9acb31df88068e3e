----------------------------- MODULE DurableStore -----------------------------
(***************************************************************************)
(* What the metrics of a program may become across saves, failures and     *)
(* restarts, without families, system calls or shutdown sequences: what is *)
(* on disk was live after the save had begun, only a save can damage it,   *)
(* and a program starts with exactly what is on disk.  Both programs       *)
(* implement it (HookLifecycle, StandaloneApp).                            *)
(***************************************************************************)
EXTENDS Integers

CONSTANTS
  Keys,    \* what is stored
  Values,  \* numbers; newer values are larger, and 0 is no value
  Savers   \* who may save

VARIABLES
  up,      \* the program runs
  live,    \* its values
  disk,    \* what the next program will find
  saving,  \* the savers at work
  since    \* the values that were live when they began

vars == <<up, live, disk, saving, since>>

Data       == [Keys -> Values]
Blank      == [k \in Keys |-> 0]
Nothing    == [kind |-> "nothing"]
Holding(d) == [kind |-> "snapshot", data |-> d]

NoOlder(d, e) == \A k \in Keys : e[k] <= d[k]

Init ==
  /\ up = FALSE
  /\ live = Blank
  /\ disk = Nothing
  /\ saving = {}
  /\ since = [w \in Savers |-> Blank]

Start ==
  /\ ~up
  /\ up' = TRUE
  /\ live' = IF disk.kind = "snapshot" THEN disk.data ELSE Blank
  /\ UNCHANGED <<disk, saving, since>>

Learn ==
  /\ up
  /\ live' \in Data
  /\ NoOlder(live', live)
  /\ UNCHANGED <<up, disk, saving, since>>

Begin(w) ==
  /\ up
  /\ w \notin saving
  /\ saving' = saving \cup {w}
  /\ since' = [since EXCEPT ![w] = live]
  /\ UNCHANGED <<up, live, disk>>

\* A save in progress may leave nothing on disk.
Damage(w) ==
  /\ w \in saving
  /\ disk' = Nothing
  /\ UNCHANGED <<up, live, saving, since>>

\* It ends with values that were all live since it began, with nothing on
\* disk, or without effect.
Finish(w) ==
  /\ w \in saving
  /\ \/ \E d \in Data : NoOlder(d, since[w]) /\ NoOlder(live, d) /\ disk' = Holding(d)
     \/ disk' = Nothing
     \/ disk' = disk
  /\ saving' = saving \ {w}
  /\ since' = [since EXCEPT ![w] = Blank]
  /\ UNCHANGED <<up, live>>

\* The program ends, with or without a save in progress.
End ==
  /\ up
  /\ up' = FALSE
  /\ live' = Blank
  /\ saving' = {}
  /\ since' = [w \in Savers |-> Blank]
  /\ UNCHANGED disk

Next ==
  \/ Start
  \/ Learn
  \/ \E w \in Savers : Begin(w)
  \/ \E w \in Savers : Damage(w)
  \/ \E w \in Savers : Finish(w)
  \/ End

Spec == Init /\ [][Next]_vars
=============================================================================
