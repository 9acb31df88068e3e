------------------------------ MODULE StateFile ------------------------------
(***************************************************************************)
(* SaveState and LoadState of PrometheusCollector: how the registry gets   *)
(* into the state file and back.  The lifecycles of the two programs       *)
(* (HookLifecycle, StandaloneApp) extend this module and say when.         *)
(*                                                                         *)
(* A series is the whole registry's content of one metric family, and its  *)
(* value is the number of the last message that wrote it, 0 when it is     *)
(* absent: newer values are larger.  A message writes last seen and the    *)
(* counter, or every series (telemetry).  The order in which it does so    *)
(* (Collector) is left out: a Gather concurrent with a message already     *)
(* sees old and new values in every combination, since Gather collects the *)
(* families one by one, in no particular order.                            *)
(***************************************************************************)
EXTENDS Integers

CONSTANTS
  Series,       \* the series of the registry
  Saved,        \* those that SaveState saves and LoadState restores
  Touched,      \* those that every message writes
  Writers,      \* goroutines that call SaveState
  MaxMessages   \* bound on the messages received

ASSUME SeriesAssumption ==
  /\ Saved \subseteq Series
  /\ Touched \subseteq Series
  /\ MaxMessages \in Nat

VARIABLES
  mem,       \* the registry
  received,  \* messages received since the first start
  file,      \* content of the state file
  io         \* progress of each writer's SaveState

stateVars == <<mem, received, file, io>>

Version  == 0 .. MaxMessages
Snapshot == [Saved -> Version]

\* The file does not exist, holds no JSON document (empty, cut off, or two
\* snapshots over each other), or holds a snapshot.
Missing    == [kind |-> "missing"]
Unreadable == [kind |-> "unreadable"]
Holding(d) == [kind |-> "snapshot", data |-> d]
Contents   == {Missing, Unreadable} \cup {Holding(d) : d \in Snapshot}

\* What LoadState finds.
Content == IF file.kind = "snapshot" THEN file ELSE [kind |-> "nothing"]

NoSeries == [s \in Series |-> 0]
NoData   == [s \in Saved |-> 0]
OnDisk   == [s \in Saved |-> mem[s]]

\* SaveState's program: gather the families one by one, open (and truncate)
\* the file, write it.  "clean" tells whether the file is still empty since
\* this writer truncated it; "since" is history, the registry at its call.
Idle == [pc |-> "idle", todo |-> {}, snap |-> NoData, clean |-> FALSE, since |-> NoData]

Saving(w) == io[w].pc # "idle"

\* Between the open of os.WriteFile and the end of its write.
WriteInProgress == \E w \in Writers : io[w].pc = "write"

-----------------------------------------------------------------------------
InitStateFile ==
  /\ mem = NoSeries
  /\ received = 0
  /\ file = Missing
  /\ io = [w \in Writers |-> Idle]

\* A message that writes these series is processed.
Absorb(written) ==
  /\ received < MaxMessages
  /\ received' = received + 1
  /\ mem' = [s \in Series |-> IF s \in written THEN received + 1 ELSE mem[s]]
  /\ UNCHANGED <<file, io>>

\* SaveState is called.
BeginSave(w) ==
  /\ ~Saving(w)
  /\ io' = [io EXCEPT ![w] = [Idle EXCEPT !.pc = "gather", !.todo = Saved, !.since = OnDisk]]
  /\ UNCHANGED <<mem, received, file>>

\* Gather reads one family.
Gather(w, s) ==
  /\ io[w].pc = "gather"
  /\ s \in io[w].todo
  /\ io' = [io EXCEPT ![w].todo = @ \ {s}, ![w].snap[s] = mem[s]]
  /\ UNCHANGED <<mem, received, file>>

\* No node has a series: SaveState returns without touching the file.
SkipWrite(w) ==
  /\ io[w].pc = "gather"
  /\ io[w].todo = {}
  /\ io[w].snap = NoData
  /\ io' = [io EXCEPT ![w] = Idle]
  /\ UNCHANGED <<mem, received, file>>

\* os.WriteFile opens the file, which empties it.
Truncate(w) ==
  /\ io[w].pc = "gather"
  /\ io[w].todo = {}
  /\ io[w].snap # NoData
  /\ file' = Unreadable
  /\ io' = [io EXCEPT ![w].pc = "write", ![w].clean = TRUE]
  /\ UNCHANGED <<mem, received>>

\* The write is over and leaves one of these contents in the file, which is no
\* longer as the others have emptied it.
EndWrite(w, contents) ==
  /\ io[w].pc = "write"
  /\ file' \in contents
  /\ io' = [v \in Writers |-> IF v = w THEN Idle ELSE [io[v] EXCEPT !.clean = FALSE]]
  /\ UNCHANGED <<mem, received>>

\* It writes the document at offset 0.  If another writer has written since,
\* the tail of a longer document remains behind a shorter one.
Write(w) ==
  EndWrite(w, {Holding(io[w].snap)} \cup IF io[w].clean THEN {} ELSE {Unreadable})

\* Gather, MarshalIndent or the open returns an error: SaveState returns it, which
\* its callers only log, and the file is as it was.
FailBeforeWrite(w) ==
  /\ io[w].pc = "gather"
  /\ io[w].todo = {}
  /\ io' = [io EXCEPT ![w] = Idle]
  /\ UNCHANGED <<mem, received, file>>

\* The write fails before the first byte or after some, or the close fails after
\* the last.
FailWrite(w) == EndWrite(w, {file, Unreadable, Holding(io[w].snap)})

\* Bug: restoreMetric lacks the cases of the telemetry.
LoadStateForgetsSome ==
  /\ mem' = [s \in Series |-> IF file.kind = "snapshot" /\ s \in Saved \cap Touched
                              THEN file.data[s] ELSE 0]
  /\ UNCHANGED <<received, file, io>>

\* A new process: LoadState restores the snapshot; a missing file is no error,
\* and the factory ignores the error of an unreadable one.
LoadState ==
  /\ mem' = IF file.kind = "snapshot"
            THEN [s \in Series |-> IF s \in Saved THEN file.data[s] ELSE 0]
            ELSE NoSeries
  /\ UNCHANGED <<received, file, io>>

\* The process ends: memory is gone and every SaveState stops where it is.
LoseMemory ==
  /\ mem' = NoSeries
  /\ io' = [w \in Writers |-> Idle]
  /\ UNCHANGED <<received, file>>

SaveStep(w) ==
  \/ \E s \in Saved : Gather(w, s)
  \/ SkipWrite(w)
  \/ Truncate(w)
  \/ Write(w)

SaveFailure(w) == FailBeforeWrite(w) \/ FailWrite(w)

TypeOKStateFile ==
  /\ mem \in [Series -> Version]
  /\ received \in Version
  /\ file \in Contents
  /\ io \in [Writers -> [pc : {"idle", "gather", "write"}, todo : SUBSET Saved,
                         snap : Snapshot, clean : BOOLEAN, since : Snapshot]]
=============================================================================
