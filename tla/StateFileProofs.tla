--------------------------- MODULE StateFileProofs ---------------------------
(***************************************************************************)
(* SaveState, LoadState and the messages between them, for any series and  *)
(* any number of savers: what is saved was in the registry after the save  *)
(* had begun, whatever else happens meanwhile.  The lifecycles of the two  *)
(* programs cite these facts (HookLifecycleProofs, StandaloneAppProofs).   *)
(***************************************************************************)
EXTENDS StateFile, TLAPS

\* The progress of one SaveState.
IoType ==
  [pc : {"idle", "gather", "write"}, todo : SUBSET Saved,
   snap : Snapshot, clean : BOOLEAN, since : Snapshot]

\* What a save has gathered lies between the registry at its call and now.
Between(w) ==
  \A s \in Saved :
    /\ io[w].since[s] <= mem[s]
    /\ s \notin io[w].todo => io[w].since[s] <= io[w].snap[s] /\ io[w].snap[s] <= mem[s]

\* What every interleaving of saves and messages keeps.
SaveInv ==
  /\ TypeOKStateFile
  /\ \A s \in Series : mem[s] <= received
  /\ file.kind = "snapshot" => \A s \in Saved : file.data[s] <= received
  /\ \A w \in Writers :
       /\ ~Saving(w) => io[w] = Idle
       /\ io[w].pc = "write" => io[w].todo = {}
       /\ Saving(w) => Between(w)

\* The two parts of the state that DurableStore keeps of the savers.
SavingNow == {w \in Writers : Saving(w)}
SinceOf   == [w \in Writers |-> io[w].since]

-----------------------------------------------------------------------------
(* Types. *)

\* Zero is a version, and an idle saver has no snapshot.
LEMMA StateTypes ==
  /\ MaxMessages \in Nat
  /\ Saved \subseteq Series /\ Touched \subseteq Series
  /\ 0 \in Version
  /\ NoData \in Snapshot
  /\ NoSeries \in [Series -> Version]
  /\ Idle \in IoType
  /\ Idle.pc = "idle" /\ Idle.todo = {} /\ Idle.snap = NoData /\ Idle.since = NoData
<1>1. MaxMessages \in Nat /\ Saved \subseteq Series /\ Touched \subseteq Series
  BY SeriesAssumption
<1>2. 0 \in Version
  BY <1>1 DEF Version
<1>3. NoData \in Snapshot
  BY <1>2 DEF NoData, Snapshot
<1>4. NoSeries \in [Series -> Version]
  BY <1>2 DEF NoSeries
<1>5. Idle \in IoType
  BY <1>3 DEF Idle, IoType
<1> QED BY <1>1, <1>2, <1>3, <1>4, <1>5 DEF Idle

\* A file that holds a snapshot is one, and the others are not.
LEMMA FileKinds ==
  /\ file \in Contents /\ file.kind = "snapshot" => file.data \in Snapshot /\ file = Holding(file.data)
  /\ \A d : Holding(d).kind = "snapshot" /\ Holding(d).data = d
  /\ Missing.kind # "snapshot" /\ Unreadable.kind # "snapshot"
BY DEF Contents, Holding, Missing, Unreadable

\* What is on disk is part of the registry.
LEMMA OnDiskType ==
  ASSUME SaveInv
  PROVE  OnDisk \in Snapshot /\ \A s \in Saved : OnDisk[s] = mem[s] /\ mem[s] \in Version
BY StateTypes DEF SaveInv, TypeOKStateFile, OnDisk, Snapshot

\* Versions are natural numbers.
LEMMA VersionType == \A v \in Version : v \in Nat
BY StateTypes DEF Version

-----------------------------------------------------------------------------
(* The steps. *)

\* Nothing is saved at first.
LEMMA InitSaveInv == InitStateFile => SaveInv
<1> SUFFICES ASSUME InitStateFile PROVE SaveInv
  OBVIOUS
<1>1. io \in [Writers -> IoType] /\ \A w \in Writers : io[w] = Idle
  BY StateTypes DEF InitStateFile
<1>2. file \in Contents /\ file.kind # "snapshot"
  BY FileKinds DEF InitStateFile, Contents
<1>3. mem \in [Series -> Version] /\ received \in Version /\ \A s \in Series : mem[s] <= received
  BY StateTypes DEF InitStateFile, NoSeries, Version
<1>4. \A w \in Writers : io[w].pc = "idle"
  BY <1>1, StateTypes
<1> QED BY <1>1, <1>2, <1>3, <1>4 DEF SaveInv, TypeOKStateFile, IoType, Saving

\* A message makes series newer, and no save older.
LEMMA AbsorbSaveInv ==
  ASSUME SaveInv, NEW written, Absorb(written)
  PROVE  /\ SaveInv'
         /\ \A s \in Series : mem[s] <= mem'[s] /\ (s \notin written => mem'[s] = mem[s])
         /\ \A s \in Series : s \in written => mem'[s] = received + 1
         /\ UNCHANGED <<file, io>>
<1>1. /\ received \in Nat /\ received' = received + 1 /\ received + 1 \in Version
      /\ mem' = [s \in Series |-> IF s \in written THEN received + 1 ELSE mem[s]]
      /\ UNCHANGED <<file, io>>
  BY StateTypes DEF Absorb, SaveInv, TypeOKStateFile, Version
<1>2. \A s \in Series : mem[s] \in Nat /\ mem[s] \in Version /\ mem[s] <= received
  BY VersionType DEF SaveInv, TypeOKStateFile
<1>3. mem' \in [Series -> Version] /\ \A s \in Series : mem[s] <= mem'[s] /\ mem'[s] <= received'
  BY <1>1, <1>2
<1>4. ASSUME file.kind = "snapshot", NEW s \in Saved PROVE file.data[s] <= received'
  <2>1. file.data[s] \in Nat /\ file.data[s] <= received
    BY <1>4, FileKinds, VersionType DEF SaveInv, TypeOKStateFile, Snapshot
  <2> QED BY <1>1, <2>1
<1>5. ASSUME NEW w \in Writers, Saving(w) PROVE Between(w)'
  <2> SUFFICES ASSUME NEW s \in Saved
               PROVE  /\ io[w].since[s] <= mem'[s]
                      /\ s \notin io[w].todo => io[w].since[s] <= io[w].snap[s] /\ io[w].snap[s] <= mem'[s]
    BY <1>1 DEF Between
  <2>1. io[w].since[s] \in Nat /\ io[w].snap[s] \in Nat /\ s \in Series
    BY VersionType, StateTypes DEF SaveInv, TypeOKStateFile, Snapshot
  <2>2. mem[s] <= mem'[s] /\ mem[s] \in Nat /\ mem'[s] \in Nat
    BY <1>2, <1>3, <2>1, VersionType
  <2> QED BY <1>5, <2>1, <2>2 DEF SaveInv, Between
<1>6. TypeOKStateFile'
  BY <1>1, <1>3 DEF SaveInv, TypeOKStateFile
<1>7. SaveInv'
  BY <1>1, <1>3, <1>4, <1>5, <1>6 DEF SaveInv, Saving
<1> QED BY <1>1, <1>3, <1>7

\* A save begins with the registry as it is.
LEMMA BeginSaveInv ==
  ASSUME SaveInv, NEW w \in Writers, BeginSave(w)
  PROVE  /\ SaveInv'
         /\ w \notin SavingNow /\ SavingNow' = SavingNow \cup {w}
         /\ SinceOf' = [SinceOf EXCEPT ![w] = OnDisk]
         /\ io'[w].pc = "gather" /\ io'[w].todo = Saved /\ io'[w].since = OnDisk
         /\ \A v \in Writers \ {w} : io'[v] = io[v]
         /\ UNCHANGED <<mem, received, file>>
<1> DEFINE new == [Idle EXCEPT !.pc = "gather", !.todo = Saved, !.since = OnDisk]
<1>1. ~Saving(w) /\ io' = [io EXCEPT ![w] = new] /\ UNCHANGED <<mem, received, file>>
  BY DEF BeginSave
<1>2. OnDisk \in Snapshot /\ \A s \in Saved : OnDisk[s] = mem[s] /\ mem[s] \in Nat
  BY OnDiskType, VersionType
<1>3. new \in IoType /\ new.pc = "gather" /\ new.todo = Saved /\ new.since = OnDisk
  BY <1>2, StateTypes DEF Idle, IoType
<1> HIDE DEF new
<1>4. io \in [Writers -> IoType]
  BY DEF SaveInv, TypeOKStateFile, IoType
<1>5. /\ io' \in [Writers -> IoType] /\ io'[w] = new
      /\ \A v \in Writers \ {w} : io'[v] = io[v]
  BY <1>1, <1>3, <1>4
<1>6. TypeOKStateFile'
  BY <1>1, <1>5 DEF SaveInv, TypeOKStateFile, IoType
<1>7. Between(w)'
  BY <1>1, <1>2, <1>3, <1>5 DEF Between
<1>8. \A v \in Writers \ {w} : Saving(v)' = Saving(v) /\ Between(v)' = Between(v)
  BY <1>1, <1>5 DEF Saving, Between
<1>9. SaveInv'
  BY <1>1, <1>3, <1>5, <1>6, <1>7, <1>8 DEF SaveInv, Saving
<1>10. w \notin SavingNow /\ SavingNow' = SavingNow \cup {w}
  BY <1>1, <1>3, <1>5, <1>8 DEF SavingNow, Saving
<1>11. SinceOf' = [SinceOf EXCEPT ![w] = OnDisk]
  BY <1>3, <1>5 DEF SinceOf
<1> QED BY <1>1, <1>3, <1>5, <1>9, <1>10, <1>11

\* What a save in progress reads, it reads from the registry of the moment.
LEMMA GatherSaveInv ==
  ASSUME SaveInv, NEW w \in Writers, NEW s \in Saved, Gather(w, s)
  PROVE  /\ SaveInv'
         /\ Saving(w) /\ SavingNow' = SavingNow /\ SinceOf' = SinceOf
         /\ io[w].pc = "gather" /\ io'[w].pc = "gather" /\ io'[w].clean = io[w].clean
         /\ io'[w].todo = io[w].todo \ {s} /\ io'[w].snap = [io[w].snap EXCEPT ![s] = mem[s]]
         /\ \A v \in Writers \ {w} : io'[v] = io[v]
         /\ UNCHANGED <<mem, received, file>>
<1>1. /\ io[w].pc = "gather" /\ UNCHANGED <<mem, received, file>>
      /\ io' = [io EXCEPT ![w].todo = @ \ {s}, ![w].snap[s] = mem[s]]
  BY DEF Gather
<1>2. io \in [Writers -> IoType] /\ io[w] \in IoType /\ mem[s] \in Version /\ mem[s] \in Nat
  BY OnDiskType, VersionType DEF SaveInv, TypeOKStateFile, IoType
<1>3. [io[w].snap EXCEPT ![s] = mem[s]] \in Snapshot
  BY <1>2 DEF IoType, Snapshot
<1>4. /\ io' \in [Writers -> IoType] /\ \A v \in Writers \ {w} : io'[v] = io[v]
      /\ io'[w].pc = "gather" /\ io'[w].clean = io[w].clean /\ io'[w].since = io[w].since
      /\ io'[w].todo = io[w].todo \ {s} /\ io'[w].snap = [io[w].snap EXCEPT ![s] = mem[s]]
  BY <1>1, <1>2, <1>3 DEF IoType
<1>5. TypeOKStateFile'
  BY <1>1, <1>4 DEF SaveInv, TypeOKStateFile, IoType
<1>6. Between(w)'
  <2>1. Between(w)
    BY <1>1 DEF SaveInv, Saving
  <2>2. io[w].snap \in [Saved -> Version]
    BY <1>2 DEF IoType, Snapshot
  <2> QED BY <1>1, <1>2, <1>4, <2>1, <2>2 DEF Between
<1>7. \A v \in Writers \ {w} : Saving(v)' = Saving(v) /\ Between(v)' = Between(v)
  BY <1>1, <1>4 DEF Saving, Between
<1>8. SaveInv'
  BY <1>1, <1>4, <1>5, <1>6, <1>7 DEF SaveInv, Saving
<1>9. SavingNow' = SavingNow /\ SinceOf' = SinceOf
  BY <1>1, <1>4, <1>7 DEF SavingNow, SinceOf, Saving
<1> QED BY <1>1, <1>4, <1>8, <1>9 DEF Saving

\* Writer w is done and the others go on, perhaps with an unclean file.
Done(w) ==
  /\ io' \in [Writers -> IoType]
  /\ io'[w] = Idle
  /\ \A v \in Writers \ {w} :
       /\ io'[v].pc = io[v].pc /\ io'[v].todo = io[v].todo
       /\ io'[v].snap = io[v].snap /\ io'[v].since = io[v].since
       /\ ~Saving(v) => io'[v] = io[v]

\* The end of a save, whatever it leaves in the file.
LEMMA DoneSaveInv ==
  ASSUME SaveInv, NEW w \in Writers, Done(w), UNCHANGED <<mem, received>>, file' \in Contents,
         file'.kind = "snapshot" => \A s \in Saved : file'.data[s] <= received
  PROVE  SaveInv' /\ SavingNow' = SavingNow \ {w} /\ SinceOf' = [SinceOf EXCEPT ![w] = NoData]
<1>1. TypeOKStateFile'
  BY DEF Done, SaveInv, TypeOKStateFile, IoType
<1>2. \A v \in Writers \ {w} : Saving(v)' = Saving(v) /\ Between(v)' = Between(v)
  BY DEF Done, Saving, Between
<1>3. ~Saving(w)' /\ io'[w].pc = "idle" /\ io'[w].since = NoData
  BY StateTypes DEF Done, Saving
<1>4. SaveInv'
  BY <1>1, <1>2, <1>3 DEF SaveInv, Done
<1>5. SavingNow' = SavingNow \ {w}
  BY <1>2, <1>3 DEF SavingNow
<1>6. SinceOf' = [SinceOf EXCEPT ![w] = NoData]
  BY <1>3 DEF SinceOf, Done
<1> QED BY <1>4, <1>5, <1>6

\* A save that finds nothing, or fails before its write, leaves the file alone.
LEMMA QuietEndSaveInv ==
  ASSUME SaveInv, NEW w \in Writers, SkipWrite(w) \/ FailBeforeWrite(w)
  PROVE  /\ SaveInv'
         /\ Saving(w) /\ Done(w)
         /\ SavingNow' = SavingNow \ {w} /\ SinceOf' = [SinceOf EXCEPT ![w] = NoData]
         /\ UNCHANGED <<mem, received, file>>
<1>1. Saving(w) /\ io' = [io EXCEPT ![w] = Idle] /\ UNCHANGED <<mem, received, file>>
  BY DEF SkipWrite, FailBeforeWrite, Saving
<1>2. io \in [Writers -> IoType]
  BY DEF SaveInv, TypeOKStateFile, IoType
<1>3. Done(w)
  BY <1>1, <1>2, StateTypes DEF Done
<1>4. file' \in Contents /\ (file'.kind = "snapshot" => \A s \in Saved : file'.data[s] <= received)
  BY <1>1 DEF SaveInv, TypeOKStateFile
<1> QED BY <1>1, <1>3, <1>4, DoneSaveInv

\* The file is emptied, and nothing else changes but the writer's step.
LEMMA TruncateSaveInv ==
  ASSUME SaveInv, NEW w \in Writers, Truncate(w)
  PROVE  /\ SaveInv'
         /\ Saving(w) /\ SavingNow' = SavingNow /\ SinceOf' = SinceOf
         /\ io[w].pc = "gather" /\ io[w].todo = {} /\ io[w].snap # NoData
         /\ io'[w].pc = "write" /\ io'[w].clean = TRUE
         /\ io'[w].todo = {} /\ io'[w].snap = io[w].snap
         /\ \A v \in Writers \ {w} : io'[v] = io[v]
         /\ file' = Unreadable
         /\ UNCHANGED <<mem, received>>
<1>1. /\ io[w].pc = "gather" /\ io[w].todo = {} /\ io[w].snap # NoData
      /\ file' = Unreadable /\ UNCHANGED <<mem, received>>
      /\ io' = [io EXCEPT ![w].pc = "write", ![w].clean = TRUE]
  BY DEF Truncate
<1>2. io \in [Writers -> IoType] /\ io[w] \in IoType
  BY DEF SaveInv, TypeOKStateFile, IoType
<1>3. /\ io' \in [Writers -> IoType] /\ \A v \in Writers \ {w} : io'[v] = io[v]
      /\ io'[w].pc = "write" /\ io'[w].clean = TRUE /\ io'[w].since = io[w].since
      /\ io'[w].todo = {} /\ io'[w].snap = io[w].snap
  BY <1>1, <1>2 DEF IoType
<1>4. file' \in Contents /\ file'.kind # "snapshot"
  BY <1>1, FileKinds DEF Contents
<1>5. TypeOKStateFile'
  BY <1>1, <1>3, <1>4 DEF SaveInv, TypeOKStateFile, IoType
<1>6. Between(w)'
  BY <1>1, <1>3 DEF SaveInv, Saving, Between
<1>7. \A v \in Writers \ {w} : Saving(v)' = Saving(v) /\ Between(v)' = Between(v)
  BY <1>1, <1>3 DEF Saving, Between
<1>8. SaveInv'
  BY <1>1, <1>3, <1>4, <1>5, <1>6, <1>7 DEF SaveInv, Saving
<1>9. SavingNow' = SavingNow /\ SinceOf' = SinceOf
  BY <1>1, <1>3, <1>7 DEF SavingNow, SinceOf, Saving
<1> QED BY <1>1, <1>3, <1>8, <1>9 DEF Saving

\* A write ends with the file as it was, broken, or with what the save has gathered,
\* which is from the time of the save.
LEMMA EndWriteSaveInv ==
  ASSUME SaveInv, NEW w \in Writers, NEW contents, EndWrite(w, contents),
         contents \subseteq {file, Unreadable, Holding(io[w].snap)}
  PROVE  /\ SaveInv'
         /\ Saving(w) /\ Done(w)
         /\ SavingNow' = SavingNow \ {w} /\ SinceOf' = [SinceOf EXCEPT ![w] = NoData]
         /\ io[w].pc = "write" /\ io[w].todo = {} /\ io[w].snap \in Snapshot
         /\ \A s \in Saved : io[w].since[s] <= io[w].snap[s] /\ io[w].snap[s] <= mem[s]
         /\ file' \in contents
         /\ \A v \in Writers \ {w} : io[v].pc = "write" => io'[v].clean = FALSE
         /\ UNCHANGED <<mem, received>>
<1>1. /\ io[w].pc = "write" /\ UNCHANGED <<mem, received>> /\ file' \in contents
      /\ io' = [v \in Writers |-> IF v = w THEN Idle ELSE [io[v] EXCEPT !.clean = FALSE]]
  BY DEF EndWrite
<1>2. io \in [Writers -> IoType] /\ io[w] \in IoType
  BY DEF SaveInv, TypeOKStateFile, IoType
<1>3. \A v \in Writers \ {w} : io'[v] = [io[v] EXCEPT !.clean = FALSE] /\ io'[v].clean = FALSE
  BY <1>1, <1>2 DEF IoType
<1>4. io'[w] = Idle /\ io' \in [Writers -> IoType]
  BY <1>1, <1>2, StateTypes DEF IoType
<1>5. ASSUME NEW v \in Writers \ {w}, ~Saving(v) PROVE io'[v] = io[v]
  <2>1. io[v] = Idle
    BY <1>5 DEF SaveInv
  <2> QED BY <1>3, <2>1 DEF Idle
<1>6. Done(w)
  BY <1>2, <1>3, <1>4, <1>5 DEF Done, IoType
<1>7. /\ io[w].todo = {} /\ io[w].snap \in Snapshot
      /\ \A s \in Saved : io[w].since[s] <= io[w].snap[s] /\ io[w].snap[s] <= mem[s]
  BY <1>1, <1>2 DEF SaveInv, Saving, Between, IoType
<1>8. file' = file \/ file' = Unreadable \/ file' = Holding(io[w].snap)
  BY <1>1
<1>9. file' \in Contents
  BY <1>7, <1>8 DEF Contents, SaveInv, TypeOKStateFile
<1>10. ASSUME file'.kind = "snapshot", NEW s \in Saved PROVE file'.data[s] <= received
  <2>1. CASE file' = file
    BY <1>10, <2>1 DEF SaveInv
  <2>2. CASE file' = Holding(io[w].snap)
    <3>1. io[w].snap[s] \in Nat /\ mem[s] \in Nat /\ received \in Nat /\ s \in Series
      BY <1>7, VersionType, OnDiskType, StateTypes DEF Snapshot, SaveInv, TypeOKStateFile
    <3> QED BY <1>7, <2>2, <3>1, FileKinds DEF SaveInv
  <2> QED BY <1>8, <1>10, <2>1, <2>2, FileKinds
<1> QED BY <1>1, <1>3, <1>6, <1>7, <1>9, <1>10, DoneSaveInv DEF Saving

\* A write that succeeds.
LEMMA WriteSaveInv ==
  ASSUME SaveInv, NEW w \in Writers, Write(w)
  PROVE  /\ SaveInv'
         /\ Saving(w) /\ Done(w)
         /\ SavingNow' = SavingNow \ {w} /\ SinceOf' = [SinceOf EXCEPT ![w] = NoData]
         /\ io[w].pc = "write" /\ io[w].todo = {} /\ io[w].snap \in Snapshot
         /\ \A s \in Saved : io[w].since[s] <= io[w].snap[s] /\ io[w].snap[s] <= mem[s]
         /\ file' = Holding(io[w].snap) \/ (~io[w].clean /\ file' = Unreadable)
         /\ \A v \in Writers \ {w} : io[v].pc = "write" => io'[v].clean = FALSE
         /\ UNCHANGED <<mem, received>>
<1> DEFINE contents == {Holding(io[w].snap)} \cup IF io[w].clean THEN {} ELSE {Unreadable}
<1>1. EndWrite(w, contents)
  BY DEF Write
<1>2. contents \subseteq {file, Unreadable, Holding(io[w].snap)}
  OBVIOUS
<1>3. file' \in contents => file' = Holding(io[w].snap) \/ (~io[w].clean /\ file' = Unreadable)
  OBVIOUS
<1> HIDE DEF contents
<1> QED BY <1>1, <1>2, <1>3, EndWriteSaveInv

\* A save that fails ends, too: before its write, with the file as it was, or with it.
LEMMA FailureSaveInv ==
  ASSUME SaveInv, NEW w \in Writers, SaveFailure(w)
  PROVE  /\ SaveInv'
         /\ Saving(w) /\ Done(w)
         /\ SavingNow' = SavingNow \ {w} /\ SinceOf' = [SinceOf EXCEPT ![w] = NoData]
         /\ io[w].pc = "write" => io[w].todo = {} /\ io[w].snap \in Snapshot
         /\ io[w].pc = "write" =>
              \A s \in Saved : io[w].since[s] <= io[w].snap[s] /\ io[w].snap[s] <= mem[s]
         /\ \/ file' = file
            \/ io[w].pc = "write" /\ (file' = Unreadable \/ file' = Holding(io[w].snap))
         /\ io[w].pc = "gather" =>
              UNCHANGED file /\ \A v \in Writers \ {w} : io'[v] = io[v]
         /\ UNCHANGED <<mem, received>>
<1>1. CASE FailBeforeWrite(w)
  <2>1. io[w].pc = "gather" /\ io' = [io EXCEPT ![w] = Idle]
    BY <1>1 DEF FailBeforeWrite
  <2>2. \A v \in Writers \ {w} : io'[v] = io[v]
    BY <2>1 DEF SaveInv, TypeOKStateFile
  <2> QED BY <1>1, <2>1, <2>2, QuietEndSaveInv
<1>2. CASE FailWrite(w)
  <2> DEFINE contents == {file, Unreadable, Holding(io[w].snap)}
  <2>1. EndWrite(w, contents)
    BY <1>2 DEF FailWrite
  <2>2. file' \in contents => file' = file \/ file' = Unreadable \/ file' = Holding(io[w].snap)
    OBVIOUS
  <2>3. contents \subseteq {file, Unreadable, Holding(io[w].snap)}
    OBVIOUS
  <2> HIDE DEF contents
  <2> QED BY <2>1, <2>2, <2>3, EndWriteSaveInv
<1> QED BY <1>1, <1>2 DEF SaveFailure

\* All that a step of a save does.
LEMMA SaveStepInv ==
  ASSUME SaveInv, NEW w \in Writers, SaveStep(w) \/ SaveFailure(w)
  PROVE  SaveInv' /\ UNCHANGED <<mem, received>>
BY GatherSaveInv, QuietEndSaveInv, TruncateSaveInv, WriteSaveInv, FailureSaveInv DEF SaveStep

\* A process starts with the saved part of the file, or with nothing.
LEMMA LoadSaveInv ==
  ASSUME SaveInv, SavingNow = {}, LoadState
  PROVE  /\ SaveInv'
         /\ OnDisk' = IF file.kind = "snapshot" THEN file.data ELSE NoData
         /\ SavingNow' = SavingNow /\ SinceOf' = SinceOf
         /\ UNCHANGED <<received, file, io>>
<1>1. /\ UNCHANGED <<received, file, io>>
      /\ mem' = IF file.kind = "snapshot"
                THEN [s \in Series |-> IF s \in Saved THEN file.data[s] ELSE 0] ELSE NoSeries
  BY DEF LoadState
<1>2. file.kind = "snapshot" => /\ file.data \in [Saved -> Version]
                               /\ \A s \in Saved : file.data[s] <= received
  BY FileKinds DEF SaveInv, TypeOKStateFile, Snapshot
<1>3. received \in Nat /\ 0 <= received
  BY VersionType DEF SaveInv, TypeOKStateFile
<1>4. mem' \in [Series -> Version] /\ \A s \in Series : mem'[s] <= received
  <2>1. CASE file.kind = "snapshot"
    BY <1>1, <1>2, <1>3, <2>1, StateTypes
  <2>2. CASE file.kind # "snapshot"
    BY <1>1, <1>3, <2>2, StateTypes DEF NoSeries
  <2> QED BY <2>1, <2>2
<1>5. \A w \in Writers : ~Saving(w) /\ ~Saving(w)'
  BY <1>1 DEF SavingNow, Saving
<1>6. SaveInv'
  BY <1>1, <1>4, <1>5 DEF SaveInv, TypeOKStateFile, Saving
<1>7. OnDisk' = IF file.kind = "snapshot" THEN file.data ELSE NoData
  <2>1. CASE file.kind = "snapshot"
    BY <1>1, <1>2, <2>1, StateTypes DEF OnDisk
  <2>2. CASE file.kind # "snapshot"
    BY <1>1, <2>2, StateTypes DEF OnDisk, NoSeries, NoData
  <2> QED BY <2>1, <2>2
<1> QED BY <1>1, <1>6, <1>7 DEF SavingNow, SinceOf, Saving

\* The end of a process stops every save.
LEMMA LoseMemorySaveInv ==
  ASSUME SaveInv, LoseMemory
  PROVE  /\ SaveInv'
         /\ OnDisk' = NoData /\ SavingNow' = {} /\ SinceOf' = [w \in Writers |-> NoData]
         /\ \A w \in Writers : io'[w] = Idle
         /\ UNCHANGED <<received, file>>
<1>1. mem' = NoSeries /\ io' = [w \in Writers |-> Idle] /\ UNCHANGED <<received, file>>
  BY DEF LoseMemory
<1>2. io' \in [Writers -> IoType] /\ \A w \in Writers : io'[w] = Idle /\ ~Saving(w)'
  BY <1>1, StateTypes DEF Saving
<1>3. received \in Nat
  BY VersionType DEF SaveInv, TypeOKStateFile
<1>4. mem' \in [Series -> Version] /\ \A s \in Series : mem'[s] <= received
  BY <1>1, <1>3, StateTypes DEF NoSeries
<1>5. TypeOKStateFile'
  BY <1>1, <1>2, <1>4 DEF SaveInv, TypeOKStateFile, IoType
<1>6. SaveInv'
  BY <1>1, <1>2, <1>4, <1>5, StateTypes DEF SaveInv
<1>7. OnDisk' = NoData
  BY <1>1, StateTypes DEF OnDisk, NoSeries, NoData
<1> QED BY <1>1, <1>2, <1>6, <1>7, StateTypes DEF SavingNow, SinceOf

-----------------------------------------------------------------------------
(* What DurableStore sees of the steps. *)

\* A file without a snapshot, as DurableStore sees it.
Nothing == [kind |-> "nothing"]

\* It sees a snapshot, or nothing.
LEMMA ContentKinds ==
  /\ file.kind = "snapshot" => Content = file
  /\ file.kind # "snapshot" => Content = Nothing
  /\ Nothing.kind # "snapshot"
BY DEF Content, Nothing

\* What it sees changes with the file, the registry and the savers only.
LEMMA StoreStays ==
  /\ UNCHANGED mem => OnDisk' = OnDisk
  /\ UNCHANGED file => Content' = Content
  /\ UNCHANGED io => SavingNow' = SavingNow /\ SinceOf' = SinceOf
BY DEF OnDisk, Content, SavingNow, SinceOf, Saving

\* A message makes what is live newer.
LEMMA AbsorbStore ==
  ASSUME SaveInv, NEW written, Absorb(written)
  PROVE  /\ OnDisk' \in Snapshot /\ \A s \in Saved : OnDisk[s] <= OnDisk'[s]
         /\ UNCHANGED <<Content, SavingNow, SinceOf>>
<1>1. /\ SaveInv' /\ UNCHANGED <<file, io>>
      /\ \A s \in Series : mem[s] <= mem'[s]
  BY AbsorbSaveInv
<1>2. OnDisk' \in Snapshot
  BY <1>1, StateTypes DEF SaveInv, TypeOKStateFile, OnDisk, Snapshot
<1> QED BY <1>1, <1>2, StateTypes, StoreStays DEF OnDisk

\* A save in progress may replace what is on disk by nothing.
DamageStep(w) ==
  /\ w \in SavingNow
  /\ Content' = Nothing
  /\ UNCHANGED <<SavingNow, SinceOf>>

\* It ends, with what was live meanwhile, with nothing, or with what was there.
FinishStep(w) ==
  /\ w \in SavingNow
  /\ SavingNow' = SavingNow \ {w}
  /\ SinceOf' = [SinceOf EXCEPT ![w] = NoData]
  /\ \/ \E d \in Snapshot :
          /\ \A s \in Saved : SinceOf[w][s] <= d[s] /\ d[s] <= OnDisk[s]
          /\ Content' = Holding(d)
     \/ Content' = Nothing
     \/ Content' = Content

\* Every step of a save is one of these, or is not seen.
LEMMA SaveStepStore ==
  ASSUME SaveInv, NEW w \in Writers, SaveStep(w) \/ SaveFailure(w)
  PROVE  /\ OnDisk' = OnDisk
         /\ \/ UNCHANGED <<Content, SavingNow, SinceOf>>
            \/ DamageStep(w)
            \/ FinishStep(w)
<1>1. CASE \E s \in Saved : Gather(w, s)
  BY <1>1, GatherSaveInv, StoreStays
<1>2. CASE SkipWrite(w)
  <2>1. FinishStep(w)
    BY <1>2, QuietEndSaveInv, StoreStays DEF FinishStep, SavingNow
  <2> QED BY <1>2, <2>1, QuietEndSaveInv, StoreStays
<1>3. CASE Truncate(w)
  <2>1. file'.kind # "snapshot"
    BY <1>3, TruncateSaveInv, FileKinds
  <2>2. Content' = Nothing
    BY <2>1 DEF Content, Nothing
  <2>3. DamageStep(w)
    BY <1>3, <2>2, TruncateSaveInv DEF DamageStep, SavingNow
  <2> QED BY <1>3, <2>3, TruncateSaveInv, StoreStays
<1>4. CASE Write(w) \/ SaveFailure(w)
  <2>1. /\ w \in SavingNow /\ SavingNow' = SavingNow \ {w}
        /\ SinceOf' = [SinceOf EXCEPT ![w] = NoData] /\ UNCHANGED mem
    BY <1>4, WriteSaveInv, FailureSaveInv DEF SavingNow
  <2>2. CASE io[w].pc = "write" /\ file' = Holding(io[w].snap)
    <3>1. Content' = Holding(io[w].snap)
      BY <2>2, FileKinds DEF Content
    <3>2. io[w].snap \in Snapshot /\ \A s \in Saved : SinceOf[w][s] <= io[w].snap[s] /\ io[w].snap[s] <= OnDisk[s]
      BY <1>4, <2>2, WriteSaveInv, FailureSaveInv DEF SinceOf, OnDisk
    <3>3. FinishStep(w)
      BY <2>1, <3>1, <3>2 DEF FinishStep
    <3> QED BY <2>1, <3>3, StoreStays
  <2>3. CASE file' = Unreadable
    <3>1. Content' = Nothing
      BY <2>3, FileKinds DEF Content, Nothing
    <3>2. FinishStep(w)
      BY <2>1, <3>1 DEF FinishStep
    <3> QED BY <2>1, <3>2, StoreStays
  <2>4. CASE file' = file
    <3>1. FinishStep(w)
      BY <2>1, <2>4, StoreStays DEF FinishStep
    <3> QED BY <2>1, <3>1, StoreStays
  <2> QED BY <1>4, <2>2, <2>3, <2>4, WriteSaveInv, FailureSaveInv
<1> QED BY <1>1, <1>2, <1>3, <1>4 DEF SaveStep
=============================================================================
