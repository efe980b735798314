---------------------- MODULE BronzeMaintenance_proofs ----------------------
(***************************************************************************)
(* Theorems about bronze and its maintenance, for any number of crashes    *)
(* and runs of maintain_tables.py, wherever those are killed.  Three       *)
(* inductive invariants, each on top of the one before: where the data     *)
(* files are (FileInv), that expiry never takes the newest epoch stamp     *)
(* (StampInv), and what the current files hold (TableFiles).  With the     *)
(* second a maintained table is, to its stream, one nobody maintains: the  *)
(* refinement of BronzeStream.  The first two are for any number of        *)
(* drivers; what the files hold is counted for one, which appends no       *)
(* record twice.                                                           *)
(***************************************************************************)
EXTENDS Observation, BronzeStream_proofs, SequenceTheorems

(* Names are given out once, and a file has finitely many rows. *)
FilesNamed == \A f \in objects : f.name <= written /\ IsFiniteSet(f.rows)

SnapshotsFinite == \A i \in 1..Len(history) : IsFiniteSet(history[i].files)

(* A file in flight is in the object store, young, and its driver's alone. *)
InFlight ==
    \A d \in Drivers : \A f \in pending[d] :
        /\ f \in objects /\ f \notin Referenced
        /\ f.at <= clock /\ clock <= f.at + CommitTime
        /\ \A e \in Drivers : f \in pending[e] => e = d
        /\ upkeep.step = "replace" => f \notin upkeep.output

(* One file at most: it is there only while its driver writes.             *)
OneInFlight ==
    \A d \in Drivers : \A f \in pending[d] :
        /\ running[d] = "writing" /\ pending[d] = {f}
        /\ f.rows = staged[d] \X {f.name}

(* The output of a compaction waits in the object store; what was appended *)
(* after the metadata was listed is younger than any orphan.               *)
UpkeepSafe ==
    /\ upkeep.started <= clock
    /\ upkeep.step = "replace" => /\ upkeep.output \subseteq objects
                                  /\ \E f : upkeep.output = {f}
    /\ upkeep.step = "delete" =>
           \A f \in Referenced : f \in upkeep.files \/ f.at >= upkeep.started - OrphanAge

FileInv == /\ CheckpointInv
           /\ MaintenanceTypeOK
           /\ \A p \in Partitions : Len(log[p]) <= MaxLog
           /\ \A d \in Drivers : IsFiniteSet(staged[d])
           /\ FilesNamed
           /\ SnapshotsFinite
           /\ LiveFilesExist
           /\ InFlight
           /\ OneInFlight
           /\ UpkeepSafe

-----------------------------------------------------------------------------
(* Lemmas about the snapshots of a table.                                  *)

(* The numbers the maintenance is configured with. *)
LEMMA UpkeepSettings ==
    /\ RETAIN_LAST_SNAPSHOTS \in Nat /\ RETAIN_LAST_SNAPSHOTS >= 1
    /\ MIN_INPUT_FILES \in Nat /\ MIN_INPUT_FILES >= 2
    /\ SnapshotAge \in Nat /\ OrphanAge \in Nat /\ CommitTime \in Nat /\ CommitTime <= OrphanAge
    /\ MaxLog \in Nat /\ IsFiniteSet(Partitions)
BY MaintenanceAssumption, TopicAssumption

(* The current files are referenced, and referenced files are files. *)
LEMMA CurrentReferenced ==
    ASSUME history \in Seq(Snapshot)
    PROVE  /\ Len(history) \in Nat
           /\ Current \subseteq Referenced /\ Referenced \subseteq DataFile
           /\ \A i \in 1..Len(history) : history[i] \in Snapshot
           /\ history # <<>> => Len(history) >= 1 /\ Current = history[Len(history)].files
           /\ history = <<>> => Len(history) = 0 /\ Current = {} /\ Referenced = {}
<1>1. Len(history) \in Nat /\ \A i \in 1..Len(history) : history[i] \in Snapshot
  OBVIOUS
<1>2. history # <<>> => Len(history) >= 1
  <2> SUFFICES ASSUME history # <<>> PROVE Len(history) >= 1
    OBVIOUS
  <2> QED BY <1>1, EmptySeq
<1>3. Referenced \subseteq DataFile
  BY <1>1 DEF Referenced, Snapshot
<1>4. CASE history = <<>>
  BY <1>1, <1>3, <1>4 DEF Current, Referenced
<1>5. CASE history # <<>>
  <2>1. Len(history) \in 1..Len(history) /\ Current = history[Len(history)].files
    BY <1>1, <1>2, <1>5 DEF Current
  <2> QED BY <1>1, <1>2, <1>3, <1>5, <2>1 DEF Referenced
<1> QED BY <1>4, <1>5

(* A commit adds one snapshot, and with it references to its files. *)
LEMMA Committed ==
    ASSUME history \in Seq(Snapshot), clock \in Nat, NEW F \in SUBSET DataFile,
           NEW stamp \in {<<>>} \cup (Nat \X Nat), NEW op \in {"append", "rewrite", "manifests"},
           history' = NewSnapshot(F, stamp, op)
    PROVE  /\ history' \in Seq(Snapshot) /\ history' # <<>>
           /\ Len(history') = Len(history) + 1
           /\ \A i \in 1..Len(history) : history'[i] = history[i]
           /\ history'[Len(history')] = [files |-> F, at |-> clock, stamp |-> stamp, op |-> op]
           /\ Current' = F
           /\ Referenced' = Referenced \cup F
<1> DEFINE s == [files |-> F, at |-> clock, stamp |-> stamp, op |-> op]
<1>1. s \in Snapshot
  BY DEF Snapshot
<1>2. history' = Append(history, s)
  BY DEF NewSnapshot
<1> HIDE DEF s
<1>3. /\ history' \in Seq(Snapshot) /\ history' # <<>>
      /\ Len(history') = Len(history) + 1
      /\ \A i \in 1..Len(history) : history'[i] = history[i]
      /\ history'[Len(history)+1] = s
  BY <1>1, <1>2, AppendProperties
<1>4. Len(history) \in Nat
  OBVIOUS
<1>5. s.files = F
  BY DEF s
<1>6. Current' = F
  BY <1>3, <1>5 DEF Current
<1>7. Referenced' = Referenced \cup F
  <2>1. ASSUME NEW f \in Referenced' PROVE f \in Referenced \cup F
    <3>1. PICK i \in 1..Len(history') : f \in history'[i].files
      BY <2>1 DEF Referenced
    <3>2. CASE i \in 1..Len(history)
      BY <1>3, <3>1, <3>2 DEF Referenced
    <3>3. CASE i = Len(history) + 1
      BY <1>3, <1>5, <3>1, <3>3
    <3> QED BY <1>3, <1>4, <3>2, <3>3
  <2>2. ASSUME NEW f \in Referenced PROVE f \in Referenced'
    <3>1. PICK i \in 1..Len(history) : f \in history[i].files
      BY <2>2 DEF Referenced
    <3>2. i \in 1..Len(history') /\ history'[i] = history[i]
      BY <1>3, <1>4
    <3> QED BY <3>1, <3>2 DEF Referenced
  <2>3. ASSUME NEW f \in F PROVE f \in Referenced'
    <3>1. Len(history) + 1 \in 1..Len(history')
      BY <1>3, <1>4
    <3> QED BY <1>3, <1>5, <2>3, <3>1 DEF Referenced
  <2> QED BY <2>1, <2>2, <2>3
<1> QED BY <1>3, <1>6, <1>7 DEF s

(* What expiry keeps is an end of the history, with at least the snapshots *)
(* of the floor.                                                           *)
LEMMA KeepsTheEnd ==
    ASSUME history \in Seq(Snapshot), history # <<>>
    PROVE  \E m \in 1..Len(history) :
              /\ Retained \in Seq(Snapshot)
              /\ Len(Retained) = Len(history) - m + 1
              /\ \A i \in 1..Len(Retained) : Retained[i] = history[i + m - 1]
              /\ \A i \in 1..Len(history) : i > Len(history) - RETAIN_LAST_SNAPSHOTS => m <= i
<1> DEFINE n == Len(history)
           young == { i \in 1..Len(history) : history[i].at >= upkeep.started - SnapshotAge }
           kept == young \cup LastSnapshots
<1>1. n \in Nat /\ n >= 1
  BY CurrentReferenced
<1>2. n \in LastSnapshots
  BY <1>1, UpkeepSettings DEF LastSnapshots
<1>3. kept \subseteq 1..n /\ n \in kept
  BY <1>2 DEF LastSnapshots
<1>4. Retained = SubSeq(history, Min(kept), n)
  BY <1>2 DEF Retained
<1>5. \A i \in 1..n : i > n - RETAIN_LAST_SNAPSHOTS => i \in kept
  BY DEF LastSnapshots
<1> HIDE DEF kept
<1>6. Min(kept) \in kept /\ \A i \in kept : Min(kept) <= i
  <2>1. kept \in SUBSET Nat /\ kept # {}
    BY <1>1, <1>3
  <2>2. \E x \in kept : \A y \in kept : x <= y
    BY <2>1, LeastNumber
  <2> QED BY <2>2 DEF Min
<1>7. Min(kept) \in 1..n
  BY <1>3, <1>6
<1> DEFINE m == Min(kept)
<1> HIDE DEF m
<1>8. m \in 1..n /\ Retained = SubSeq(history, m, n)
  BY <1>4, <1>7 DEF m
<1>9. /\ Retained \in Seq(Snapshot)
      /\ Len(Retained) = n - m + 1
      /\ \A i \in 1..(n - m + 1) : Retained[i] = history[m + i - 1]
  <2>1. m \in 1..(Len(history) + 1) /\ n \in m - 1 .. Len(history) /\ m <= n
    BY <1>1, <1>8
  <2> QED BY <1>8, <2>1, SubSeqProperties
<1>10. \A i \in 1..Len(Retained) : Retained[i] = history[i + m - 1]
  BY <1>1, <1>8, <1>9
<1>11. \A i \in 1..n : i > n - RETAIN_LAST_SNAPSHOTS => m <= i
  BY <1>5, <1>6 DEF m
<1> QED BY <1>8, <1>9, <1>10, <1>11

(* A look back stops at the last snapshot with a stamp. *)
LEMMA NewestStampIs ==
    ASSUME NEW h \in Seq(Snapshot)
    PROVE  /\ NewestStamp(h) \in Nat \X Nat
           /\ (\A i \in 1..Len(h) : h[i].stamp = <<>>) => NewestStamp(h) = NoStamp
           /\ \A i \in 1..Len(h) :
                 h[i].stamp # <<>> /\ (\A j \in 1..Len(h) : j > i => h[j].stamp = <<>>)
                     => NewestStamp(h) = h[i].stamp
<1> DEFINE stamped == { i \in 1..Len(h) : h[i].stamp # <<>> }
<1>1. Len(h) \in Nat /\ \A i \in 1..Len(h) : h[i] \in Snapshot
  OBVIOUS
<1>2. NewestStamp(h) = IF stamped = {} THEN NoStamp ELSE h[Max(stamped)].stamp
  BY DEF NewestStamp
<1>3. NoStamp \in Nat \X Nat
  BY DEF NoStamp
<1>4. \A i \in stamped : i \in 1..Len(h) /\ h[i].stamp # <<>> /\ h[i].stamp \in Nat \X Nat
  BY <1>1 DEF Snapshot
<1>5. \A i \in 1..Len(h) : h[i].stamp # <<>> => i \in stamped
  OBVIOUS
<1> HIDE DEF stamped
<1>6. CASE stamped = {}
  BY <1>2, <1>3, <1>5, <1>6
<1>7. CASE stamped # {}
  <2>1. stamped \in SUBSET Int /\ Len(h) \in Int /\ \A i \in stamped : i <= Len(h)
    BY <1>1, <1>4
  <2>2. \E x \in stamped : \A y \in stamped : x >= y
    BY <1>7, <2>1, GreatestNumber
  <2>3. Max(stamped) \in stamped /\ \A y \in stamped : Max(stamped) >= y
    BY <2>2 DEF Max
  <2> DEFINE m == Max(stamped)
  <2>4. m \in stamped /\ NewestStamp(h) = h[m].stamp /\ \A y \in stamped : m >= y
    BY <1>2, <1>7, <2>3
  <2> HIDE DEF m
  <2>5. ASSUME NEW i \in 1..Len(h), h[i].stamp # <<>>,
               \A j \in 1..Len(h) : j > i => h[j].stamp = <<>>
        PROVE  i = m
    <3>1. i \in stamped /\ m \in 1..Len(h) /\ h[m].stamp # <<>> /\ m >= i
      BY <1>4, <1>5, <2>4, <2>5
    <3>2. ~(m > i)
      BY <2>5, <3>1
    <3> QED BY <1>1, <3>1, <3>2
  <2> QED BY <1>4, <2>4, <2>5
<1> QED BY <1>6, <1>7

-----------------------------------------------------------------------------
(* Where the files are: the steps of the stream.                           *)

(* A range that is read is a finite set of rows. *)
LEMMA RangeRows ==
    ASSUME CheckpointInv, \A p \in Partitions : Len(log[p]) <= MaxLog,
           NEW q \in Plan, Planned(q)
    PROVE  ReadRange(q) \subseteq StagedRow /\ IsFiniteSet(ReadRange(q))
<1>1. ASSUME NEW c \in ReadRange(q)
      PROVE  /\ c \in StagedRow /\ c.o \in 0..MaxLog
             /\ c = [p |-> c.p, o |-> c.o, frame |-> log[c.p][c.o + 1], at |-> q.at]
  <2>1. PICK p \in Partitions :
          \E o \in q.from[p]..(q.to[p] - 1) :
            c = [p |-> p, o |-> o, frame |-> log[p][o + 1], at |-> q.at]
    BY DEF ReadRange
  <2>2. PICK o \in q.from[p]..(q.to[p] - 1) :
          c = [p |-> p, o |-> o, frame |-> log[p][o + 1], at |-> q.at]
    BY <2>1
  <2>3. q.from[p] \in Nat /\ q.to[p] \in Nat /\ q.at \in Nat
    BY DEF Plan, Offsets
  <2>4. log[p] \in Seq(Frame) /\ q.to[p] <= Len(log[p]) /\ Len(log[p]) <= MaxLog /\ Len(log[p]) \in Nat
    BY DEF CheckpointInv, TopicTypeOK, Planned
  <2>5. o \in 0..MaxLog /\ o + 1 \in 1..Len(log[p])
    BY <2>3, <2>4, UpkeepSettings
  <2>6. log[p][o + 1] \in Frame
    BY <2>4, <2>5
  <2> QED BY <2>2, <2>3, <2>5, <2>6 DEF StagedRow
<1> DEFINE places == Partitions \X (0..MaxLog)
           place == [c \in ReadRange(q) |-> <<c.p, c.o>>]
<1>2. place \in [ReadRange(q) -> places]
  BY <1>1 DEF StagedRow
<1>3. \A b, c \in ReadRange(q) : place[b] = place[c] => b = c
  BY <1>1
<1>4. place \in Injection(ReadRange(q), places)
  BY <1>2, <1>3 DEF Injection, IsInjective
<1>5. IsFiniteSet(places)
  <2>1. IsFiniteSet(0..MaxLog)
    BY UpkeepSettings, FS_Interval
  <2> QED BY <2>1, UpkeepSettings, FS_Product
<1>6. IsFiniteSet(ReadRange(q))
  <2> HIDE DEF place, places
  <2> QED BY <1>4, <1>5, FS_Injection
<1> QED BY <1>1, <1>6

(* The types that FileInv gives. *)
LEMMA FileTypes ==
    ASSUME FileInv
    PROVE  /\ TopicTypeOK /\ QueryTypeOK /\ BronzeTypeOK
           /\ clock \in Nat /\ written \in Nat /\ objects \subseteq DataFile
           /\ history \in Seq(Snapshot)
           /\ pending \in [Drivers -> SUBSET DataFile]
           /\ running \in [Drivers -> DriverStates] /\ current \in [Drivers -> Plan]
           /\ staged \in [Drivers -> SUBSET StagedRow] /\ sink \in [Drivers -> SinkStates]
           /\ upkeep \in Upkeep /\ upkeep.started \in Nat /\ upkeep.before \in Nat
           /\ upkeep.files \subseteq DataFile /\ upkeep.output \subseteq DataFile
           /\ upkeeps \in Nat /\ verdict \in {"none", "pass", "fail"}
           /\ Referenced \subseteq objects /\ Current \subseteq Referenced
           /\ \A f \in objects : f.name \in Nat /\ f.at \in Nat /\ f.rows \subseteq StagedRow \X Nat
<1>1. /\ TopicTypeOK /\ QueryTypeOK /\ BronzeTypeOK /\ written \in Nat /\ objects \subseteq DataFile
      /\ history \in Seq(Snapshot) /\ pending \in [Drivers -> SUBSET DataFile]
      /\ upkeep \in Upkeep /\ upkeeps \in Nat /\ verdict \in {"none", "pass", "fail"}
      /\ Referenced \subseteq objects
  BY DEF FileInv, MaintenanceTypeOK, TypeOK, LiveFilesExist
<1>2. Current \subseteq Referenced
  BY <1>1, CurrentReferenced
<1> QED BY <1>1, <1>2 DEF TopicTypeOK, QueryTypeOK, BronzeTypeOK, Upkeep, DataFile

(* The clock waits for a file on its way. *)
LEMMA WorldKeepsFiles ==
    ASSUME FileInv, World
    PROVE  FileInv'
<1> USE DEF bronzeVars, queryVars, checkpointVars, driverVars, fileVars, upkeepVars
<1>1. CheckpointInv' /\ clock <= clock' /\ clock' \in Nat
  <2>1. CheckpointInv'
    BY TopicKeepsCheckpoint DEF FileInv, World
  <2> QED BY <2>1, LogGrows DEF FileInv, CheckpointInv, TopicTypeOK, World
<1>2. MaintenanceTypeOK'
  BY <1>1 DEF FileInv, MaintenanceTypeOK, TypeOK, CheckpointInv, BronzeTypeOK, World
<1>3. ASSUME NEW p \in Partitions PROVE Len(log'[p]) <= MaxLog
  <2>1. CASE \E q \in Partitions, f \in Frame : Publish(q, f)
    <3>1. PICK q \in Partitions, f \in Frame : Publish(q, f)
      BY <2>1
    <3>2. log[p] \in Seq(Frame) /\ log \in [Partitions -> Seq(Frame)] /\ Len(log[p]) <= MaxLog
      BY DEF FileInv, CheckpointInv, TopicTypeOK
    <3>3. CASE p = q
      <4>1. log'[p] = Append(log[p], f) /\ Len(log[p]) < MaxLog
        BY <3>1, <3>2, <3>3 DEF Publish
      <4> QED BY <3>2, <4>1, UpkeepSettings
    <3>4. CASE p # q
      BY <3>1, <3>2, <3>4 DEF Publish
    <3> QED BY <3>3, <3>4
  <2>2. CASE UNCHANGED log
    BY <2>2 DEF FileInv
  <2> QED BY <2>1, <2>2 DEF World, TopicNext, Expire, Tick
<1>4. UNCHANGED <<objects, written, history, pending, upkeep, running, staged>>
  BY DEF World
<1>5. Referenced' = Referenced
  BY <1>4 DEF Referenced
<1>6. InFlight'
  <2>1. ASSUME NEW d \in Drivers, NEW f \in pending[d]
        PROVE  f.at <= clock' /\ clock' <= f.at + CommitTime
    <3>1. f.at \in Nat /\ clock \in Nat /\ f.at <= clock /\ clock <= f.at + CommitTime
      BY FileTypes DEF FileInv, InFlight
    <3>2. clock' = clock \/ (clock' = clock + 1 /\ clock < f.at + CommitTime)
      BY DEF World, TopicNext, Publish, Expire, Tick
    <3> QED BY <1>1, <3>1, <3>2, UpkeepSettings
  <2> QED BY <1>4, <1>5, <2>1 DEF FileInv, InFlight
<1>7. UpkeepSafe'
  <2>1. upkeep.started \in Nat /\ clock \in Nat /\ upkeep.started <= clock
    BY FileTypes DEF FileInv, UpkeepSafe
  <2>2. upkeep.started <= clock'
    BY <1>1, <2>1
  <2> QED BY <1>4, <1>5, <2>2 DEF FileInv, UpkeepSafe
<1> QED BY <1>1, <1>2, <1>3, <1>4, <1>5, <1>6, <1>7
        DEF FileInv, FilesNamed, SnapshotsFinite, LiveFilesExist, OneInFlight

(* A driver that starts or plans has no file in flight before or after,    *)
(* and one that looks for its epoch keeps the one it has.                  *)
LEMMA ProceedKeepsFiles ==
    ASSUME FileInv, Proceed
    PROVE  FileInv'
<1> USE DEF bronzeVars, fileVars, upkeepVars
<1>1. PICK d \in Drivers : Start(d) \/ Trigger(d) \/ LookUpEpoch(d)
  BY DEF Proceed
<1>2. CheckpointInv'
  BY <1>1, StartKeeps, PlanKeeps, CheckpointKept DEF FileInv, Start, Trigger, LookUpEpoch
<1>3. /\ UNCHANGED <<objects, written, history, pending, upkeep, upkeeps, verdict, log, low, clock,
                     bronze, lastStamp, appends, staged>>
      /\ sink' \in [Drivers -> SinkStates]
  BY <1>1, FileTypes DEF Proceed, Start, Trigger, LookUpEpoch, SinkStates, topicVars
<1>4. MaintenanceTypeOK'
  BY <1>2, <1>3 DEF FileInv, MaintenanceTypeOK, TypeOK, CheckpointInv, BronzeTypeOK
<1>5. Referenced' = Referenced
  BY <1>3 DEF Referenced
<1>6. \A e \in Drivers : running[e] = "writing" => running'[e] = "writing"
  BY <1>1, FileTypes DEF Start, Trigger, LookUpEpoch, StartDriver, PlanBatch, StopDriver,
     queryVars, driverVars
<1>7. OneInFlight'
  BY <1>3, <1>6 DEF FileInv, OneInFlight
<1> QED BY <1>2, <1>3, <1>4, <1>5, <1>7
        DEF FileInv, FilesNamed, SnapshotsFinite, LiveFilesExist, InFlight, UpkeepSafe

(* The tasks write one file under a name of its own. *)
LEMMA StageKeepsFiles ==
    ASSUME FileInv, NEW d \in Drivers, StageFile(d)
    PROVE  FileInv'
<1> USE DEF upkeepVars
<1> DEFINE rows == ReadRange(current[d]) \X {written + 1}
           f == [name |-> written + 1, rows |-> rows, at |-> clock]
<1>1. /\ WriteFiles(d)
      /\ objects' = objects \cup {f}
      /\ pending' = [pending EXCEPT ![d] = {f}]
      /\ written' = written + 1
      /\ UNCHANGED <<history, upkeep, upkeeps, verdict>>
  BY DEF StageFile, NewFile
<1>2. /\ running[d] = "planned"
      /\ running' = [running EXCEPT ![d] = "writing"]
      /\ staged' = [staged EXCEPT ![d] = ReadRange(current[d])]
      /\ UNCHANGED <<log, low, clock, bronze, lastStamp, appends, sink, current, plan, committed,
                     crashes, losses>>
  BY <1>1 DEF WriteFiles, BeginBatch, topicVars, checkpointVars
<1>3. CheckpointInv'
  BY <1>1, BeginKeeps DEF FileInv, WriteFiles
<1>4. ReadRange(current[d]) \subseteq StagedRow /\ IsFiniteSet(ReadRange(current[d]))
  BY RangeRows, FileTypes DEF FileInv, CheckpointInv
<1>5. /\ rows \subseteq StagedRow \X Nat /\ IsFiniteSet(rows)
      /\ f \in DataFile /\ f.name = written + 1 /\ f.rows = rows /\ f.at = clock
  <2>1. IsFiniteSet({written + 1})
    BY FS_Singleton
  <2>2. IsFiniteSet(rows)
    BY <1>4, <2>1, FS_Product
  <2>3. rows \subseteq StagedRow \X Nat
    BY <1>4, FileTypes
  <2> QED BY <2>2, <2>3, FileTypes DEF DataFile
<1>6. rows = ReadRange(current[d]) \X {f.name}
  BY <1>5
<1> HIDE DEF f, rows
<1>7. MaintenanceTypeOK'
  <2>1. BronzeTypeOK'
    BY <1>2, <1>4, FileTypes DEF BronzeTypeOK
  <2> QED BY <1>1, <1>3, <1>5, <2>1, FileTypes DEF MaintenanceTypeOK, TypeOK, CheckpointInv
<1>8. Referenced' = Referenced
  BY <1>1 DEF Referenced
<1>9. FilesNamed'
  <2>1. \A g \in objects : g.name <= written + 1
    BY FileTypes DEF FileInv, FilesNamed
  <2> QED BY <1>1, <1>5, <2>1, FileTypes DEF FileInv, FilesNamed
<1>10. f \notin objects
  BY <1>5, FileTypes DEF FileInv, FilesNamed
<1>11. \A e \in Drivers : pending[e] \subseteq objects
  BY DEF FileInv, InFlight
<1>12. InFlight'
  <2> SUFFICES ASSUME NEW e \in Drivers, NEW g \in pending'[e]
               PROVE  /\ g \in objects' /\ g \notin Referenced'
                      /\ g.at <= clock /\ clock <= g.at + CommitTime
                      /\ \A b \in Drivers : g \in pending'[b] => b = e
                      /\ upkeep.step = "replace" => g \notin upkeep.output
    BY <1>1, <1>2 DEF InFlight
  <2>1. CASE e = d
    <3>1. g = f
      BY <1>1, <2>1, FileTypes
    <3>2. clock <= clock + CommitTime
      BY FileTypes, UpkeepSettings
    <3>3. f \notin Referenced /\ (upkeep.step = "replace" => f \notin upkeep.output)
      BY <1>10 DEF FileInv, LiveFilesExist, UpkeepSafe
    <3>4. \A b \in Drivers : f \in pending'[b] => b = d
      BY <1>1, <1>10, <1>11, FileTypes
    <3> QED BY <1>1, <1>5, <1>8, <2>1, <3>1, <3>2, <3>3, <3>4, FileTypes
  <2>2. CASE e # d
    <3>1. g \in pending[e] /\ g # f
      BY <1>1, <1>10, <1>11, <2>2, FileTypes
    <3>2. \A b \in Drivers : g \in pending'[b] => g \in pending[b]
      BY <1>1, <3>1, FileTypes
    <3> QED BY <1>1, <1>8, <2>2, <3>1, <3>2 DEF FileInv, InFlight
  <2> QED BY <2>1, <2>2
<1>13. OneInFlight'
  <2> SUFFICES ASSUME NEW e \in Drivers, NEW g \in pending'[e]
               PROVE  /\ running'[e] = "writing" /\ pending'[e] = {g}
                      /\ g.rows = staged'[e] \X {g.name}
    BY DEF OneInFlight
  <2>1. CASE e = d
    <3>1. pending'[d] = {f} /\ running'[d] = "writing" /\ staged'[d] = ReadRange(current[d])
      BY <1>1, <1>2, FileTypes
    <3> QED BY <1>5, <1>6, <2>1, <3>1
  <2>2. CASE e # d
    <3>1. pending'[e] = pending[e] /\ running'[e] = running[e] /\ staged'[e] = staged[e]
      BY <1>1, <1>2, <2>2, FileTypes
    <3> QED BY <3>1 DEF FileInv, OneInFlight
  <2> QED BY <2>1, <2>2
<1>14. LiveFilesExist'
  BY <1>1, <1>8 DEF FileInv, LiveFilesExist
<1>15. UpkeepSafe'
  BY <1>1, <1>2, <1>8 DEF FileInv, UpkeepSafe
<1>16. SnapshotsFinite' /\ (\A p \in Partitions : Len(log[p]) <= MaxLog)'
       /\ (\A e \in Drivers : IsFiniteSet(staged[e]))'
  BY <1>1, <1>2, <1>4, FileTypes DEF FileInv, SnapshotsFinite
<1> QED BY <1>3, <1>7, <1>9, <1>12, <1>13, <1>14, <1>15, <1>16 DEF FileInv

(* A snapshot references the file of its driver, which is young. *)
LEMMA SnapshotKeepsFiles ==
    ASSUME FileInv, NEW d \in Drivers, AddSnapshot(d)
    PROVE  FileInv'
<1> USE DEF upkeepVars
<1> DEFINE F == Current \cup pending[d]
           stamp == <<losses, current[d].n>>
<1>1. /\ history' = NewSnapshot(F, stamp, "append")
      /\ pending' = [pending EXCEPT ![d] = {}]
      /\ UNCHANGED <<objects, written, upkeep, upkeeps, verdict>>
  BY DEF AddSnapshot
<1>2. /\ CommitEpoch(d)
      /\ UNCHANGED <<log, low, clock, staged, running, current>>
      /\ UNCHANGED <<topicVars, queryVars>>
  BY DEF AddSnapshot, CommitEpoch, topicVars, queryVars, driverVars
<1>3. CheckpointInv'
  BY <1>2, CheckpointKept DEF FileInv
<1>4. /\ pending[d] \subseteq objects
      /\ \A f \in pending[d] : f.at <= clock /\ clock <= f.at + CommitTime /\ f.at \in Nat
      /\ IsFiniteSet(pending[d])
  <2>1. CASE pending[d] = {}
    BY <2>1, FS_EmptySet
  <2>2. CASE pending[d] # {}
    <3>1. PICK f \in pending[d] : TRUE
      BY <2>2
    <3>2. pending[d] = {f}
      BY <3>1 DEF FileInv, OneInFlight
    <3>3. IsFiniteSet(pending[d])
      BY <3>2, FS_Singleton
    <3> QED BY <3>3, FileTypes DEF FileInv, InFlight
  <2> QED BY <2>1, <2>2
<1>5. F \subseteq DataFile /\ IsFiniteSet(F)
  <2>1. IsFiniteSet(Current)
    <3>1. CASE history = <<>>
      BY <3>1, FS_EmptySet DEF Current
    <3>2. CASE history # <<>>
      <4>1. Len(history) \in 1..Len(history) /\ Current = history[Len(history)].files
        BY <3>2, CurrentReferenced, FileTypes
      <4> QED BY <4>1 DEF FileInv, SnapshotsFinite
    <3> QED BY <3>1, <3>2
  <2> QED BY <1>4, <2>1, FS_Union, FileTypes
<1>6. stamp \in Nat \X Nat
  BY FileTypes DEF QueryTypeOK, Plan
<1> HIDE DEF F, stamp
<1>7. /\ history' \in Seq(Snapshot) /\ Len(history') = Len(history) + 1
      /\ \A i \in 1..Len(history) : history'[i] = history[i]
      /\ history'[Len(history')].files = F
      /\ Referenced' = Referenced \cup F
  <2>1. stamp \in {<<>>} \cup (Nat \X Nat) /\ clock \in Nat /\ history \in Seq(Snapshot)
    BY <1>6, FileTypes
  <2>2. "append" \in {"append", "rewrite", "manifests"}
    OBVIOUS
  <2>3. /\ history' \in Seq(Snapshot) /\ Len(history') = Len(history) + 1
        /\ \A i \in 1..Len(history) : history'[i] = history[i]
        /\ history'[Len(history')] = [files |-> F, at |-> clock, stamp |-> stamp, op |-> "append"]
        /\ Referenced' = Referenced \cup F
    BY <1>1, <1>5, <2>1, <2>2, Committed
  <2> QED BY <2>3
<1>8. F \subseteq Current \cup pending[d] /\ Referenced' = Referenced \cup pending[d]
  BY <1>7, FileTypes DEF F
<1>9. MaintenanceTypeOK'
  <2>1. BronzeTypeOK'
    <3>1. bronze' \subseteq BronzeRow
      <4>1. appends + 1 \in Nat /\ staged[d] \subseteq StagedRow
        BY FileTypes DEF BronzeTypeOK
      <4>2. Rows(staged[d], appends + 1) \subseteq BronzeRow
        BY <4>1 DEF Rows, StagedRow, BronzeRow
      <4> QED BY <1>2, <4>2, FileTypes DEF CommitEpoch, BronzeTypeOK
    <3>2. lastStamp' \in Nat \X Nat /\ sink' \in [Drivers -> SinkStates]
      BY <1>2, <1>6, FileTypes DEF CommitEpoch, SinkStates, stamp
    <3> QED BY <1>2, <3>1, <3>2, FileTypes DEF BronzeTypeOK, CommitEpoch
  <2>2. pending' \in [Drivers -> SUBSET DataFile]
    BY <1>1, FileTypes
  <2> QED BY <1>1, <1>3, <1>7, <2>1, <2>2, FileTypes
          DEF MaintenanceTypeOK, TypeOK, CheckpointInv
<1>10. SnapshotsFinite'
  <2> SUFFICES ASSUME NEW i \in 1..Len(history') PROVE IsFiniteSet(history'[i].files)
    BY DEF SnapshotsFinite
  <2>1. Len(history) \in Nat
    BY CurrentReferenced, FileTypes
  <2>2. i \in 1..Len(history) \/ i = Len(history')
    BY <1>7, <2>1
  <2> QED BY <1>5, <1>7, <2>2 DEF FileInv, SnapshotsFinite
<1>11. LiveFilesExist'
  BY <1>1, <1>4, <1>8 DEF FileInv, LiveFilesExist
<1>12. \A e \in Drivers : pending'[e] = IF e = d THEN {} ELSE pending[e]
  BY <1>1, FileTypes
<1>13. InFlight'
  <2> SUFFICES ASSUME NEW e \in Drivers, NEW f \in pending'[e]
               PROVE  /\ f \in objects /\ f \notin Referenced'
                      /\ f.at <= clock /\ clock <= f.at + CommitTime
                      /\ \A b \in Drivers : f \in pending'[b] => b = e
                      /\ upkeep.step = "replace" => f \notin upkeep.output
    BY <1>1, <1>2 DEF InFlight
  <2>1. e # d /\ f \in pending[e]
    BY <1>12
  <2>2. f \notin pending[d]
    BY <2>1 DEF FileInv, InFlight
  <2> QED BY <1>8, <1>12, <2>1, <2>2 DEF FileInv, InFlight
<1>14. OneInFlight'
  BY <1>2, <1>12 DEF FileInv, OneInFlight
<1>15. UpkeepSafe'
  <2>1. ASSUME NEW f \in pending[d] PROVE f.at >= upkeep.started - OrphanAge
    <3>1. f.at \in Nat /\ clock <= f.at + CommitTime /\ clock \in Nat /\ upkeep.started \in Nat
      BY <1>4, FileTypes
    <3>2. upkeep.started <= clock
      BY DEF FileInv, UpkeepSafe
    <3> QED BY <3>1, <3>2, UpkeepSettings
  <2> QED BY <1>1, <1>2, <1>8, <2>1 DEF FileInv, UpkeepSafe
<1>16. FilesNamed' /\ (\A p \in Partitions : Len(log[p]) <= MaxLog)'
       /\ (\A e \in Drivers : IsFiniteSet(staged[e]))'
  BY <1>1, <1>2 DEF FileInv, FilesNamed
<1> QED BY <1>3, <1>9, <1>10, <1>11, <1>13, <1>14, <1>15, <1>16 DEF FileInv

(* What a driver leaves behind is in flight no more. *)
LEMMA ReleaseKeepsFiles ==
    ASSUME FileInv, NEW d \in Drivers, Release(d)
    PROVE  FileInv'
<1> USE DEF upkeepVars
<1>1. /\ Commit(d) \/ Crash(d)
      /\ pending' = [pending EXCEPT ![d] = {}]
      /\ UNCHANGED <<objects, written, history, upkeep, upkeeps, verdict>>
      /\ staged' = [staged EXCEPT ![d] = {}]
      /\ sink' = [sink EXCEPT ![d] = "idle"]
      /\ UNCHANGED <<log, low, clock, bronze, lastStamp, appends>>
  BY DEF Release, Commit, Crash, Forget, topicVars
<1>2. CheckpointInv'
  BY <1>1, CommitKeeps, CrashKeeps DEF FileInv, Commit, Crash
<1>3. \A e \in Drivers : /\ pending'[e] = IF e = d THEN {} ELSE pending[e]
                         /\ staged'[e] = IF e = d THEN {} ELSE staged[e]
                         /\ e # d => running'[e] = running[e]
  BY <1>1, FileTypes DEF Commit, CommitBatch, Crash, CrashDriver, StopDriver
<1>4. MaintenanceTypeOK'
  <2>1. BronzeTypeOK'
    BY <1>1, FileTypes DEF BronzeTypeOK, SinkStates
  <2>2. pending' \in [Drivers -> SUBSET DataFile]
    BY <1>1, FileTypes
  <2> QED BY <1>1, <1>2, <2>1, <2>2, FileTypes DEF MaintenanceTypeOK, TypeOK, CheckpointInv
<1>5. Referenced' = Referenced
  BY <1>1 DEF Referenced
<1>6. InFlight'
  <2> SUFFICES ASSUME NEW e \in Drivers, NEW f \in pending'[e]
               PROVE  /\ f \in objects /\ f \notin Referenced
                      /\ f.at <= clock /\ clock <= f.at + CommitTime
                      /\ \A b \in Drivers : f \in pending'[b] => b = e
                      /\ upkeep.step = "replace" => f \notin upkeep.output
    BY <1>1, <1>5 DEF InFlight
  <2>1. e # d /\ f \in pending[e]
    BY <1>3
  <2> QED BY <1>3, <2>1 DEF FileInv, InFlight
<1>7. OneInFlight'
  BY <1>3 DEF FileInv, OneInFlight
<1>8. \A e \in Drivers : IsFiniteSet(staged'[e])
  BY <1>3, FS_EmptySet DEF FileInv
<1> QED BY <1>1, <1>2, <1>4, <1>5, <1>6, <1>7, <1>8
        DEF FileInv, FilesNamed, SnapshotsFinite, LiveFilesExist, UpkeepSafe

-----------------------------------------------------------------------------
(* Where the files are: the steps of maintain_tables.py.                   *)

(* What has to be looked at when maintenance takes a step: the stream and  *)
(* the files it has in flight stay as they are.                            *)
LEMMA UpkeepKeepsFiles ==
    ASSUME FileInv, UNCHANGED <<topicVars, queryVars, staged, pending>>,
           MaintenanceTypeOK', FilesNamed', SnapshotsFinite', LiveFilesExist', UpkeepSafe',
           \A d \in Drivers : \A f \in pending[d] :
               /\ f \in objects' /\ f \notin Referenced'
               /\ upkeep'.step = "replace" => f \notin upkeep'.output
    PROVE  FileInv'
<1>1. CheckpointInv'
  BY CheckpointKept DEF FileInv
<1>2. UNCHANGED <<log, clock, running, staged, pending>>
  BY DEF topicVars, queryVars, driverVars
<1>3. InFlight' /\ OneInFlight'
  BY <1>2 DEF FileInv, InFlight, OneInFlight
<1> QED BY <1>1, <1>2, <1>3 DEF FileInv

(* The row count of the current snapshot is a number. *)
LEMMA CountIsNumber ==
    ASSUME FileInv
    PROVE  RowCount(Current) \in Nat /\ IsFiniteSet(Current)
           /\ IsFiniteSet(UNION { f.rows : f \in Current })
           /\ IsFiniteSet(UNION { {f} \X f.rows : f \in Current })
<1>1. IsFiniteSet(Current)
  <2>1. CASE history = <<>>
    BY <2>1, FS_EmptySet DEF Current
  <2>2. CASE history # <<>>
    <3>1. Len(history) \in 1..Len(history) /\ Current = history[Len(history)].files
      BY <2>2, CurrentReferenced, FileTypes
    <3> QED BY <3>1 DEF FileInv, SnapshotsFinite
  <2> QED BY <2>1, <2>2
<1>2. \A f \in Current : IsFiniteSet(f.rows)
  BY FileTypes DEF FileInv, FilesNamed
<1> DEFINE counted == [f \in Current |-> {f} \X f.rows]
           pairs == { {f} \X f.rows : f \in Current }
           held == [f \in Current |-> f.rows]
           rows == { f.rows : f \in Current }
<1>3. counted \in Surjection(Current, pairs) /\ held \in Surjection(Current, rows)
  BY DEF Surjection
<1>4. \A S \in pairs : IsFiniteSet(S)
  <2> SUFFICES ASSUME NEW f \in Current PROVE IsFiniteSet({f} \X f.rows)
    OBVIOUS
  <2>1. IsFiniteSet({f})
    BY FS_Singleton
  <2> QED BY <1>2, <2>1, FS_Product
<1>5. \A S \in rows : IsFiniteSet(S)
  BY <1>2
<1>6. IsFiniteSet(UNION pairs) /\ IsFiniteSet(UNION rows)
  <2> HIDE DEF counted, pairs, held, rows
  <2>1. IsFiniteSet(pairs) /\ IsFiniteSet(rows)
    BY <1>1, <1>3, FS_Surjection
  <2> QED BY <1>4, <1>5, <2>1, FS_UNION
<1>7. Cardinality(UNION pairs) \in Nat
  <2> HIDE DEF pairs
  <2> QED BY <1>6, FS_CardinalityType
<1>8. RowCount(Current) = Cardinality(UNION pairs)
  BY DEF RowCount
<1>9. /\ UNION rows = UNION { f.rows : f \in Current }
      /\ UNION pairs = UNION { {f} \X f.rows : f \in Current }
  OBVIOUS
<1> HIDE DEF pairs, rows
<1> QED BY <1>1, <1>6, <1>7, <1>8, <1>9

(* A run starts, is killed, lists the metadata or compares its counts: no  *)
(* file is touched.                                                        *)
LEMMA LookingKeepsFiles ==
    ASSUME FileInv, StartUpkeep \/ ListReferenced \/ FinishUpkeep \/ KillUpkeep
    PROVE  FileInv'
<1> USE DEF fileVars
<1>1. UNCHANGED <<vars, objects, written, history, pending>>
  BY DEF StartUpkeep, ListReferenced, FinishUpkeep, KillUpkeep
<1>2. UNCHANGED <<topicVars, queryVars, bronze, lastStamp, appends, staged, sink, clock>>
  BY <1>1 DEF vars, bronzeVars, topicVars
<1>3. Referenced' = Referenced /\ Current' = Current
  BY <1>1 DEF Referenced, Current
<1>4. /\ upkeep' \in Upkeep /\ upkeep'.step # "replace" /\ upkeep'.started <= clock
      /\ upkeep'.step = "delete" => upkeep'.files = Referenced
      /\ upkeeps' \in Nat /\ verdict' \in {"none", "pass", "fail"}
  <2>1. NoUpkeep \in Upkeep /\ NoUpkeep.started = 0 /\ NoUpkeep.step = "idle"
    BY DEF NoUpkeep, Upkeep, UpkeepSteps
  <2>2. CASE StartUpkeep
    <3>1. /\ upkeep' = [step |-> "rewrite_data_files", before |-> RowCount(Current),
                        started |-> clock, files |-> {}, output |-> {}]
          /\ upkeeps' = upkeeps + 1 /\ verdict' = "none"
      BY <2>2 DEF StartUpkeep, NoUpkeep
    <3>2. RowCount(Current) \in Nat /\ clock \in Nat
      BY CountIsNumber, FileTypes
    <3>3. upkeep' \in Upkeep
      BY <3>1, <3>2 DEF Upkeep, UpkeepSteps
    <3> QED BY <3>1, <3>2, <3>3, FileTypes
  <2>3. CASE ListReferenced
    <3>1. Referenced \subseteq DataFile /\ upkeep.started <= clock
      BY FileTypes DEF FileInv, UpkeepSafe
    <3> QED BY <2>3, <3>1, FileTypes DEF ListReferenced, Upkeep, UpkeepSteps
  <2>4. CASE FinishUpkeep \/ KillUpkeep
    <3>1. upkeep' = NoUpkeep /\ upkeeps' = upkeeps
      BY <2>4 DEF FinishUpkeep, KillUpkeep
    <3>2. verdict' \in {"none", "pass", "fail"}
      BY <2>4, FileTypes DEF FinishUpkeep, KillUpkeep
    <3>3. 0 <= clock
      BY FileTypes
    <3> QED BY <2>1, <3>1, <3>2, <3>3, FileTypes
  <2> QED BY <2>2, <2>3, <2>4
<1>5. MaintenanceTypeOK'
  <2>1. TypeOK'
    BY <1>2, CheckpointKept, FileTypes DEF FileInv, CheckpointInv, TypeOK, BronzeTypeOK
  <2> QED BY <1>1, <1>4, <2>1, FileTypes DEF MaintenanceTypeOK
<1>6. UpkeepSafe'
  BY <1>2, <1>3, <1>4 DEF UpkeepSafe
<1>7. FilesNamed' /\ SnapshotsFinite' /\ LiveFilesExist'
  BY <1>1, <1>3 DEF FileInv, FilesNamed, SnapshotsFinite, LiveFilesExist
<1> QED BY <1>1, <1>2, <1>3, <1>4, <1>5, <1>6, <1>7, UpkeepKeepsFiles DEF FileInv, InFlight

(* The compacted file gets a name of its own. *)
LEMMA RewriteKeepsFiles ==
    ASSUME FileInv, RewriteDataFiles
    PROVE  FileInv'
<1>1. UNCHANGED <<vars, history, pending, upkeeps, verdict>> /\ upkeep.step = "rewrite_data_files"
  BY DEF RewriteDataFiles
<1>2. UNCHANGED <<topicVars, queryVars, bronze, lastStamp, appends, staged, sink, clock>>
  BY <1>1 DEF vars, bronzeVars, topicVars
<1>3. Referenced' = Referenced /\ Current' = Current
  BY <1>1 DEF Referenced, Current
<1>4. TypeOK'
  BY <1>2, CheckpointKept, FileTypes DEF FileInv, CheckpointInv, TypeOK, BronzeTypeOK
<1>5. upkeep.started <= clock
  BY DEF FileInv, UpkeepSafe
<1>6. CASE Cardinality(Current) >= MIN_INPUT_FILES
  <2> DEFINE rows == UNION { g.rows : g \in Current }
             f == [name |-> written + 1, rows |-> rows, at |-> clock]
  <2>1. /\ objects' = objects \cup {f}
        /\ written' = written + 1
        /\ upkeep' = [upkeep EXCEPT !.step = "replace", !.files = Current, !.output = {f}]
    BY <1>6 DEF RewriteDataFiles, NewFile
  <2>2. /\ rows \subseteq StagedRow \X Nat /\ IsFiniteSet(rows)
        /\ f \in DataFile /\ f.name = written + 1 /\ f.rows = rows
    <3>1. rows \subseteq StagedRow \X Nat
      BY FileTypes
    <3>2. IsFiniteSet(rows)
      BY CountIsNumber
    <3> QED BY <3>1, <3>2, FileTypes DEF DataFile
  <2> HIDE DEF f, rows
  <2>3. f \notin objects
    BY <2>2, FileTypes DEF FileInv, FilesNamed
  <2>4. /\ upkeep' \in Upkeep /\ upkeep'.step = "replace" /\ upkeep'.output = {f}
        /\ upkeep'.started = upkeep.started
    <3>1. Current \subseteq DataFile
      BY FileTypes
    <3> QED BY <2>1, <2>2, <3>1, FileTypes DEF Upkeep, UpkeepSteps
  <2>5. MaintenanceTypeOK'
    BY <1>1, <1>4, <2>1, <2>2, <2>4, FileTypes DEF MaintenanceTypeOK
  <2>6. FilesNamed'
    <3>1. \A g \in objects : g.name <= written + 1
      BY FileTypes DEF FileInv, FilesNamed
    <3> QED BY <2>1, <2>2, <3>1, FileTypes DEF FileInv, FilesNamed
  <2>7. UpkeepSafe'
    BY <1>2, <1>5, <2>1, <2>4 DEF UpkeepSafe
  <2>8. SnapshotsFinite' /\ LiveFilesExist'
    BY <1>1, <1>3, <2>1 DEF FileInv, SnapshotsFinite, LiveFilesExist
  <2>9. \A d \in Drivers : \A g \in pending[d] :
               /\ g \in objects' /\ g \notin Referenced'
               /\ upkeep'.step = "replace" => g \notin upkeep'.output
    BY <1>3, <2>1, <2>3, <2>4 DEF FileInv, InFlight
  <2> QED BY <1>1, <1>2, <2>5, <2>6, <2>7, <2>8, <2>9, UpkeepKeepsFiles
<1>7. CASE ~(Cardinality(Current) >= MIN_INPUT_FILES)
  <2>1. /\ upkeep' = [upkeep EXCEPT !.step = "rewrite_manifests"]
        /\ UNCHANGED <<objects, written>>
    BY <1>7 DEF RewriteDataFiles, Go
  <2>2. /\ upkeep' \in Upkeep /\ upkeep'.step = "rewrite_manifests"
        /\ upkeep'.started = upkeep.started
    BY <2>1, FileTypes DEF Upkeep, UpkeepSteps
  <2>3. MaintenanceTypeOK'
    BY <1>1, <1>4, <2>1, <2>2, FileTypes DEF MaintenanceTypeOK
  <2>4. FilesNamed' /\ UpkeepSafe' /\ SnapshotsFinite' /\ LiveFilesExist'
    BY <1>1, <1>2, <1>3, <1>5, <2>1, <2>2
       DEF FileInv, FilesNamed, UpkeepSafe, SnapshotsFinite, LiveFilesExist
  <2> QED BY <1>1, <1>2, <1>3, <2>1, <2>2, <2>3, <2>4, UpkeepKeepsFiles DEF FileInv, InFlight
<1> QED BY <1>6, <1>7

(* A commit of the maintenance references files that are referenced        *)
(* already, or the output of its compaction.                               *)
LEMMA CommitKeepsFiles ==
    ASSUME FileInv, CommitRewrite \/ RewriteManifests
    PROVE  FileInv'
<1>1. UNCHANGED <<vars, objects, written, pending, upkeeps, verdict>>
  BY DEF CommitRewrite, RewriteManifests
<1>2. UNCHANGED <<topicVars, queryVars, bronze, lastStamp, appends, staged, sink, clock>>
  BY <1>1 DEF vars, bronzeVars, topicVars
<1>3. TypeOK'
  BY <1>2, CheckpointKept, FileTypes DEF FileInv, CheckpointInv, TypeOK, BronzeTypeOK
<1>4. upkeep.started <= clock
  BY DEF FileInv, UpkeepSafe
<1>5. /\ upkeep' \in Upkeep /\ upkeep'.step \in {"rewrite_manifests", "expire_snapshots"}
      /\ upkeep'.started = upkeep.started
  BY FileTypes DEF CommitRewrite, RewriteManifests, Go, Upkeep, UpkeepSteps
<1>6. \/ UNCHANGED history
      \/ \E F \in SUBSET objects, op \in {"rewrite", "manifests"} :
           /\ history' = NewSnapshot(F, <<>>, op) /\ IsFiniteSet(F)
           /\ \A f \in F : f \in Referenced \/ (upkeep.step = "replace" /\ f \in upkeep.output)
  <2>1. CASE CommitRewrite
    <3>1. /\ upkeep.step = "replace" /\ history' = NewSnapshot(Replaced, <<>>, "rewrite")
          /\ upkeep.output \subseteq objects /\ \E f : upkeep.output = {f}
      BY <2>1 DEF CommitRewrite, FileInv, UpkeepSafe
    <3>2. \A f \in Replaced : f \in Current \/ f \in upkeep.output
      BY DEF Replaced
    <3>3. Replaced \subseteq objects
      BY <3>1, <3>2, FileTypes
    <3>4. IsFiniteSet(Replaced)
      <4>1. IsFiniteSet(Current \ upkeep.files)
        BY CountIsNumber, FS_Difference
      <4>2. IsFiniteSet(upkeep.output)
        BY <3>1, FS_Singleton
      <4> QED BY <4>1, <4>2, FS_Union DEF Replaced
    <3> QED BY <3>1, <3>2, <3>3, <3>4, FileTypes
  <2>2. CASE RewriteManifests
    <3>1. UNCHANGED history \/ history' = NewSnapshot(Current, <<>>, "manifests")
      BY <2>2 DEF RewriteManifests
    <3>2. IsFiniteSet(Current) /\ Current \subseteq objects
      BY CountIsNumber, FileTypes
    <3> QED BY <3>1, <3>2, FileTypes
  <2> QED BY <2>1, <2>2
<1>7. CASE UNCHANGED history
  <2>1. Referenced' = Referenced
    BY <1>7 DEF Referenced
  <2>2. MaintenanceTypeOK'
    BY <1>1, <1>3, <1>5, <1>7, FileTypes DEF MaintenanceTypeOK
  <2>3. FilesNamed' /\ UpkeepSafe' /\ SnapshotsFinite' /\ LiveFilesExist'
    BY <1>1, <1>2, <1>4, <1>5, <1>7, <2>1
       DEF FileInv, FilesNamed, UpkeepSafe, SnapshotsFinite, LiveFilesExist
  <2> QED BY <1>1, <1>2, <1>5, <2>1, <2>2, <2>3, UpkeepKeepsFiles DEF FileInv, InFlight
<1>8. ASSUME NEW F \in SUBSET objects, NEW op \in {"rewrite", "manifests"},
             history' = NewSnapshot(F, <<>>, op), IsFiniteSet(F),
             \A f \in F : f \in Referenced \/ (upkeep.step = "replace" /\ f \in upkeep.output)
      PROVE  FileInv'
  <2>1. /\ history' \in Seq(Snapshot) /\ Len(history') = Len(history) + 1
        /\ \A i \in 1..Len(history) : history'[i] = history[i]
        /\ history'[Len(history')] = [files |-> F, at |-> clock, stamp |-> <<>>, op |-> op]
        /\ Referenced' = Referenced \cup F
    <3>1. /\ <<>> \in {<<>>} \cup (Nat \X Nat) /\ op \in {"append", "rewrite", "manifests"}
          /\ clock \in Nat /\ history \in Seq(Snapshot) /\ F \in SUBSET DataFile
      BY FileTypes
    <3> QED BY <1>8, <3>1, Committed
  <2>2. MaintenanceTypeOK'
    BY <1>1, <1>3, <1>5, <2>1, FileTypes DEF MaintenanceTypeOK
  <2>3. SnapshotsFinite'
    <3> SUFFICES ASSUME NEW i \in 1..Len(history') PROVE IsFiniteSet(history'[i].files)
      BY DEF SnapshotsFinite
    <3>1. Len(history) \in Nat
      BY CurrentReferenced, FileTypes
    <3>2. i \in 1..Len(history) \/ i = Len(history')
      BY <2>1, <3>1
    <3> QED BY <1>8, <2>1, <3>2 DEF FileInv, SnapshotsFinite
  <2>4. FilesNamed' /\ LiveFilesExist' /\ UpkeepSafe'
    BY <1>1, <1>2, <1>4, <1>5, <2>1 DEF FileInv, FilesNamed, LiveFilesExist, UpkeepSafe
  <2>5. \A d \in Drivers : \A f \in pending[d] :
               /\ f \in objects' /\ f \notin Referenced'
               /\ upkeep'.step = "replace" => f \notin upkeep'.output
    BY <1>1, <1>5, <1>8, <2>1 DEF FileInv, InFlight
  <2> QED BY <1>1, <1>2, <2>2, <2>3, <2>4, <2>5, UpkeepKeepsFiles
<1> QED BY <1>6, <1>7, <1>8

(* Expiry deletes files no snapshot references any more; a file in flight  *)
(* was never referenced.                                                   *)
LEMMA ExpiryKeepsFiles ==
    ASSUME FileInv, ExpireSnapshots
    PROVE  FileInv'
<1>1. /\ upkeep' = [upkeep EXCEPT !.step = "remove_orphan_files"]
      /\ history' = Retained
      /\ objects' = objects \ (Referenced \ Referenced')
      /\ lastStamp' = NewestStamp(history')
      /\ UNCHANGED <<topicVars, queryVars, bronze, appends, staged, sink,
                     written, pending, upkeeps, verdict>>
  BY DEF ExpireSnapshots, Go
<1>2. UNCHANGED <<clock, written>>
  BY <1>1 DEF topicVars
<1>3. /\ history' \in Seq(Snapshot)
      /\ \A i \in 1..Len(history') : \E j \in 1..Len(history) : history'[i] = history[j]
  <2>1. CASE history = <<>>
    <3>1. LastSnapshots = {} /\ Len(history) = 0
      BY <2>1 DEF LastSnapshots
    <3>2. Retained = <<>>
      BY <3>1, <2>1 DEF Retained
    <3> QED BY <1>1, <2>1, <3>2, FileTypes
  <2>2. CASE history # <<>>
    <3>1. Len(history) \in Nat
      BY CurrentReferenced, FileTypes
    <3>2. PICK m \in 1..Len(history) :
              /\ Retained \in Seq(Snapshot)
              /\ Len(Retained) = Len(history) - m + 1
              /\ \A i \in 1..Len(Retained) : Retained[i] = history[i + m - 1]
      BY <2>2, FileTypes, KeepsTheEnd
    <3>3. ASSUME NEW i \in 1..Len(history') PROVE i + m - 1 \in 1..Len(history)
      BY <1>1, <3>1, <3>2
    <3> QED BY <1>1, <3>2, <3>3
  <2> QED BY <2>1, <2>2
<1>4. Referenced' \subseteq Referenced
  BY <1>3 DEF Referenced
<1>5. lastStamp' \in Nat \X Nat
  BY <1>1, <1>3, NewestStampIs
<1>6. /\ upkeep' \in Upkeep /\ upkeep'.step = "remove_orphan_files"
      /\ upkeep'.started = upkeep.started
  BY <1>1, FileTypes DEF Upkeep, UpkeepSteps
<1>7. MaintenanceTypeOK'
  <2>1. TypeOK'
    BY <1>1, <1>5, CheckpointKept, FileTypes DEF FileInv, CheckpointInv, TypeOK, BronzeTypeOK
  <2>2. objects' \subseteq DataFile
    BY <1>1, FileTypes
  <2> QED BY <1>1, <1>3, <1>6, <2>1, <2>2, FileTypes DEF MaintenanceTypeOK
<1>8. FilesNamed' /\ SnapshotsFinite' /\ LiveFilesExist' /\ UpkeepSafe'
  <2>1. FilesNamed'
    BY <1>1 DEF FileInv, FilesNamed
  <2>2. SnapshotsFinite'
    BY <1>3 DEF FileInv, SnapshotsFinite
  <2>3. LiveFilesExist'
    BY <1>1, <1>4 DEF FileInv, LiveFilesExist
  <2>4. UpkeepSafe'
    BY <1>2, <1>6 DEF FileInv, UpkeepSafe
  <2> QED BY <2>1, <2>2, <2>3, <2>4
<1>9. \A d \in Drivers : \A f \in pending[d] :
             /\ f \in objects' /\ f \notin Referenced'
             /\ upkeep'.step = "replace" => f \notin upkeep'.output
  BY <1>1, <1>4, <1>6 DEF FileInv, InFlight
<1> QED BY <1>1, <1>7, <1>8, <1>9, UpkeepKeepsFiles

(* What is deleted as an orphan is neither referenced nor on its way.      *)
LEMMA OrphansKeepFiles ==
    ASSUME FileInv, DeleteOrphans
    PROVE  FileInv'
<1>1. /\ upkeep.step = "delete" /\ objects' = objects \ Orphans
      /\ upkeep' = [upkeep EXCEPT !.step = "after", !.files = {}]
      /\ UNCHANGED <<vars, history, written, pending, upkeeps, verdict>>
  BY DEF DeleteOrphans
<1>2. UNCHANGED <<topicVars, queryVars, bronze, lastStamp, appends, staged, sink, clock>>
  BY <1>1 DEF vars, bronzeVars, topicVars
<1>3. Referenced' = Referenced
  BY <1>1 DEF Referenced
<1>4. ASSUME NEW f \in Orphans
      PROVE  f \notin Referenced /\ \A d \in Drivers : f \notin pending[d]
  <2>1. /\ f \in objects /\ f \notin upkeep.files /\ f.at < upkeep.started - OrphanAge
        /\ f.at \in Nat /\ upkeep.started \in Nat /\ clock \in Nat
    BY FileTypes DEF Orphans
  <2>2. f \notin Referenced
    BY <1>1, <2>1, UpkeepSettings DEF FileInv, UpkeepSafe
  <2>3. ASSUME NEW d \in Drivers, f \in pending[d] PROVE FALSE
    <3>1. clock <= f.at + CommitTime
      BY <2>3 DEF FileInv, InFlight
    <3>2. upkeep.started <= clock
      BY DEF FileInv, UpkeepSafe
    <3> QED BY <2>1, <3>1, <3>2, UpkeepSettings
  <2> QED BY <2>2, <2>3
<1>5. /\ upkeep' \in Upkeep /\ upkeep'.step = "after" /\ upkeep'.started = upkeep.started
  BY <1>1, FileTypes DEF Upkeep, UpkeepSteps
<1>6. MaintenanceTypeOK'
  <2>1. TypeOK'
    BY <1>2, CheckpointKept, FileTypes DEF FileInv, CheckpointInv, TypeOK, BronzeTypeOK
  <2>2. objects' \subseteq DataFile
    BY <1>1, FileTypes
  <2> QED BY <1>1, <1>5, <2>1, <2>2, FileTypes DEF MaintenanceTypeOK
<1>7. FilesNamed' /\ SnapshotsFinite' /\ LiveFilesExist' /\ UpkeepSafe'
  BY <1>1, <1>2, <1>3, <1>4, <1>5
     DEF FileInv, FilesNamed, SnapshotsFinite, LiveFilesExist, UpkeepSafe
<1>8. \A d \in Drivers : \A f \in pending[d] :
             /\ f \in objects' /\ f \notin Referenced'
             /\ upkeep'.step = "replace" => f \notin upkeep'.output
  BY <1>1, <1>3, <1>4, <1>5 DEF FileInv, InFlight
<1> QED BY <1>1, <1>2, <1>6, <1>7, <1>8, UpkeepKeepsFiles

(* No file, no snapshot. *)
LEMMA FileInvInit == MaintenanceInit => FileInv
<1> SUFFICES ASSUME MaintenanceInit PROVE FileInv
  OBVIOUS
<1>1. CheckpointInv /\ BronzeTypeOK
  BY BronzeInvInit DEF MaintenanceInit, BronzeInv
<1>2. /\ objects = {} /\ written = 0 /\ history = <<>> /\ Len(history) = 0
      /\ pending = [d \in Drivers |-> {}] /\ staged = [d \in Drivers |-> {}]
      /\ upkeep = NoUpkeep /\ upkeeps = 0 /\ verdict = "none"
      /\ log = [p \in Partitions |-> <<>>] /\ clock = 0
  BY DEF MaintenanceInit, Init, BronzeInit, TopicInit
<1>3. NoUpkeep \in Upkeep /\ NoUpkeep.started = 0 /\ NoUpkeep.step = "idle"
  BY DEF NoUpkeep, Upkeep, UpkeepSteps
<1>4. MaintenanceTypeOK
  BY <1>1, <1>2, <1>3 DEF MaintenanceTypeOK, TypeOK, CheckpointInv
<1>5. Referenced = {}
  BY <1>2 DEF Referenced
<1>6. \A p \in Partitions : Len(log[p]) <= MaxLog
  BY <1>2, UpkeepSettings
<1>7. \A d \in Drivers : IsFiniteSet(staged[d])
  BY <1>2, FS_EmptySet
<1> QED BY <1>1, <1>2, <1>3, <1>4, <1>5, <1>6, <1>7
        DEF FileInv, FilesNamed, SnapshotsFinite, LiveFilesExist, InFlight, OneInFlight, UpkeepSafe

(* Every step of the stream and of the maintenance keeps the files.        *)
LEMMA FileInvStep == FileInv /\ [MaintenanceNext]_allVars => FileInv'
<1> SUFFICES ASSUME FileInv, [MaintenanceNext]_allVars PROVE FileInv'
  OBVIOUS
<1>1. CASE World \/ Proceed
  BY <1>1, WorldKeepsFiles, ProceedKeepsFiles
<1>2. ASSUME NEW d \in Drivers, StageFile(d) \/ AddSnapshot(d) \/ Release(d) PROVE FileInv'
  BY <1>2, StageKeepsFiles, SnapshotKeepsFiles, ReleaseKeepsFiles
<1>3. CASE UpkeepNext
  BY <1>3, LookingKeepsFiles, RewriteKeepsFiles, CommitKeepsFiles, ExpiryKeepsFiles,
     OrphansKeepFiles DEF UpkeepNext
<1>4. CASE UNCHANGED allVars
  <2>1. /\ UNCHANGED <<topicVars, queryVars, bronze, lastStamp, appends, staged, sink, clock>>
        /\ UNCHANGED <<objects, written, history, pending, upkeep, upkeeps, verdict>>
    BY <1>4 DEF allVars, vars, bronzeVars, fileVars, upkeepVars, topicVars
  <2>2. Referenced' = Referenced
    BY <2>1 DEF Referenced
  <2>3. TypeOK'
    BY <2>1, CheckpointKept, FileTypes DEF FileInv, CheckpointInv, TypeOK, BronzeTypeOK
  <2>4. MaintenanceTypeOK'
    BY <2>1, <2>3, FileTypes DEF MaintenanceTypeOK
  <2>5. FilesNamed' /\ SnapshotsFinite' /\ LiveFilesExist' /\ UpkeepSafe'
    BY <2>1, <2>2 DEF FileInv, FilesNamed, SnapshotsFinite, LiveFilesExist, UpkeepSafe
  <2> QED BY <2>1, <2>2, <2>4, <2>5, UpkeepKeepsFiles DEF FileInv, InFlight
<1> QED BY <1>1, <1>2, <1>3, <1>4 DEF MaintenanceNext

(* FileInv holds in every reachable state. *)
LEMMA AlwaysFileInv == MaintenanceSpec => []FileInv
BY FileInvInit, FileInvStep, PTL DEF MaintenanceSpec

(* Stream and maintenance together are well typed; in particular the row   *)
(* counts maintain_tables.py compares are numbers.                         *)
THEOREM MaintenanceTypeCorrect == MaintenanceSpec => []MaintenanceTypeOK
<1>1. FileInv => MaintenanceTypeOK
  BY DEF FileInv
<1> QED BY <1>1, AlwaysFileInv, PTL

(* No procedure ever deletes a file a retained snapshot references or a    *)
(* commit in flight is about to, whatever the retention, however many      *)
(* drivers commit and wherever a run is killed (maintenance.py).           *)
THEOREM LiveFilesAlwaysExist == MaintenanceSpec => []LiveFilesExist
<1>1. FileInv => LiveFilesExist
  BY DEF FileInv
<1> QED BY <1>1, AlwaysFileInv, PTL

-----------------------------------------------------------------------------
(* Expiry and the epoch stamps.  Behind the newest append there are at     *)
(* most four snapshots of the maintenance: a replace that was under way, a *)
(* manifest rewrite, the replace that leaves one file, and a last manifest *)
(* rewrite; then there is nothing left to rewrite.  A floor of five, which *)
(* is what maintenance.py sets, keeps the append.                          *)

FloorCoversUpkeep == RETAIN_LAST_SNAPSHOTS >= 5

OneFile == \E f : Current \subseteq {f}

(* Snapshot i is the newest append. *)
Newest(i) == /\ history[i].stamp # <<>> /\ history[i].stamp = lastStamp
             /\ \A j \in 1..Len(history) : j > i => history[j].stamp = <<>>

(* k snapshots came after the newest append: what there is left to rewrite *)
(* bounds how many there can be.                                           *)
FewSince(k) ==
    /\ k <= 4
    /\ k <= 2 \/ OneFile
    /\ history[Len(history)].op # "manifests" => k <= 3 /\ (k <= 1 \/ OneFile)
    /\ upkeep.step = "replace" => k = 0 \/ (k <= 2 /\ upkeep.files = Current)

NothingAppended == lastStamp = NoStamp /\ \A i \in 1..Len(history) : history[i].stamp = <<>>

StampKept == \/ NothingAppended
             \/ \E i \in 1..Len(history) : Newest(i) /\ FewSince(Len(history) - i)

StampInv == FileInv /\ BronzeInv /\ losses = 0 /\ StampKept

(* The stream's steps are steps of BronzeStream, and of the maintenance    *)
(* only expiry touches the bronze stream's state.                          *)
LEMMA StepOfBronze ==
    ASSUME [MaintenanceNext]_allVars
    PROVE  [Next]_vars \/ ExpireSnapshots
<1>1. CASE World
  BY <1>1 DEF World, Next
<1>2. CASE Proceed
  BY <1>2 DEF Proceed, Next, BronzeNext, DriverStep
<1>3. ASSUME NEW d \in Drivers, StageFile(d) \/ AddSnapshot(d) \/ Release(d)
      PROVE  Next
  BY <1>3 DEF StageFile, AddSnapshot, Release, Next, BronzeNext, DriverStep
<1>4. CASE UpkeepNext
  BY <1>4 DEF UpkeepNext, StartUpkeep, RewriteDataFiles, CommitRewrite, RewriteManifests,
     ListReferenced, DeleteOrphans, FinishUpkeep, KillUpkeep
<1>5. CASE UNCHANGED allVars
  BY <1>5 DEF allVars
<1> QED BY <1>1, <1>2, <1>3, <1>4, <1>5 DEF MaintenanceNext

(* Steps that commit nothing, and start no replace. *)
LEMMA StampsLeft ==
    ASSUME StampKept, UNCHANGED <<history, lastStamp>>,
           UNCHANGED upkeep \/ upkeep'.step # "replace"
    PROVE  StampKept'
<1>1. Current' = Current
  BY DEF Current
<1>2. CASE NothingAppended
  BY <1>2 DEF NothingAppended, StampKept
<1>3. ASSUME NEW i \in 1..Len(history), Newest(i), FewSince(Len(history) - i)
      PROVE  i \in 1..Len(history') /\ Newest(i)' /\ FewSince(Len(history) - i)'
  <2>1. Newest(i)'
    BY <1>3 DEF Newest
  <2>2. FewSince(Len(history) - i)'
    BY <1>1, <1>3 DEF FewSince, OneFile
  <2> QED BY <2>1, <2>2
<1> QED BY <1>2, <1>3 DEF StampKept

(* The stream's append is the newest snapshot, and its stamp the last. *)
LEMMA AppendIsNewest ==
    ASSUME StampInv, NEW d \in Drivers, AddSnapshot(d)
    PROVE  StampKept'
<1> DEFINE F == Current \cup pending[d]
           stamp == <<losses, current[d].n>>
<1>1. /\ history' = NewSnapshot(F, stamp, "append")
      /\ lastStamp' = stamp
      /\ upkeep' = upkeep
  BY DEF AddSnapshot, CommitEpoch, upkeepVars
<1>2. stamp \in Nat \X Nat /\ stamp # <<>>
  <2>1. losses \in Nat /\ current[d].n \in Nat
    BY FileTypes DEF StampInv, QueryTypeOK, Plan
  <2> QED BY <2>1
<1>3. F \in SUBSET DataFile
  BY FileTypes DEF StampInv
<1> HIDE DEF F, stamp
<1>4. /\ Len(history') = Len(history) + 1
      /\ history'[Len(history')] = [files |-> F, at |-> clock, stamp |-> stamp, op |-> "append"]
  <2>1. stamp \in {<<>>} \cup (Nat \X Nat) /\ clock \in Nat /\ history \in Seq(Snapshot)
        /\ "append" \in {"append", "rewrite", "manifests"}
    BY <1>2, FileTypes DEF StampInv
  <2> QED BY <1>1, <1>3, <2>1, Committed
<1>5. Len(history) \in Nat
  BY FileTypes, CurrentReferenced DEF StampInv
<1>6. Len(history') \in 1..Len(history') /\ Len(history') - Len(history') = 0
  BY <1>4, <1>5
<1>7. Newest(Len(history))'
  BY <1>1, <1>2, <1>4, <1>6 DEF Newest
<1>8. FewSince(0)'
  BY DEF FewSince
<1> QED BY <1>6, <1>7, <1>8 DEF StampKept

(* What a compaction takes is every current file, when they are two.       *)
LEMMA CompactionStarts ==
    ASSUME StampInv, RewriteDataFiles
    PROVE  StampKept'
<1>1. UNCHANGED <<history, lastStamp>>
  BY DEF RewriteDataFiles, vars, bronzeVars
<1>2. CASE Cardinality(Current) >= MIN_INPUT_FILES
  <2>1. upkeep'.step = "replace" /\ upkeep'.files = Current
    BY <1>2, FileTypes DEF RewriteDataFiles, StampInv, Upkeep
  <2>2. Current' = Current
    BY <1>1 DEF Current
  <2>3. ~OneFile
    <3> SUFFICES ASSUME NEW f, Current \subseteq {f} PROVE FALSE
      BY DEF OneFile
    <3>1. IsFiniteSet({f}) /\ Cardinality({f}) = 1
      BY FS_Singleton
    <3>2. IsFiniteSet(Current) /\ Cardinality(Current) <= 1
      BY <3>1, FS_Subset
    <3>3. Cardinality(Current) \in Nat
      BY <3>2, FS_CardinalityType
    <3> QED BY <1>2, <3>2, <3>3, UpkeepSettings
  <2>4. CASE NothingAppended
    BY <1>1, <2>4 DEF NothingAppended, StampKept
  <2>5. ASSUME NEW i \in 1..Len(history), Newest(i), FewSince(Len(history) - i)
        PROVE  i \in 1..Len(history') /\ Newest(i)' /\ FewSince(Len(history) - i)'
    <3>1. Newest(i)'
      BY <1>1, <2>5 DEF Newest
    <3>2. FewSince(Len(history) - i)'
      BY <1>1, <2>1, <2>2, <2>3, <2>5 DEF FewSince, OneFile
    <3> QED BY <1>1, <3>1, <3>2
  <2> QED BY <2>4, <2>5 DEF StampInv, StampKept
<1>3. CASE ~(Cardinality(Current) >= MIN_INPUT_FILES)
  <2>1. upkeep'.step # "replace"
    BY <1>3, FileTypes DEF RewriteDataFiles, Go, StampInv, Upkeep
  <2> QED BY <1>1, <2>1, StampsLeft DEF StampInv
<1> QED BY <1>2, <1>3

(* A commit without a stamp moves the newest append back by one.           *)
LEMMA UnstampedCommit ==
    ASSUME StampInv, UNCHANGED lastStamp,
           NEW F \in SUBSET DataFile, NEW op \in {"rewrite", "manifests"},
           history' = NewSnapshot(F, <<>>, op),
           \A k \in Nat : FewSince(k) => FewSince(k + 1)'
    PROVE  StampKept'
<1>1. /\ Len(history') = Len(history) + 1
      /\ \A i \in 1..Len(history) : history'[i] = history[i]
      /\ history'[Len(history')] = [files |-> F, at |-> clock, stamp |-> <<>>, op |-> op]
  <2>1. <<>> \in {<<>>} \cup (Nat \X Nat) /\ clock \in Nat /\ history \in Seq(Snapshot)
        /\ op \in {"append", "rewrite", "manifests"}
    BY FileTypes DEF StampInv
  <2> QED BY <2>1, Committed
<1>2. Len(history) \in Nat
  BY FileTypes, CurrentReferenced DEF StampInv
<1>3. history'[Len(history')].stamp = <<>>
  BY <1>1
<1>4. \A j \in 1..Len(history') : j \in 1..Len(history) \/ j = Len(history')
  BY <1>1, <1>2
<1>5. CASE NothingAppended
  BY <1>1, <1>3, <1>4, <1>5 DEF NothingAppended, StampKept
<1>6. ASSUME NEW i \in 1..Len(history), Newest(i), FewSince(Len(history) - i)
      PROVE  i \in 1..Len(history') /\ Newest(i)' /\ FewSince(Len(history) - i)'
  <2>1. i \in 1..Len(history') /\ Newest(i)'
    BY <1>1, <1>2, <1>3, <1>4, <1>6 DEF Newest
  <2>2. PICK k \in Nat : k = Len(history) - i
    BY <1>2
  <2>3. k + 1 = Len(history') - i
    BY <1>1, <1>2, <2>2
  <2>4. FewSince(k)
    BY <1>6, <2>2
  <2>5. FewSince(k + 1)'
    BY <2>4
  <2>6. FewSince(Len(history) - i)'
    BY <2>3, <2>5
  <2> QED BY <2>1, <2>6
<1> QED BY <1>5, <1>6 DEF StampInv, StampKept

(* A replace leaves one file, unless an append came before it. *)
LEMMA ReplaceIsBehind ==
    ASSUME StampInv, CommitRewrite
    PROVE  StampKept'
<1>1. /\ history' = NewSnapshot(Replaced, <<>>, "rewrite")
      /\ upkeep.step = "replace" /\ upkeep'.step = "rewrite_manifests"
      /\ UNCHANGED lastStamp
  BY FileTypes DEF CommitRewrite, StampInv, Upkeep, vars, bronzeVars
<1>2. Replaced \in SUBSET DataFile
  BY FileTypes DEF StampInv, Replaced
<1>3. /\ Current' = Replaced
      /\ history'[Len(history')].op = "rewrite"
  <2>1. <<>> \in {<<>>} \cup (Nat \X Nat) /\ clock \in Nat /\ history \in Seq(Snapshot)
        /\ "rewrite" \in {"append", "rewrite", "manifests"}
    BY FileTypes DEF StampInv
  <2>2. history'[Len(history')] = [files |-> Replaced, at |-> clock, stamp |-> <<>>, op |-> "rewrite"]
        /\ Current' = Replaced
    BY <1>1, <1>2, <2>1, Committed
  <2> QED BY <2>2
<1>4. ASSUME NEW k \in Nat, FewSince(k) PROVE FewSince(k + 1)'
  <2>1. CASE k = 0
    BY <1>1, <2>1 DEF FewSince
  <2>2. CASE k # 0
    <3>1. k <= 2 /\ upkeep.files = Current
      BY <1>1, <1>4, <2>2 DEF FewSince
    <3>2. OneFile'
      <4>1. PICK f : upkeep.output = {f}
        BY <1>1 DEF StampInv, FileInv, UpkeepSafe
      <4>2. Current' \subseteq {f}
        BY <1>3, <3>1, <4>1 DEF Replaced
      <4> QED BY <4>2 DEF OneFile
    <3> QED BY <1>1, <3>1, <3>2 DEF FewSince
  <2> QED BY <2>1, <2>2
<1>5. "rewrite" \in {"rewrite", "manifests"}
  OBVIOUS
<1> QED BY <1>1, <1>2, <1>4, <1>5, UnstampedCommit

(* The manifests are rewritten once after each other commit. *)
LEMMA ManifestsBehind ==
    ASSUME StampInv, RewriteManifests
    PROVE  StampKept'
<1>1. UNCHANGED lastStamp /\ upkeep'.step = "expire_snapshots"
  BY FileTypes DEF RewriteManifests, Go, StampInv, Upkeep, vars, bronzeVars
<1>2. CASE UNCHANGED history
  BY <1>1, <1>2, StampsLeft DEF StampInv
<1>3. CASE /\ history[Len(history)].op # "manifests"
           /\ history' = NewSnapshot(Current, <<>>, "manifests")
  <2>1. Current \in SUBSET DataFile /\ "manifests" \in {"rewrite", "manifests"}
    BY FileTypes DEF StampInv
  <2>2. /\ Current' = Current
        /\ history'[Len(history')].op = "manifests"
    <3>1. <<>> \in {<<>>} \cup (Nat \X Nat) /\ clock \in Nat /\ history \in Seq(Snapshot)
          /\ "manifests" \in {"append", "rewrite", "manifests"}
      BY FileTypes DEF StampInv
    <3>2. history'[Len(history')] = [files |-> Current, at |-> clock, stamp |-> <<>>, op |-> "manifests"]
          /\ Current' = Current
      BY <1>3, <2>1, <3>1, Committed
    <3> QED BY <3>2
  <2>3. ASSUME NEW k \in Nat, FewSince(k) PROVE FewSince(k + 1)'
    <3>1. k <= 3 /\ (k <= 1 \/ OneFile)
      BY <1>3, <2>3 DEF FewSince
    <3>2. OneFile' = OneFile
      BY <2>2 DEF OneFile
    <3> QED BY <1>1, <2>2, <3>1, <3>2 DEF FewSince
  <2> QED BY <1>1, <1>3, <2>1, <2>3, UnstampedCommit
<1> QED BY <1>2, <1>3 DEF RewriteManifests

(* Expiry keeps the newest append and what came after it, so that the last *)
(* stamp is the one it was.                                                *)
LEMMA ExpiryKeepsStamps ==
    ASSUME StampInv, ExpireSnapshots, FloorCoversUpkeep
    PROVE  StampKept' /\ Current' = Current /\ lastStamp' = lastStamp
<1>1. /\ history' = Retained
      /\ lastStamp' = NewestStamp(history')
      /\ upkeep'.step # "replace"
  BY FileTypes DEF ExpireSnapshots, Go, StampInv, Upkeep
<1>2. CASE history = <<>>
  <2>1. LastSnapshots = {} /\ Len(history) = 0
    BY <1>2 DEF LastSnapshots
  <2>2. Retained = <<>>
    BY <1>2, <2>1 DEF Retained
  <2>3. history' = <<>> /\ Len(history') = 0 /\ history' \in Seq(Snapshot)
    BY <1>1, <1>2, <2>1, <2>2, FileTypes DEF StampInv
  <2>4. lastStamp' = NoStamp
    <3>1. \A i \in 1..Len(history') : history'[i].stamp = <<>>
      BY <2>3
    <3>2. history' \in Seq(Snapshot)
      BY <2>3
    <3> QED BY <1>1, <3>1, <3>2, NewestStampIs
  <2>5. lastStamp = NoStamp
    BY <2>1 DEF StampInv, StampKept, NothingAppended
  <2>6. Current' = Current
    BY <1>2, <2>3 DEF Current
  <2> QED BY <2>3, <2>4, <2>5, <2>6 DEF StampKept, NothingAppended, NoStamp
<1>3. CASE history # <<>>
  <2>1. Len(history) \in Nat /\ Len(history) >= 1 /\ history \in Seq(Snapshot)
    BY <1>3, FileTypes, CurrentReferenced DEF StampInv
  <2>2. PICK m \in 1..Len(history) :
          /\ Retained \in Seq(Snapshot)
          /\ Len(Retained) = Len(history) - m + 1
          /\ \A i \in 1..Len(Retained) : Retained[i] = history[i + m - 1]
          /\ \A i \in 1..Len(history) : i > Len(history) - RETAIN_LAST_SNAPSHOTS => m <= i
    BY <1>3, <2>1, KeepsTheEnd
  <2>3. /\ Len(history') = Len(history) - m + 1 /\ Len(history') \in Nat /\ Len(history') >= 1
        /\ history' \in Seq(Snapshot)
        /\ \A i \in 1..Len(history') : i + m - 1 \in 1..Len(history) /\ history'[i] = history[i + m - 1]
    BY <1>1, <2>1, <2>2
  <2>4. history'[Len(history')] = history[Len(history)]
    <3>1. Len(history') \in 1..Len(history') /\ Len(history') + m - 1 = Len(history)
      BY <2>1, <2>3
    <3> QED BY <2>3, <3>1
  <2>5. Current' = Current
    <3>1. Len(<<>>) = 0
      OBVIOUS
    <3>2. history' # <<>>
      BY <2>3, <3>1
    <3> QED BY <1>3, <2>4, <3>2 DEF Current
  <2>6. CASE NothingAppended
    <3>1. \A i \in 1..Len(history') : history'[i].stamp = <<>>
      BY <2>3, <2>6 DEF NothingAppended
    <3>2. lastStamp' = NoStamp
      BY <1>1, <2>3, <3>1, NewestStampIs
    <3> QED BY <2>5, <2>6, <3>1, <3>2 DEF NothingAppended, StampKept, NoStamp
  <2>7. ASSUME NEW j \in 1..Len(history), Newest(j), FewSince(Len(history) - j)
        PROVE  StampKept' /\ lastStamp' = lastStamp
    <3>1. m <= j
      <4>1. Len(history) - j <= 4
        BY <2>7 DEF FewSince
      <4> QED BY <2>1, <2>2, <4>1, UpkeepSettings DEF FloorCoversUpkeep
    <3> DEFINE i == j - m + 1
    <3>2. i \in 1..Len(history') /\ i + m - 1 = j /\ Len(history') - i = Len(history) - j
      BY <2>1, <2>3, <3>1
    <3> HIDE DEF i
    <3>3. history'[i] = history[j]
      BY <2>3, <3>2
    <3>4. \A h \in 1..Len(history') : h > i => history'[h].stamp = <<>>
      <4> SUFFICES ASSUME NEW h \in 1..Len(history'), h > i PROVE history'[h].stamp = <<>>
        OBVIOUS
      <4>1. h + m - 1 \in 1..Len(history) /\ h + m - 1 > j /\ history'[h] = history[h + m - 1]
        BY <2>1, <2>3, <3>2
      <4> QED BY <2>7, <4>1 DEF Newest
    <3>5. history'[i].stamp # <<>> /\ history'[i].stamp = lastStamp
      BY <2>7, <3>3 DEF Newest
    <3>6. lastStamp' = lastStamp
      BY <1>1, <2>3, <3>2, <3>4, <3>5, NewestStampIs
    <3>7. Newest(i)'
      BY <3>4, <3>5, <3>6 DEF Newest
    <3>8. FewSince(Len(history) - i)'
      <4>1. PICK k \in Nat : k = Len(history) - j
        BY <2>1
      <4>2. FewSince(k) /\ k = Len(history') - i
        BY <2>7, <3>2, <4>1
      <4>3. FewSince(k)'
        BY <1>1, <2>4, <2>5, <4>2 DEF FewSince, OneFile
      <4> QED BY <4>2, <4>3
    <3> QED BY <3>2, <3>6, <3>7, <3>8 DEF StampKept
  <2> QED BY <2>5, <2>6, <2>7 DEF StampInv, StampKept
<1> QED BY <1>2, <1>3

(* While expiry keeps the last stamp, no step of the maintenance is a step *)
(* of the stream.                                                          *)
LEMMA StepUnnoticed ==
    ASSUME FloorCoversUpkeep, StampInv, [MaintenanceNext]_allVars
    PROVE  [Next]_vars
<1>1. CASE ExpireSnapshots
  <2>1. lastStamp' = lastStamp
    BY <1>1, ExpiryKeepsStamps
  <2> QED BY <1>1, <2>1 DEF ExpireSnapshots, vars, bronzeVars
<1> QED BY <1>1, StepOfBronze

(* Only a compaction starts a replace. *)
LEMMA NotReplacing ==
    ASSUME FileInv,
           StartUpkeep \/ ListReferenced \/ DeleteOrphans \/ FinishUpkeep \/ KillUpkeep
    PROVE  upkeep'.step # "replace"
<1>1. CASE StartUpkeep
  BY <1>1 DEF StartUpkeep, NoUpkeep
<1>2. CASE ListReferenced \/ DeleteOrphans
  BY <1>2, FileTypes DEF ListReferenced, DeleteOrphans, Upkeep
<1>3. CASE FinishUpkeep \/ KillUpkeep
  BY <1>3 DEF FinishUpkeep, KillUpkeep, NoUpkeep
<1> QED BY <1>1, <1>2, <1>3

(* No snapshot, no stamp. *)
LEMMA StampInvInit == MaintenanceInit => StampInv
<1> SUFFICES ASSUME MaintenanceInit PROVE StampInv
  OBVIOUS
<1>1. FileInv /\ BronzeInv
  BY FileInvInit, BronzeInvInit DEF MaintenanceInit
<1>2. losses = 0 /\ lastStamp = NoStamp /\ history = <<>> /\ Len(history) = 0
  BY DEF MaintenanceInit, Init, QueryInit, BronzeInit
<1> QED BY <1>1, <1>2 DEF StampInv, StampKept, NothingAppended

(* No checkpoint is lost next to the maintenance. *)
LEMMA NothingLost ==
    ASSUME [MaintenanceNext]_allVars
    PROVE  losses' = losses
<1> USE DEF queryVars, driverVars
<1>1. CASE World \/ Proceed \/ UNCHANGED allVars
  BY <1>1 DEF World, Proceed, Start, Trigger, LookUpEpoch, StartDriver, PlanBatch, StopDriver,
     allVars, vars
<1>2. ASSUME NEW d \in Drivers, StageFile(d) \/ AddSnapshot(d) \/ Release(d)
      PROVE  losses' = losses
  BY <1>2 DEF StageFile, AddSnapshot, Release, WriteFiles, BeginBatch, CommitEpoch, Commit,
     CommitBatch, Crash, CrashDriver
<1>3. CASE UpkeepNext
  BY <1>3 DEF UpkeepNext, StartUpkeep, RewriteDataFiles, CommitRewrite, RewriteManifests,
     ExpireSnapshots, ListReferenced, DeleteOrphans, FinishUpkeep, KillUpkeep, vars
<1> QED BY <1>1, <1>2, <1>3 DEF MaintenanceNext

(* With the floor maintenance.py sets, expiry and the stream's idempotence *)
(* do not get in each other's way.                                         *)
LEMMA StampInvStep ==
    ASSUME FloorCoversUpkeep
    PROVE  StampInv /\ [MaintenanceNext]_allVars => StampInv'
<1> SUFFICES ASSUME StampInv, [MaintenanceNext]_allVars PROVE StampInv'
  OBVIOUS
<1>1. FileInv' /\ BronzeInv' /\ losses' = 0
  BY FileInvStep, StepUnnoticed, BronzeInvStep, NothingLost DEF StampInv
<1>2. CASE World \/ Proceed \/ UNCHANGED allVars
  <2>1. UNCHANGED <<history, lastStamp, upkeep>>
    BY <1>2 DEF World, Proceed, Start, Trigger, LookUpEpoch, bronzeVars, fileVars, upkeepVars,
       allVars, vars
  <2> QED BY <1>1, <2>1, StampsLeft DEF StampInv
<1>3. ASSUME NEW d \in Drivers, StageFile(d) \/ Release(d) PROVE StampInv'
  <2>1. UNCHANGED <<history, lastStamp, upkeep>>
    BY <1>3 DEF StageFile, Release, WriteFiles, Commit, Crash, upkeepVars
  <2> QED BY <1>1, <2>1, StampsLeft DEF StampInv
<1>4. ASSUME NEW d \in Drivers, AddSnapshot(d) PROVE StampInv'
  BY <1>1, <1>4, AppendIsNewest DEF StampInv
<1>5. CASE UpkeepNext
  <2>1. CASE StartUpkeep \/ ListReferenced \/ DeleteOrphans \/ FinishUpkeep \/ KillUpkeep
    <3>1. UNCHANGED <<history, lastStamp>>
      BY <2>1 DEF StartUpkeep, ListReferenced, DeleteOrphans, FinishUpkeep, KillUpkeep,
         vars, bronzeVars, fileVars
    <3>2. upkeep'.step # "replace"
      BY <2>1, NotReplacing DEF StampInv
    <3> QED BY <1>1, <3>1, <3>2, StampsLeft DEF StampInv
  <2>2. CASE RewriteDataFiles \/ CommitRewrite \/ RewriteManifests
    BY <1>1, <2>2, CompactionStarts, ReplaceIsBehind, ManifestsBehind DEF StampInv
  <2>3. CASE ExpireSnapshots
    BY <1>1, <2>3, ExpiryKeepsStamps DEF StampInv
  <2> QED BY <1>5, <2>1, <2>2, <2>3 DEF UpkeepNext
<1> QED BY <1>2, <1>3, <1>4, <1>5 DEF MaintenanceNext

(* StampInv holds in every reachable state. *)
LEMMA AlwaysStampInv ==
    ASSUME FloorCoversUpkeep
    PROVE  MaintenanceSpec => []StampInv
BY StampInvInit, StampInvStep, PTL DEF MaintenanceSpec

(* The stream cannot tell whether its table is maintained: next to any     *)
(* number of runs of maintain_tables.py it behaves as module BronzeStream  *)
(* says of it alone, however many drivers it has, if expiry keeps five     *)
(* snapshots.                                                              *)
THEOREM MaintenanceUnnoticed ==
    ASSUME FloorCoversUpkeep
    PROVE  MaintenanceSpec => Spec
<1>1. MaintenanceInit => Init
  BY DEF MaintenanceInit
<1>2. StampInv /\ [MaintenanceNext]_allVars => [Next]_vars
  BY StepUnnoticed
<1> QED BY <1>1, <1>2, AlwaysStampInv, PTL DEF MaintenanceSpec, Spec

(* With a floor of five snapshots and one driver no record is ever         *)
(* appended twice, however long the driver was down between its snapshot   *)
(* and commits/N, and whatever expiry dropped meanwhile.                   *)
THEOREM AppendedOnceThroughExpiry ==
    ASSUME OneDriver, FloorCoversUpkeep
    PROVE  MaintenanceSpec => []AppendedOnce
BY MaintenanceUnnoticed, BronzeAppendedOnce, PTL

-----------------------------------------------------------------------------
(* What the current files hold.                                            *)

(* A row of bronze as its data file has it. *)
Bare(r) == [p |-> r.p, o |-> r.o, frame |-> r.frame, at |-> r.at]

SnapBelow == \A r \in bronze : r.snap <= appends

SameRows == { r[1] : r \in UNION { f.rows : f \in Current } } = { Bare(r) : r \in bronze }

(* No two rows of the current files are copies of one record. *)
CurrentOnce ==
    \A f, g \in Current : \A r \in f.rows, s \in g.rows : r[1] = s[1] => f = g /\ r = s

(* A compaction under way: its inputs are still current, and its output    *)
(* holds their rows.                                                       *)
Merged ==
    upkeep.step = "replace" =>
        /\ upkeep.files \subseteq Current
        /\ \E g : upkeep.output = {g} /\ g.rows = UNION { f.rows : f \in upkeep.files }

TableFiles == StampInv /\ OnceInv /\ SnapBelow /\ SameRows /\ CurrentOnce /\ Merged

(* Steps that leave the rows and the current files alone. *)
LEMMA RowsLeft ==
    ASSUME SnapBelow, SameRows, CurrentOnce, Merged,
           UNCHANGED <<bronze, appends>>, Current' = Current,
           UNCHANGED upkeep \/ upkeep'.step # "replace"
    PROVE  SnapBelow' /\ SameRows' /\ CurrentOnce' /\ Merged'
<1>1. SnapBelow'
  BY DEF SnapBelow
<1>2. SameRows'
  BY DEF SameRows
<1>3. CurrentOnce'
  BY DEF CurrentOnce
<1>4. Merged'
  BY DEF Merged
<1> QED BY <1>1, <1>2, <1>3, <1>4

(* The append adds the rows its file has: none of them is in bronze yet,   *)
(* for no record is appended twice.                                        *)
LEMMA AppendAddsItsRows ==
    ASSUME TableFiles, StampInv', OnceInv', NEW d \in Drivers, AddSnapshot(d)
    PROVE  TableFiles'
<1>1. /\ pending[d] # {}
      /\ history' = NewSnapshot(Current \cup pending[d], <<losses, current[d].n>>, "append")
      /\ appends' = appends + 1
      /\ bronze' = bronze \cup Rows(staged[d], appends + 1)
      /\ upkeep' = upkeep
  BY DEF AddSnapshot, CommitEpoch, upkeepVars
<1>2. PICK f : pending[d] = {f} /\ f.rows = staged[d] \X {f.name}
  BY <1>1 DEF TableFiles, StampInv, FileInv, OneInFlight
<1>3. appends \in Nat /\ bronze \subseteq BronzeRow /\ staged[d] \subseteq StagedRow
  BY FileTypes DEF TableFiles, StampInv, BronzeTypeOK
<1>4. Current' = Current \cup {f}
  <2>1. pending[d] \subseteq DataFile /\ Current \subseteq DataFile
        /\ clock \in Nat /\ history \in Seq(Snapshot)
    BY FileTypes DEF TableFiles, StampInv
  <2>2. <<losses, current[d].n>> \in {<<>>} \cup (Nat \X Nat)
    BY FileTypes DEF TableFiles, StampInv, QueryTypeOK, Plan
  <2>3. "append" \in {"append", "rewrite", "manifests"}
    OBVIOUS
  <2>4. Current \cup pending[d] \in SUBSET DataFile
    BY <2>1
  <2>5. Current' = Current \cup pending[d]
    BY <1>1, <2>1, <2>2, <2>3, <2>4, Committed
  <2> QED BY <1>2, <2>5
<1>5. \A c \in staged[d] : \E b \in Rows(staged[d], appends + 1) :
         /\ Bare(b) = c /\ b.snap = appends + 1 /\ b.p = c.p /\ b.o = c.o
  <2> SUFFICES ASSUME NEW c \in staged[d]
               PROVE  \E b \in Rows(staged[d], appends + 1) :
                         /\ Bare(b) = c /\ b.snap = appends + 1 /\ b.p = c.p /\ b.o = c.o
    OBVIOUS
  <2> DEFINE b == [p |-> c.p, o |-> c.o, frame |-> c.frame, at |-> c.at, snap |-> appends + 1]
  <2>1. b \in Rows(staged[d], appends + 1)
    BY DEF Rows
  <2>2. c = [p |-> c.p, o |-> c.o, frame |-> c.frame, at |-> c.at]
    BY <1>3 DEF StagedRow
  <2>3. Bare(b) = c
    BY <2>2 DEF Bare
  <2>4. b.snap = appends + 1 /\ b.p = c.p /\ b.o = c.o
    OBVIOUS
  <2> QED BY <2>1, <2>3, <2>4
<1>6. \A b \in Rows(staged[d], appends + 1) : Bare(b) \in staged[d] /\ b.snap = appends + 1
  BY <1>3 DEF Rows, Bare, StagedRow
<1>7. SnapBelow'
  BY <1>1, <1>3, <1>6 DEF TableFiles, SnapBelow, BronzeRow
<1>8. SameRows'
  <2>1. ASSUME NEW g \in Current', NEW r \in g.rows
        PROVE  \E b \in bronze' : r[1] = Bare(b)
    <3>1. CASE g \in Current
      <4>1. r[1] \in { Bare(b) : b \in bronze }
        BY <2>1, <3>1 DEF TableFiles, SameRows
      <4> QED BY <1>1, <4>1
    <3>2. CASE g = f
      <4>1. r[1] \in staged[d]
        BY <1>2, <2>1, <3>2
      <4> QED BY <1>1, <1>5, <4>1
    <3> QED BY <1>4, <3>1, <3>2
  <2>2. ASSUME NEW b \in bronze'
        PROVE  \E g \in Current' : \E r \in g.rows : r[1] = Bare(b)
    <3>1. CASE b \in bronze
      <4>1. Bare(b) \in { r[1] : r \in UNION { g.rows : g \in Current } }
        BY <3>1 DEF TableFiles, SameRows
      <4> QED BY <1>4, <4>1
    <3>2. CASE b \in Rows(staged[d], appends + 1)
      <4>1. <<Bare(b), f.name>> \in f.rows
        BY <1>2, <1>6, <3>2
      <4> QED BY <1>4, <4>1
    <3> QED BY <1>1, <3>1, <3>2
  <2> QED BY <2>1, <2>2 DEF SameRows
<1>9. ASSUME NEW g \in Current, NEW s \in g.rows, NEW r \in f.rows PROVE r[1] # s[1]
  <2> SUFFICES ASSUME r[1] = s[1] PROVE FALSE
    OBVIOUS
  <2>1. PICK b \in bronze : s[1] = Bare(b)
    BY <1>9 DEF TableFiles, SameRows
  <2>2. r[1] \in staged[d]
    BY <1>2, <1>9
  <2>3. PICK c \in Rows(staged[d], appends + 1) :
          c.snap = appends + 1 /\ c.p = r[1].p /\ c.o = r[1].o
    BY <1>5, <2>2
  <2>4. b.p = c.p /\ b.o = c.o
    BY <2>1, <2>3 DEF Bare
  <2>5. b = c
    BY <1>1, <2>4 DEF StampInv, OnceInv, AppendedOnce
  <2>6. b.snap <= appends
    BY DEF TableFiles, SnapBelow
  <2> QED BY <1>3, <2>3, <2>5, <2>6
<1>10. CurrentOnce'
  <2> SUFFICES ASSUME NEW g \in Current', NEW h \in Current', NEW r \in g.rows, NEW s \in h.rows,
                      r[1] = s[1]
               PROVE  g = h /\ r = s
    BY DEF CurrentOnce
  <2>1. CASE g \in Current /\ h \in Current
    BY <2>1 DEF TableFiles, CurrentOnce
  <2>2. CASE g = f /\ h = f
    <3>1. r = <<r[1], f.name>> /\ s = <<s[1], f.name>>
      BY <1>2, <2>2
    <3> QED BY <2>2, <3>1
  <2>3. CASE (g = f /\ h \in Current) \/ (g \in Current /\ h = f)
    BY <1>9, <2>3
  <2> QED BY <1>4, <2>1, <2>2, <2>3
<1>11. Merged'
  BY <1>1, <1>4 DEF TableFiles, Merged
<1> QED BY <1>7, <1>8, <1>10, <1>11 DEF TableFiles

(* What a compaction reads is what it will replace. *)
LEMMA CompactionReadsRows ==
    ASSUME TableFiles, StampInv', OnceInv', RewriteDataFiles
    PROVE  TableFiles'
<1>1. UNCHANGED <<bronze, appends, history>>
  BY DEF RewriteDataFiles, vars, bronzeVars
<1>2. Current' = Current
  BY <1>1 DEF Current
<1>3. CASE Cardinality(Current) >= MIN_INPUT_FILES
  <2> DEFINE f == NewFile(UNION { g.rows : g \in Current })
  <2>1. /\ upkeep'.step = "replace" /\ upkeep'.files = Current /\ upkeep'.output = {f}
    BY <1>3, FileTypes DEF RewriteDataFiles, TableFiles, StampInv, Upkeep
  <2>2. f.rows = UNION { g.rows : g \in Current }
    BY DEF NewFile
  <2> HIDE DEF f
  <2>3. Merged'
    BY <1>2, <2>1, <2>2 DEF Merged
  <2>4. SnapBelow'
    BY <1>1 DEF TableFiles, SnapBelow
  <2>5. SameRows'
    BY <1>1, <1>2 DEF TableFiles, SameRows
  <2>6. CurrentOnce'
    BY <1>2 DEF TableFiles, CurrentOnce
  <2> QED BY <2>3, <2>4, <2>5, <2>6 DEF TableFiles
<1>4. CASE ~(Cardinality(Current) >= MIN_INPUT_FILES)
  <2>1. upkeep'.step # "replace"
    BY <1>4, FileTypes DEF RewriteDataFiles, Go, TableFiles, StampInv, Upkeep
  <2> QED BY <1>1, <1>2, <2>1, RowsLeft DEF TableFiles
<1> QED BY <1>3, <1>4

(* The replace moves rows from its inputs to its output, and the rows of   *)
(* every other file stay where they are.                                   *)
LEMMA ReplaceMovesRows ==
    ASSUME TableFiles, StampInv', OnceInv', CommitRewrite
    PROVE  TableFiles'
<1>1. /\ upkeep.step = "replace" /\ upkeep'.step = "rewrite_manifests"
      /\ history' = NewSnapshot(Replaced, <<>>, "rewrite")
      /\ UNCHANGED <<bronze, appends>>
  BY FileTypes DEF CommitRewrite, TableFiles, StampInv, Upkeep, vars, bronzeVars
<1>2. PICK g : /\ upkeep.files \subseteq Current /\ upkeep.output = {g}
               /\ g.rows = UNION { f.rows : f \in upkeep.files }
  BY <1>1 DEF TableFiles, Merged
<1>3. Current' = (Current \ upkeep.files) \cup {g}
  <2>1. Replaced \in SUBSET DataFile
    BY FileTypes DEF TableFiles, StampInv, Replaced
  <2>2. <<>> \in {<<>>} \cup (Nat \X Nat) /\ clock \in Nat /\ history \in Seq(Snapshot)
        /\ "rewrite" \in {"append", "rewrite", "manifests"}
    BY FileTypes DEF TableFiles, StampInv
  <2>3. Current' = Replaced
    BY <1>1, <2>1, <2>2, Committed
  <2> QED BY <1>2, <2>3 DEF Replaced
<1>4. \A f \in Current : \A r \in f.rows : \E h \in Current' : r \in h.rows
  BY <1>2, <1>3
<1>5. \A f \in Current' : \A r \in f.rows :
         \E h \in Current : r \in h.rows /\ (f = g => h \in upkeep.files) /\ (f # g => h = f)
  BY <1>2, <1>3
<1>6. SnapBelow'
  BY <1>1 DEF TableFiles, SnapBelow
<1>7. UNION { f.rows : f \in Current' } = UNION { f.rows : f \in Current }
  BY <1>4, <1>5
<1>8. SameRows'
  BY <1>1, <1>7 DEF TableFiles, SameRows
<1>9. CurrentOnce'
  <2> SUFFICES ASSUME NEW e \in Current', NEW f \in Current', NEW r \in e.rows, NEW s \in f.rows,
                      r[1] = s[1]
               PROVE  e = f /\ r = s
    BY DEF CurrentOnce
  <2>1. PICK h \in Current : r \in h.rows /\ (e = g => h \in upkeep.files) /\ (e # g => h = e)
    BY <1>5
  <2>2. PICK i \in Current : s \in i.rows /\ (f = g => i \in upkeep.files) /\ (f # g => i = f)
    BY <1>5
  <2>3. h = i /\ r = s
    BY <2>1, <2>2 DEF TableFiles, CurrentOnce
  <2>4. e # g => e \notin upkeep.files
    BY <1>3
  <2>5. f # g => f \notin upkeep.files
    BY <1>3
  <2> QED BY <2>1, <2>2, <2>3, <2>4, <2>5
<1>10. Merged'
  BY <1>1 DEF Merged
<1> QED BY <1>6, <1>8, <1>9, <1>10 DEF TableFiles

(* Before the first append there is nothing to hold. *)
LEMMA TableFilesInit == MaintenanceInit => TableFiles
<1> SUFFICES ASSUME MaintenanceInit PROVE TableFiles
  OBVIOUS
<1>1. StampInv /\ OnceInv
  BY StampInvInit, BronzeInvInit DEF MaintenanceInit
<1>2. bronze = {} /\ history = <<>> /\ upkeep.step = "idle"
  BY DEF MaintenanceInit, Init, BronzeInit, NoUpkeep
<1>3. Current = {}
  BY <1>2 DEF Current
<1> QED BY <1>1, <1>2, <1>3 DEF TableFiles, SnapBelow, SameRows, CurrentOnce, Merged

(* Every step of the stream and of the maintenance keeps the contents.     *)
LEMMA TableFilesStep ==
    ASSUME OneDriver, FloorCoversUpkeep
    PROVE  TableFiles /\ [MaintenanceNext]_allVars => TableFiles'
<1> SUFFICES ASSUME TableFiles, [MaintenanceNext]_allVars PROVE TableFiles'
  OBVIOUS
<1>1. StampInv' /\ OnceInv'
  BY StampInvStep, StepUnnoticed, OnceStep DEF TableFiles, StampInv
<1>2. CASE World \/ Proceed \/ UNCHANGED allVars
  <2>1. UNCHANGED <<bronze, appends, history, upkeep>>
    BY <1>2 DEF World, Proceed, Start, Trigger, LookUpEpoch, bronzeVars, fileVars, upkeepVars,
       allVars, vars
  <2>2. Current' = Current
    BY <2>1 DEF Current
  <2> QED BY <1>1, <2>1, <2>2, RowsLeft DEF TableFiles
<1>3. ASSUME NEW d \in Drivers, StageFile(d) \/ Release(d) PROVE TableFiles'
  <2>1. UNCHANGED <<bronze, appends, history, upkeep>>
    BY <1>3 DEF StageFile, Release, WriteFiles, Commit, Crash, upkeepVars
  <2>2. Current' = Current
    BY <2>1 DEF Current
  <2> QED BY <1>1, <2>1, <2>2, RowsLeft DEF TableFiles
<1>4. ASSUME NEW d \in Drivers, AddSnapshot(d) PROVE TableFiles'
  BY <1>1, <1>4, AppendAddsItsRows
<1>5. CASE UpkeepNext
  <2>1. CASE RewriteDataFiles \/ CommitRewrite
    BY <1>1, <2>1, CompactionReadsRows, ReplaceMovesRows
  <2>2. CASE StartUpkeep \/ ListReferenced \/ DeleteOrphans \/ FinishUpkeep \/ KillUpkeep
    <3>1. UNCHANGED <<bronze, appends, history>>
      BY <2>2 DEF StartUpkeep, ListReferenced, DeleteOrphans, FinishUpkeep, KillUpkeep,
         vars, bronzeVars, fileVars
    <3>2. Current' = Current
      BY <3>1 DEF Current
    <3>3. upkeep'.step # "replace"
      BY <2>2, NotReplacing DEF TableFiles, StampInv
    <3> QED BY <1>1, <3>1, <3>2, <3>3, RowsLeft DEF TableFiles
  <2>3. CASE RewriteManifests
    <3>1. UNCHANGED <<bronze, appends>> /\ upkeep'.step # "replace"
      BY <2>3, FileTypes DEF RewriteManifests, Go, TableFiles, StampInv, Upkeep, vars, bronzeVars
    <3>2. Current' = Current
      <4>1. CASE UNCHANGED history
        BY <4>1 DEF Current
      <4>2. CASE history' = NewSnapshot(Current, <<>>, "manifests")
        <5>1. Current \in SUBSET DataFile /\ clock \in Nat /\ history \in Seq(Snapshot)
              /\ <<>> \in {<<>>} \cup (Nat \X Nat)
              /\ "manifests" \in {"append", "rewrite", "manifests"}
          BY FileTypes DEF TableFiles, StampInv
        <5> QED BY <4>2, <5>1, Committed
      <4> QED BY <2>3, <4>1, <4>2 DEF RewriteManifests
    <3> QED BY <1>1, <3>1, <3>2, RowsLeft DEF TableFiles
  <2>4. CASE ExpireSnapshots
    <3>1. UNCHANGED <<bronze, appends>> /\ upkeep'.step # "replace"
      BY <2>4, FileTypes DEF ExpireSnapshots, Go, TableFiles, StampInv, Upkeep
    <3>2. Current' = Current
      BY <2>4, ExpiryKeepsStamps DEF TableFiles
    <3> QED BY <1>1, <3>1, <3>2, RowsLeft DEF TableFiles
  <2> QED BY <1>5, <2>1, <2>2, <2>3, <2>4 DEF UpkeepNext
<1> QED BY <1>2, <1>3, <1>4, <1>5 DEF MaintenanceNext

(* TableFiles holds in every reachable state. *)
LEMMA AlwaysTableFiles ==
    ASSUME OneDriver, FloorCoversUpkeep
    PROVE  MaintenanceSpec => []TableFiles
BY TableFilesInit, TableFilesStep, PTL DEF MaintenanceSpec

(* The current files hold as many rows as bronze has, and finitely many.   *)
LEMMA AsManyRows ==
    ASSUME TableFiles
    PROVE  IsFiniteSet(bronze) /\ RowCount(Current) = Cardinality(bronze)
<1> DEFINE pairs == UNION { {f} \X f.rows : f \in Current }
           of == [x \in pairs |-> CHOOSE r \in bronze : Bare(r) = x[2][1]]
<1>1. IsFiniteSet(pairs)
  BY CountIsNumber DEF TableFiles, StampInv
<1>2. ASSUME NEW x \in pairs
      PROVE  x[1] \in Current /\ x[2] \in x[1].rows /\ x = <<x[1], x[2]>>
  OBVIOUS
<1>3. ASSUME NEW x \in pairs
      PROVE  of[x] \in bronze /\ Bare(of[x]) = x[2][1]
  <2>1. x[2][1] \in { Bare(r) : r \in bronze }
    BY <1>2 DEF TableFiles, SameRows
  <2> QED BY <2>1
<1>4. of \in [pairs -> bronze]
  BY <1>3
<1> HIDE DEF of
<1>5. ASSUME NEW r \in bronze PROVE \E x \in pairs : of[x] = r
  <2>1. Bare(r) \in { s[1] : s \in UNION { f.rows : f \in Current } }
    BY DEF TableFiles, SameRows
  <2>2. PICK f \in Current : \E s \in f.rows : s[1] = Bare(r)
    BY <2>1
  <2>3. PICK s \in f.rows : s[1] = Bare(r)
    BY <2>2
  <2>4. <<f, s>> \in pairs
    BY <2>2, <2>3
  <2>5. of[<<f, s>>] \in bronze /\ Bare(of[<<f, s>>]) = Bare(r)
    BY <1>3, <2>3, <2>4
  <2>6. of[<<f, s>>].p = r.p /\ of[<<f, s>>].o = r.o
    BY <2>5 DEF Bare
  <2>7. of[<<f, s>>] = r
    BY <2>5, <2>6 DEF TableFiles, StampInv, OnceInv, AppendedOnce
  <2> QED BY <2>4, <2>7
<1>6. ASSUME NEW x \in pairs, NEW y \in pairs, of[x] = of[y] PROVE x = y
  <2>1. x[2][1] = y[2][1]
    BY <1>3, <1>6
  <2>2. x[1] = y[1] /\ x[2] = y[2]
    BY <1>2, <2>1 DEF TableFiles, CurrentOnce
  <2> QED BY <1>2, <2>2
<1> HIDE DEF pairs
<1>7. of \in Bijection(pairs, bronze)
  BY <1>4, <1>5, <1>6 DEF Bijection, Injection, Surjection, IsInjective
<1>8. IsFiniteSet(bronze) /\ Cardinality(bronze) = Cardinality(pairs)
  <2>1. ExistsBijection(pairs, bronze)
    BY <1>7 DEF ExistsBijection
  <2> QED BY <1>1, <2>1, FS_Bijection
<1>9. RowCount(Current) = Cardinality(pairs)
  BY DEF RowCount, pairs
<1> QED BY <1>8, <1>9

(* Maintenance never changes what a reader finds: whatever is compacted,   *)
(* expired and removed, and wherever the stream commits in between, the    *)
(* current files hold the appended rows, each once.                        *)
THEOREM ContentsAlwaysKept ==
    ASSUME OneDriver, FloorCoversUpkeep
    PROVE  MaintenanceSpec => []ContentsKept
<1>1. TableFiles => ContentsKept
  <2> SUFFICES ASSUME TableFiles PROVE ContentsKept
    OBVIOUS
  <2>1. { Bare(r) : r \in bronze }
            = { [p |-> r.p, o |-> r.o, frame |-> r.frame, at |-> r.at] : r \in bronze }
    BY DEF Bare
  <2> QED BY <2>1, AsManyRows DEF TableFiles, SameRows, ContentsKept
<1> QED BY <1>1, AlwaysTableFiles, PTL

-----------------------------------------------------------------------------
(* What an observation of the table and of the topic can tell.             *)

(* The offsets the topic's version counts, as a set. *)
OffsetsBelow == UNION { {p} \X (1..Len(log[p])) : p \in Partitions }

(* They are finitely many, and the version is how many they are.           *)
LEMMA TopicVersionCounts ==
    ASSUME TopicTypeOK
    PROVE  IsFiniteSet(OffsetsBelow) /\ TopicVersion = Cardinality(OffsetsBelow)
<1>1. \A p \in Partitions : Len(log[p]) \in Nat /\ partition_watermarks[p][2] = Len(log[p])
  BY DEF TopicTypeOK, partition_watermarks
<1> DEFINE parts == { {p} \X (1..Len(log[p])) : p \in Partitions }
           part == [p \in Partitions |-> {p} \X (1..Len(log[p]))]
<1>2. part \in Surjection(Partitions, parts)
  BY DEF Surjection
<1>3. \A S \in parts : IsFiniteSet(S)
  <2> SUFFICES ASSUME NEW p \in Partitions PROVE IsFiniteSet({p} \X (1..Len(log[p])))
    OBVIOUS
  <2>1. IsFiniteSet({p})
    BY FS_Singleton
  <2>2. IsFiniteSet(1..Len(log[p]))
    BY <1>1, FS_Interval
  <2> QED BY <2>1, <2>2, FS_Product
<1>4. OffsetsBelow = UNION parts
  BY DEF OffsetsBelow
<1> HIDE DEF part, parts
<1>5. IsFiniteSet(parts)
  BY <1>2, FS_Surjection, UpkeepSettings
<1>6. IsFiniteSet(OffsetsBelow)
  BY <1>3, <1>4, <1>5, FS_UNION
<1>7. TopicVersion = Cardinality(OffsetsBelow)
  <2>1. UNION { {p} \X (1..partition_watermarks[p][2]) : p \in Partitions } = OffsetsBelow
    BY <1>1 DEF OffsetsBelow
  <2> QED BY <2>1 DEF TopicVersion
<1> QED BY <1>6, <1>7

(* What the versions count: the offsets below the high watermarks, and the *)
(* rows of bronze.                                                         *)
Counted == /\ TopicTypeOK
           /\ TopicVersion = Cardinality(OffsetsBelow) /\ IsFiniteSet(OffsetsBelow)
           /\ BronzeVersion = Cardinality(bronze) /\ IsFiniteSet(bronze)

(* The versions count what they stand for in every reachable state.        *)
LEMMA AlwaysCounted ==
    ASSUME OneDriver, FloorCoversUpkeep
    PROVE  MaintenanceSpec => []Counted
<1>1. TableFiles => Counted
  <2> SUFFICES ASSUME TableFiles PROVE Counted
    OBVIOUS
  <2>1. TopicTypeOK
    BY FileTypes DEF TableFiles, StampInv
  <2> QED BY <2>1, TopicVersionCounts, AsManyRows DEF BronzeVersion, Counted
<1> QED BY <1>1, AlwaysTableFiles, PTL

(* The topic's version changes when a record is published, and only then.  *)
LEMMA TopicVersionTells ==
    ASSUME Counted, Counted', TopicNext \/ UNCHANGED topicVars
    PROVE  TopicVersion' = TopicVersion <=> log' = log
<1>1. CASE log' = log
  <2>1. OffsetsBelow' = OffsetsBelow
    BY <1>1 DEF OffsetsBelow
  <2> QED BY <1>1, <2>1 DEF Counted
<1>2. CASE log' # log
  <2>1. PICK p \in Partitions, f \in Frame : Publish(p, f)
    BY <1>2 DEF TopicNext, Expire, Tick, topicVars
  <2>2. /\ log' = [log EXCEPT ![p] = Append(log[p], f)]
        /\ log \in [Partitions -> Seq(Frame)]
    BY <2>1 DEF Publish, Counted, TopicTypeOK
  <2>3. /\ Len(log'[p]) = Len(log[p]) + 1 /\ Len(log[p]) \in Nat
        /\ \A q \in Partitions : q # p => log'[q] = log[q]
    BY <2>2
  <2>4. OffsetsBelow \subseteq OffsetsBelow'
    <3> SUFFICES ASSUME NEW q \in Partitions, NEW i \in 1..Len(log[q])
                 PROVE  <<q, i>> \in OffsetsBelow'
      BY DEF OffsetsBelow
    <3>1. i \in 1..Len(log'[q])
      BY <2>3
    <3> QED BY <3>1 DEF OffsetsBelow
  <2>5. <<p, Len(log[p]) + 1>> \in OffsetsBelow' /\ <<p, Len(log[p]) + 1>> \notin OffsetsBelow
    <3>1. Len(log[p]) + 1 \in 1..Len(log'[p]) /\ Len(log[p]) + 1 \notin 1..Len(log[p])
      BY <2>3
    <3> QED BY <3>1 DEF OffsetsBelow
  <2>6. /\ TopicVersion = Cardinality(OffsetsBelow)
        /\ TopicVersion' = Cardinality(OffsetsBelow') /\ IsFiniteSet(OffsetsBelow')
    BY DEF Counted
  <2>7. Cardinality(OffsetsBelow') # Cardinality(OffsetsBelow)
    BY <2>4, <2>5, <2>6, FS_Subset
  <2> QED BY <1>2, <2>6, <2>7
<1> QED BY <1>1, <1>2

(* Only records, retention and time change the topic, and no step takes a  *)
(* row from bronze.                                                        *)
LEMMA TopicOrTable ==
    ASSUME [MaintenanceNext]_allVars
    PROVE  (TopicNext \/ UNCHANGED topicVars) /\ bronze \subseteq bronze'
<1>1. CASE ExpireSnapshots
  BY <1>1 DEF ExpireSnapshots
<1>2. CASE TopicNext /\ UNCHANGED <<bronzeVars, queryVars>>
  BY <1>2 DEF bronzeVars
<1>3. ASSUME NEW d \in Drivers, DriverStep(d) \/ Crash(d)
      PROVE  UNCHANGED topicVars /\ bronze \subseteq bronze'
  BY <1>3 DEF DriverStep, Start, Trigger, WriteFiles, LookUpEpoch, CommitEpoch, Commit, Crash,
     bronzeVars
<1>4. CASE LoseCheckpoint \/ UNCHANGED vars
  BY <1>4 DEF LoseCheckpoint, vars, bronzeVars
<1> QED BY <1>1, <1>2, <1>3, <1>4, StepOfBronze DEF Next, BronzeNext

(* Dagster's data versions tell growth, and nothing else: retention, a     *)
(* compaction, an expiry or an orphan removal changes neither, an append   *)
(* or a published record changes its own (lakehouse.py).                   *)
THEOREM VersionsAlwaysTellGrowth ==
    ASSUME OneDriver, FloorCoversUpkeep
    PROVE  MaintenanceSpec => VersionsTellGrowth
<1>1. ASSUME Counted, Counted', [MaintenanceNext]_allVars
      PROVE  /\ (TopicVersion' = TopicVersion) = (log' = log)
             /\ (BronzeVersion' = BronzeVersion) = (bronze' = bronze)
  <2>1. (TopicNext \/ UNCHANGED topicVars) /\ bronze \subseteq bronze'
    BY <1>1, TopicOrTable
  <2>2. TopicVersion' = TopicVersion <=> log' = log
    BY <1>1, <2>1, TopicVersionTells
  <2>3. BronzeVersion' = BronzeVersion <=> bronze' = bronze
    BY <1>1, <2>1, FS_Subset DEF Counted
  <2> QED BY <2>2, <2>3
<1> QED BY <1>1, AlwaysCounted, PTL DEF MaintenanceSpec, VersionsTellGrowth
=============================================================================
