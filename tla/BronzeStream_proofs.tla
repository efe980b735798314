------------------------ MODULE BronzeStream_proofs ------------------------
(***************************************************************************)
(* Theorems about the bronze stream, for any number of drivers, crashes    *)
(* and checkpoint losses.  The inductive invariant relates the table to    *)
(* the newest offsets entry and to what each driver's sink has seen: what  *)
(* lies below the entry's range is in the table, and so is the range       *)
(* itself once its epoch is known or confirmed.  That no record is         *)
(* appended twice is a theorem about one driver: the sink looks for the    *)
(* epoch and appends in two steps.                                         *)
(***************************************************************************)
EXTENDS BronzeChecks, StreamingQuery_proofs

InBronze(p, o) == \E r \in bronze : r.p = p /\ r.o = o

(* The table has what Kafka has of entry q and of all that is before it. *)
Holds(q) == \A p \in Partitions, o \in Nat : low[p] <= o /\ o < q.to[p] => InBronze(p, o)

(* A row is the record of the log at its offset. *)
RowsFromLog == \A r \in bronze : r.o < Len(log[r.p]) /\ r.frame = log[r.p][r.o + 1]

(* No snapshot is stamped with an epoch that is not planned yet. *)
StampBelow == lastStamp[1] <= losses /\ (lastStamp[1] = losses => lastStamp[2] <= plan.n)

(* What is unexpired below the newest range is in the table, and so is     *)
(* the range once the table's last epoch is this one or it is confirmed.   *)
BehindPlan ==
    /\ \A p \in Partitions, o \in Nat : low[p] <= o /\ o < plan.from[p] => InBronze(p, o)
    /\ KnownEpoch(plan.n) \/ committed = plan.n => Holds(plan)

TableInv == RowsFromLog /\ StampBelow /\ BehindPlan /\ NoHole

(* No entry yet: no offset is confirmed. *)
FirstEntry == plan.n = 0 => \A p \in Partitions : plan.from[p] = 0 /\ plan.to[p] = 0

(* A driver runs numbered entries only; the files it has written are the   *)
(* unexpired records of its entry's range, stamped with the entry's time.  *)
StagedRange(d) ==
    /\ running[d] = "planned" => current[d].n > 0
    /\ running[d] = "writing" =>
        /\ current[d].n > 0
        /\ \A c \in staged[d] :
             /\ current[d].from[c.p] <= c.o /\ c.o < current[d].to[c.p]
             /\ c.frame = log[c.p][c.o + 1] /\ c.at = current[d].at
        /\ \A p \in Partitions, o \in Nat :
             low[p] <= o /\ current[d].from[p] <= o /\ o < current[d].to[p]
                 => \E c \in staged[d] : c.p = p /\ c.o = o

(* A sink works for a running batch; when it is done the table has the     *)
(* batch.  An entry that is not the newest lies below the newest.          *)
SinkTrue(d) ==
    /\ sink[d] # "idle" => running[d] = "writing"
    /\ sink[d] = "done" => Holds(current[d])
    /\ running[d] # "down" /\ current[d].n < plan.n =>
           \A p \in Partitions : current[d].to[p] <= plan.from[p]

BronzeInv == /\ CheckpointInv
             /\ BronzeTypeOK
             /\ TableInv
             /\ FirstEntry
             /\ \A d \in Drivers : StagedRange(d) /\ SinkTrue(d)

-----------------------------------------------------------------------------
(* Steps that leave the table alone.                                       *)

(* The table's invariant speaks of the table, the newest entry, what is    *)
(* confirmed and the topic only.                                           *)
LEMMA TableKept ==
    ASSUME TableInv, UNCHANGED <<topicVars, bronze, lastStamp, losses, plan, committed>>
    PROVE  TableInv'
<1>1. RowsFromLog' /\ StampBelow' /\ NoHole'
  BY DEF TableInv, RowsFromLog, StampBelow, NoHole, topicVars
<1>2. KnownEpoch(plan.n)' = KnownEpoch(plan.n)
  BY DEF KnownEpoch
<1>3. BehindPlan'
  BY <1>2 DEF TableInv, BehindPlan, Holds, InBronze, topicVars
<1> QED BY <1>1, <1>3 DEF TableInv

(* A driver whose files, entry and sink stay is not disturbed by what the  *)
(* others do to the checkpoint's end or to themselves.                     *)
LEMMA DriverKept ==
    ASSUME NEW d \in Drivers, StagedRange(d), SinkTrue(d), UNCHANGED <<topicVars, bronze, plan>>,
           running'[d] = running[d], current'[d] = current[d], staged'[d] = staged[d],
           sink'[d] = sink[d]
    PROVE  StagedRange(d)' /\ SinkTrue(d)'
<1>1. StagedRange(d)'
  BY DEF StagedRange, topicVars
<1>2. sink'[d] = "done" => Holds(current[d])'
  BY DEF SinkTrue, Holds, InBronze, topicVars
<1>3. SinkTrue(d)'
  BY <1>2 DEF SinkTrue
<1> QED BY <1>1, <1>3

(* What the table holds it goes on to hold: it only grows, and so does     *)
(* what has expired.                                                       *)
LEMMA HoldsKept ==
    ASSUME NEW q, Holds(q), bronze \subseteq bronze',
           \A p \in Partitions : low[p] \in Nat /\ low'[p] \in Nat /\ low[p] <= low'[p]
    PROVE  \A p \in Partitions, o \in Nat :
               low'[p] <= o /\ o < q.to[p] => \E r \in bronze' : r.p = p /\ r.o = o
BY DEF Holds, InBronze

(* Publishing and retention: records keep their offsets, and what expires  *)
(* needs no row.                                                           *)
LEMMA TopicKeepsBronze ==
    ASSUME BronzeInv, TopicNext, UNCHANGED <<bronzeVars, queryVars>>
    PROVE  BronzeInv'
<1> USE DEF bronzeVars, queryVars, checkpointVars, driverVars
<1>1. CheckpointInv'
  BY TopicKeepsCheckpoint DEF BronzeInv
<1>2. /\ TopicTypeOK /\ TopicTypeOK'
      /\ \A p \in Partitions :
           /\ low[p] <= low'[p]
           /\ Len(log[p]) <= Len(log'[p])
           /\ \A i \in 1..Len(log[p]) : log'[p][i] = log[p][i]
  BY LogGrows DEF BronzeInv, CheckpointInv
<1>3. /\ \A p \in Partitions : /\ low[p] \in Nat /\ low'[p] \in Nat
                               /\ Len(log[p]) \in Nat /\ Len(log'[p]) \in Nat
  BY <1>2 DEF TopicTypeOK
<1>4. BronzeTypeOK' /\ FirstEntry'
  BY DEF BronzeInv, BronzeTypeOK, FirstEntry
<1>5. RowsFromLog'
  <2> SUFFICES ASSUME NEW r \in bronze
               PROVE  r.o < Len(log'[r.p]) /\ r.frame = log'[r.p][r.o + 1]
    BY DEF RowsFromLog
  <2>1. r.p \in Partitions /\ r.o \in Nat
    BY DEF BronzeInv, BronzeTypeOK, BronzeRow
  <2>2. r.o < Len(log[r.p]) /\ r.frame = log[r.p][r.o + 1]
    BY DEF BronzeInv, TableInv, RowsFromLog
  <2>3. r.o + 1 \in 1..Len(log[r.p])
    BY <2>1, <2>2, <1>3
  <2> QED BY <2>1, <2>2, <2>3, <1>2, <1>3
<1>6. StampBelow'
  BY DEF BronzeInv, TableInv, StampBelow
<1>7. BehindPlan'
  <2>1. KnownEpoch(plan.n)' = KnownEpoch(plan.n)
    BY DEF KnownEpoch
  <2>2. \A p \in Partitions, o \in Nat : low'[p] <= o /\ o < plan.from[p] => InBronze(p, o)'
    BY <1>2, <1>3 DEF BronzeInv, TableInv, BehindPlan, InBronze
  <2>3. KnownEpoch(plan.n) \/ committed = plan.n => Holds(plan)'
    BY <1>2, <1>3, HoldsKept DEF BronzeInv, TableInv, BehindPlan, Holds, InBronze
  <2> QED BY <2>1, <2>2, <2>3 DEF BehindPlan
<1>8. NoHole'
  <2> SUFFICES ASSUME NEW r \in bronze, NEW o \in low'[r.p]..r.o
               PROVE  \E s \in bronze : s.p = r.p /\ s.o = o
    BY DEF NoHole
  <2>1. r.p \in Partitions /\ r.o \in Nat
    BY DEF BronzeInv, BronzeTypeOK, BronzeRow
  <2>2. o \in low[r.p]..r.o
    BY <2>1, <1>2, <1>3
  <2> QED BY <2>2 DEF BronzeInv, TableInv, NoHole
<1>9. ASSUME NEW d \in Drivers PROVE StagedRange(d)'
  <2>1. StagedRange(d)
    BY DEF BronzeInv
  <2>2. CASE running[d] = "writing"
    <3>1. ASSUME NEW c \in staged[d]
          PROVE  c.frame = log'[c.p][c.o + 1]
      <4>1. c.p \in Partitions /\ c.o \in Nat
        BY DEF BronzeInv, BronzeTypeOK, StagedRow
      <4>2. c.o < current[d].to[c.p] /\ c.frame = log[c.p][c.o + 1]
        BY <2>1, <2>2 DEF StagedRange
      <4>3. current[d].to[c.p] \in Nat /\ current[d].to[c.p] <= Len(log[c.p])
        BY <4>1 DEF BronzeInv, CheckpointInv, QueryTypeOK, Plan, Offsets, Planned
      <4>4. c.o + 1 \in 1..Len(log[c.p])
        BY <4>1, <4>2, <4>3, <1>3
      <4> QED BY <4>1, <4>2, <4>4, <1>2
    <3>2. \A p \in Partitions, o \in Nat :
             low'[p] <= o /\ current[d].from[p] <= o /\ o < current[d].to[p]
                 => \E c \in staged[d] : c.p = p /\ c.o = o
      BY <2>1, <2>2, <1>2, <1>3 DEF StagedRange
    <3> QED BY <2>1, <2>2, <3>1, <3>2 DEF StagedRange
  <2>3. CASE running[d] # "writing"
    BY <2>1, <2>3 DEF StagedRange
  <2> QED BY <2>2, <2>3
<1>10. ASSUME NEW d \in Drivers PROVE SinkTrue(d)'
  <2>1. sink[d] = "done" => Holds(current[d])'
    BY <1>2, <1>3, HoldsKept DEF BronzeInv, SinkTrue, Holds, InBronze
  <2> QED BY <2>1 DEF BronzeInv, SinkTrue
<1> QED BY <1>1, <1>4, <1>5, <1>6, <1>7, <1>8, <1>9, <1>10 DEF BronzeInv, TableInv

(* The other drivers are not disturbed by what driver d does. *)
LEMMA OthersKept ==
    ASSUME BronzeInv, NEW d \in Drivers, NEW e \in Drivers, e # d,
           UNCHANGED <<topicVars, bronze, plan>>,
           running'[e] = running[e], current'[e] = current[e],
           staged' = staged \/ \E S : staged' = [staged EXCEPT ![d] = S],
           sink' = sink \/ \E x : sink' = [sink EXCEPT ![d] = x]
    PROVE  StagedRange(e)' /\ SinkTrue(e)'
<1>1. staged'[e] = staged[e] /\ sink'[e] = sink[e]
  BY DEF BronzeInv, BronzeTypeOK
<1>2. StagedRange(e) /\ SinkTrue(e)
  BY DEF BronzeInv
<1> QED BY <1>1, <1>2, DriverKept

(* A driver that starts has written nothing and runs a numbered entry. *)
LEMMA StartKeepsBronze ==
    ASSUME BronzeInv, NEW d \in Drivers, Start(d)
    PROVE  BronzeInv'
<1> USE DEF bronzeVars, checkpointVars
<1>1. CheckpointInv'
  BY StartKeeps DEF BronzeInv, Start
<1>2. TableInv'
  BY TableKept DEF BronzeInv, Start, StartDriver
<1>3. BronzeTypeOK' /\ FirstEntry'
  BY DEF BronzeInv, BronzeTypeOK, FirstEntry, Start, StartDriver
<1>4. ASSUME NEW e \in Drivers PROVE StagedRange(e)' /\ SinkTrue(e)'
  <2>1. running \in [Drivers -> DriverStates] /\ current \in [Drivers -> Plan]
    BY DEF BronzeInv, CheckpointInv, QueryTypeOK
  <2>2. CASE e # d
    BY <2>1, <2>2, OthersKept DEF Start, StartDriver
  <2>3. CASE e = d
    <3>1. plan.n \in Nat /\ committed \in Nat
      BY DEF BronzeInv, CheckpointInv, QueryTypeOK, Plan
    <3>2. running'[d] \in {"planned", "waiting"} /\ current'[d] = plan /\ plan' = plan
      BY <2>1 DEF Start, StartDriver
    <3>3. running'[d] = "planned" => plan.n > 0
      BY <2>1, <3>1 DEF Start, StartDriver
    <3>4. sink'[d] = "idle"
      BY DEF BronzeInv, SinkTrue, Start, StartDriver
    <3>5. StagedRange(d)'
      BY <3>2, <3>3 DEF StagedRange
    <3>6. SinkTrue(d)'
      BY <3>1, <3>2, <3>4 DEF SinkTrue
    <3> QED BY <2>3, <3>5, <3>6
  <2> QED BY <2>2, <2>3
<1> QED BY <1>1, <1>2, <1>3, <1>4 DEF BronzeInv

(* A driver that is down has no files, and its sink is idle. *)
LEMMA StopKeepsDrivers ==
    ASSUME BronzeInv, NEW d \in Drivers, StopDriver(d), UNCHANGED <<topicVars, bronze, plan>>,
           staged' = staged \/ \E S : staged' = [staged EXCEPT ![d] = S],
           sink' = sink \/ \E x : sink' = [sink EXCEPT ![d] = x],
           sink'[d] = "idle"
    PROVE  \A e \in Drivers : StagedRange(e)' /\ SinkTrue(e)'
<1>1. running \in [Drivers -> DriverStates] /\ current \in [Drivers -> Plan]
  BY DEF BronzeInv, CheckpointInv, QueryTypeOK
<1>2. ASSUME NEW e \in Drivers, e # d PROVE StagedRange(e)' /\ SinkTrue(e)'
  BY <1>1, <1>2, OthersKept DEF StopDriver
<1>3. StagedRange(d)' /\ SinkTrue(d)'
  BY <1>1 DEF StopDriver, StagedRange, SinkTrue
<1> QED BY <1>2, <1>3

(* The files of a driver that crashed before the snapshot are orphans. *)
LEMMA CrashKeepsBronze ==
    ASSUME BronzeInv, NEW d \in Drivers, Crash(d)
    PROVE  BronzeInv'
<1> USE DEF checkpointVars
<1>1. CheckpointInv'
  BY CrashKeeps DEF BronzeInv, Crash
<1>2. TableInv'
  BY TableKept DEF BronzeInv, Crash, CrashDriver
<1>3. BronzeTypeOK' /\ FirstEntry'
  BY DEF BronzeInv, BronzeTypeOK, SinkStates, FirstEntry, Crash, CrashDriver, Forget
<1>4. \A e \in Drivers : StagedRange(e)' /\ SinkTrue(e)'
  <2>1. sink'[d] = "idle"
    BY DEF BronzeInv, BronzeTypeOK, Crash, Forget
  <2> QED BY <2>1, StopKeepsDrivers DEF Crash, CrashDriver, Forget
<1> QED BY <1>1, <1>2, <1>3, <1>4 DEF BronzeInv

(* A new entry starts where the confirmed one ends: all below it is in the *)
(* table.                                                                  *)
LEMMA TriggerKeepsBronze ==
    ASSUME BronzeInv, NEW d \in Drivers, Trigger(d)
    PROVE  BronzeInv'
<1> USE DEF bronzeVars, checkpointVars
<1>1. CheckpointInv'
  BY PlanKeeps DEF BronzeInv, Trigger
<1>2. BronzeTypeOK'
  BY DEF BronzeInv, BronzeTypeOK, Trigger
<1>3. CASE plan # current[d]
  <2>1. StopDriver(d) /\ UNCHANGED <<topicVars, plan, committed, losses, bronzeVars>>
    BY <1>3 DEF Trigger, PlanBatch
  <2>2. TableInv'
    BY <2>1, TableKept DEF BronzeInv
  <2>3. FirstEntry'
    BY <2>1 DEF BronzeInv, FirstEntry
  <2>4. \A e \in Drivers : StagedRange(e)' /\ SinkTrue(e)'
    <3>1. sink'[d] = "idle"
      BY <2>1 DEF BronzeInv, SinkTrue, Trigger, PlanBatch
    <3> QED BY <2>1, <3>1, StopKeepsDrivers
  <2> QED BY <1>1, <1>2, <2>2, <2>3, <2>4 DEF BronzeInv
<1>4. CASE plan = current[d]
  <2>1. PICK to \in EndsFrom(StartOf(plan)) :
          /\ plan' = [n |-> plan.n + 1, from |-> StartOf(plan), to |-> to, at |-> clock]
          /\ running' = [running EXCEPT ![d] = "planned"]
          /\ current' = [current EXCEPT ![d] = plan']
    BY <1>4 DEF Trigger, PlanBatch
  <2>2. UNCHANGED <<topicVars, committed, losses, bronze, lastStamp, staged, sink>>
    BY DEF Trigger, PlanBatch
  <2>3. /\ plan.n \in Nat /\ committed \in Nat /\ losses \in Nat /\ plan \in Plan
        /\ running \in [Drivers -> DriverStates] /\ current \in [Drivers -> Plan]
        /\ low \in [Partitions -> Nat]
    BY DEF BronzeInv, CheckpointInv, QueryTypeOK, Plan, TopicTypeOK
  <2>4. committed = plan.n
    BY <1>4, <2>3 DEF BronzeInv, CheckpointInv, OffsetsAtMostOneAhead, Follows, Trigger, PlanBatch
  <2>5. ~KnownEpoch(plan.n)'
    BY <2>1, <2>2, <2>3 DEF BronzeInv, BronzeTypeOK, TableInv, StampBelow, KnownEpoch
  <2>6. FirstEntry'
    BY <2>1, <2>3 DEF FirstEntry
  <2>7. RowsFromLog' /\ NoHole'
    BY <2>2 DEF BronzeInv, TableInv, RowsFromLog, NoHole, topicVars
  <2>8. StampBelow'
    BY <2>1, <2>2, <2>3 DEF BronzeInv, BronzeTypeOK, TableInv, StampBelow
  <2>9. BehindPlan'
    <3>1. ASSUME NEW p \in Partitions, NEW o \in Nat, low[p] <= o, o < StartOf(plan)[p]
          PROVE  InBronze(p, o)
      <4>1. CASE plan.n = 0
        BY <2>3, <3>1, <4>1 DEF StartOf
      <4>2. CASE plan.n > 0
        BY <2>4, <3>1, <4>2 DEF StartOf, BronzeInv, TableInv, BehindPlan, Holds
      <4> QED BY <2>3, <4>1, <4>2
    <3>2. committed' # plan'.n
      BY <2>1, <2>2, <2>3, <2>4
    <3> QED BY <2>1, <2>2, <2>5, <3>1, <3>2 DEF BehindPlan, InBronze, topicVars
  <2>10. ASSUME NEW e \in Drivers PROVE StagedRange(e)' /\ SinkTrue(e)'
    <3>1. CASE e = d
      <4>1. running'[d] = "planned" /\ current'[d] = plan' /\ plan'.n = plan.n + 1
        BY <2>1, <2>3
      <4>2. sink'[d] = "idle"
        BY <2>2 DEF BronzeInv, SinkTrue, Trigger, PlanBatch
      <4>3. StagedRange(d)'
        BY <2>3, <4>1 DEF StagedRange
      <4>4. SinkTrue(d)'
        BY <2>3, <4>1, <4>2 DEF SinkTrue
      <4> QED BY <3>1, <4>3, <4>4
    <3>2. CASE e # d
      <4>1. running'[e] = running[e] /\ current'[e] = current[e]
        BY <2>1, <2>3, <3>2
      <4>2. StagedRange(e) /\ SinkTrue(e)
        BY DEF BronzeInv
      <4>3. StagedRange(e)'
        BY <2>2, <4>1, <4>2 DEF StagedRange, topicVars
      <4>4. sink'[e] = "done" => Holds(current[e])'
        BY <2>2, <4>1, <4>2 DEF SinkTrue, Holds, InBronze, topicVars
      <4>5. ASSUME running[e] # "down", NEW p \in Partitions
            PROVE  current[e].to[p] <= StartOf(plan)[p]
        <5>1. /\ current[e] \in Plan /\ current[e].n \in Nat
              /\ current[e].to[p] \in Nat /\ plan.from[p] \in Nat /\ plan.to[p] \in Nat
              /\ low[p] \in Nat /\ plan.from[p] <= plan.to[p]
          BY <2>3 DEF Plan, Offsets, BronzeInv, CheckpointInv, Planned
        <5>2. current[e].n <= plan.n /\ (current[e].n = plan.n => current[e] = plan)
          BY <4>5 DEF BronzeInv, CheckpointInv, Follows
        <5>3. current[e].n < plan.n => current[e].to[p] <= plan.from[p]
          BY <4>2, <4>5 DEF SinkTrue
        <5>4. CASE plan.n = 0
          <6>1. current[e] = plan
            BY <5>1, <5>2, <5>4
          <6>2. plan.to[p] = 0
            BY <5>4 DEF BronzeInv, FirstEntry
          <6> QED BY <5>1, <5>4, <6>1, <6>2 DEF StartOf
        <5>5. CASE plan.n # 0
          BY <2>3, <5>1, <5>2, <5>3, <5>5 DEF StartOf
        <5> QED BY <5>4, <5>5
      <4>6. SinkTrue(e)'
        BY <2>1, <2>2, <4>1, <4>2, <4>4, <4>5 DEF SinkTrue
      <4> QED BY <4>3, <4>6
    <3> QED BY <3>1, <3>2
  <2> QED BY <1>1, <1>2, <2>6, <2>7, <2>8, <2>9, <2>10 DEF BronzeInv, TableInv
<1> QED BY <1>3, <1>4

(* The files of a batch are the unexpired records of its range. *)
LEMMA WriteFilesKeepsBronze ==
    ASSUME BronzeInv, NEW d \in Drivers, WriteFiles(d)
    PROVE  BronzeInv'
<1> USE DEF checkpointVars
<1>1. CheckpointInv'
  BY BeginKeeps DEF BronzeInv, WriteFiles
<1>2. TableInv'
  BY TableKept DEF BronzeInv, WriteFiles, BeginBatch
<1>3. /\ running \in [Drivers -> DriverStates] /\ current \in [Drivers -> Plan]
      /\ current[d] \in Plan /\ Planned(current[d])
  BY DEF BronzeInv, CheckpointInv, QueryTypeOK
<1>4. ASSUME NEW c \in ReadRange(current[d])
      PROVE  /\ c \in StagedRow
             /\ current[d].from[c.p] <= c.o /\ c.o < current[d].to[c.p]
             /\ c.frame = log[c.p][c.o + 1] /\ c.at = current[d].at
  <2>1. PICK p \in Partitions :
          \E o \in current[d].from[p]..(current[d].to[p] - 1) :
            c = [p |-> p, o |-> o, frame |-> log[p][o + 1], at |-> current[d].at]
    BY DEF ReadRange
  <2>2. PICK o \in current[d].from[p]..(current[d].to[p] - 1) :
          c = [p |-> p, o |-> o, frame |-> log[p][o + 1], at |-> current[d].at]
    BY <2>1
  <2>3. current[d].from[p] \in Nat /\ current[d].to[p] \in Nat /\ current[d].at \in Nat
    BY <1>3 DEF Plan, Offsets
  <2>4. log[p] \in Seq(Frame) /\ current[d].to[p] <= Len(log[p]) /\ Len(log[p]) \in Nat
    BY <1>3 DEF BronzeInv, CheckpointInv, TopicTypeOK, Planned
  <2>5. o \in Nat /\ o < Len(log[p]) /\ current[d].from[p] <= o /\ o < current[d].to[p]
    BY <2>3, <2>4
  <2>6. log[p][o + 1] \in Frame
    BY <2>4, <2>5
  <2> QED BY <2>2, <2>3, <2>5, <2>6 DEF StagedRow
<1>5. ASSUME NEW p \in Partitions, NEW o \in Nat,
             low[p] <= o, current[d].from[p] <= o, o < current[d].to[p]
      PROVE  \E c \in ReadRange(current[d]) : c.p = p /\ c.o = o
  <2> DEFINE c == [p |-> p, o |-> o, frame |-> log[p][o + 1], at |-> current[d].at]
  <2>1. o \in { i \in current[d].from[p]..(current[d].to[p] - 1) : low[p] <= i }
    BY <1>3, <1>5 DEF Plan, Offsets
  <2>2. c \in ReadRange(current[d])
    BY <2>1 DEF ReadRange
  <2> QED BY <2>2
<1>6. BronzeTypeOK' /\ FirstEntry'
  BY <1>4 DEF BronzeInv, BronzeTypeOK, FirstEntry, WriteFiles, BeginBatch
<1>7. ASSUME NEW e \in Drivers PROVE StagedRange(e)' /\ SinkTrue(e)'
  <2>1. CASE e # d
    BY <1>3, <2>1, OthersKept DEF WriteFiles, BeginBatch
  <2>2. CASE e = d
    <3>1. staged'[d] = ReadRange(current[d]) /\ running'[d] = "writing"
      BY <1>3 DEF BronzeInv, BronzeTypeOK, WriteFiles, BeginBatch
    <3>2. current[d].n > 0
      BY DEF BronzeInv, StagedRange, WriteFiles, BeginBatch
    <3>3. UNCHANGED <<log, low, current, plan, sink>>
      BY DEF WriteFiles, BeginBatch, topicVars
    <3>4. sink[d] = "idle" /\ running[d] # "down"
      BY DEF BronzeInv, SinkTrue, WriteFiles, BeginBatch
    <3>5. StagedRange(d)'
      BY <1>4, <1>5, <3>1, <3>2, <3>3 DEF StagedRange
    <3>6. SinkTrue(d)'
      BY <3>1, <3>3, <3>4 DEF BronzeInv, SinkTrue
    <3> QED BY <2>2, <3>5, <3>6
  <2> QED BY <2>1, <2>2
<1> QED BY <1>1, <1>2, <1>6, <1>7 DEF BronzeInv

(* An entry that is not the newest is in the table. *)
LEMMA OlderIsHeld ==
    ASSUME BronzeInv, NEW d \in Drivers, running[d] # "down", current[d].n < plan.n
    PROVE  Holds(current[d])
<1>1. \A p \in Partitions : /\ current[d].to[p] \in Nat /\ plan.from[p] \in Nat
                            /\ current[d].to[p] <= plan.from[p]
  BY DEF BronzeInv, SinkTrue, CheckpointInv, QueryTypeOK, Plan, Offsets
<1> QED BY <1>1 DEF BronzeInv, TableInv, BehindPlan, Holds

(* An entry whose epoch the table's last one covers is in the table. *)
LEMMA KnownIsHeld ==
    ASSUME BronzeInv, NEW d \in Drivers, running[d] # "down", KnownEpoch(current[d].n)
    PROVE  Holds(current[d])
<1>1. plan.n \in Nat /\ current[d].n \in Nat /\ current[d].n <= plan.n
  BY DEF BronzeInv, CheckpointInv, QueryTypeOK, Plan, Follows
<1>2. CASE current[d].n = plan.n
  <2>1. current[d] = plan
    BY <1>2 DEF BronzeInv, CheckpointInv, Follows
  <2> QED BY <2>1 DEF BronzeInv, TableInv, BehindPlan
<1>3. CASE current[d].n < plan.n
  BY <1>3, OlderIsHeld
<1> QED BY <1>1, <1>2, <1>3

(* What the sink finds is so. *)
LEMMA LookUpKeepsBronze ==
    ASSUME BronzeInv, NEW d \in Drivers, LookUpEpoch(d)
    PROVE  BronzeInv'
<1> USE DEF queryVars, checkpointVars, driverVars
<1>1. CheckpointInv'
  BY CheckpointKept DEF BronzeInv, LookUpEpoch
<1>2. TableInv'
  BY TableKept DEF BronzeInv, LookUpEpoch
<1>3. BronzeTypeOK' /\ FirstEntry'
  BY DEF BronzeInv, BronzeTypeOK, SinkStates, FirstEntry, LookUpEpoch
<1>4. ASSUME NEW e \in Drivers PROVE StagedRange(e)' /\ SinkTrue(e)'
  <2>1. CASE e # d
    BY <2>1, OthersKept DEF LookUpEpoch
  <2>2. CASE e = d
    <3>1. /\ running[d] = "writing"
          /\ sink'[d] = "done" => KnownEpoch(current[d].n)
          /\ UNCHANGED <<topicVars, bronze, plan, running, current, staged>>
      BY DEF BronzeInv, BronzeTypeOK, LookUpEpoch
    <3>2. StagedRange(d)'
      BY <3>1 DEF BronzeInv, StagedRange, topicVars
    <3>3. sink'[d] = "done" => Holds(current[d])
      BY <3>1, KnownIsHeld
    <3>4. SinkTrue(d)'
      BY <3>1, <3>3 DEF BronzeInv, SinkTrue, Holds, InBronze, topicVars
    <3> QED BY <2>2, <3>2, <3>4
  <2> QED BY <2>1, <2>2
<1> QED BY <1>1, <1>2, <1>3, <1>4 DEF BronzeInv

(* The rows of a snapshot are the records of the batch's range. *)
LEMMA RowsOfRange ==
    ASSUME BronzeInv, NEW d \in Drivers, running[d] = "writing", NEW k \in Nat
    PROVE  /\ \A r \in Rows(staged[d], k) :
                /\ r \in BronzeRow
                /\ current[d].from[r.p] <= r.o /\ r.o < current[d].to[r.p]
                /\ r.o < Len(log[r.p]) /\ r.frame = log[r.p][r.o + 1]
           /\ \A r, s \in Rows(staged[d], k) : r.p = s.p /\ r.o = s.o => r = s
           /\ \A p \in Partitions, o \in Nat :
                low[p] <= o /\ current[d].from[p] <= o /\ o < current[d].to[p]
                    => \E r \in Rows(staged[d], k) : r.p = p /\ r.o = o
<1> DEFINE Row(c) == [p |-> c.p, o |-> c.o, frame |-> c.frame, at |-> c.at, snap |-> k]
<1>1. \A r \in Rows(staged[d], k) : \E c \in staged[d] : r = Row(c)
  BY DEF Rows
<1>2. ASSUME NEW c \in staged[d]
      PROVE  /\ c \in StagedRow
             /\ current[d].from[c.p] <= c.o /\ c.o < current[d].to[c.p]
             /\ c.o < Len(log[c.p]) /\ c.frame = log[c.p][c.o + 1] /\ c.at = current[d].at
  <2>1. c \in StagedRow
    BY DEF BronzeInv, BronzeTypeOK
  <2>2. /\ current[d].from[c.p] <= c.o /\ c.o < current[d].to[c.p]
        /\ c.frame = log[c.p][c.o + 1] /\ c.at = current[d].at
    BY DEF BronzeInv, StagedRange
  <2>3. c.p \in Partitions /\ c.o \in Nat
    BY <2>1 DEF StagedRow
  <2>4. current[d].to[c.p] \in Nat /\ Len(log[c.p]) \in Nat /\ current[d].to[c.p] <= Len(log[c.p])
    BY <2>3 DEF BronzeInv, CheckpointInv, QueryTypeOK, Plan, Offsets, TopicTypeOK, Planned
  <2> QED BY <2>1, <2>2, <2>3, <2>4
<1>3. ASSUME NEW r \in Rows(staged[d], k)
      PROVE  /\ r \in BronzeRow
             /\ current[d].from[r.p] <= r.o /\ r.o < current[d].to[r.p]
             /\ r.o < Len(log[r.p]) /\ r.frame = log[r.p][r.o + 1]
  BY <1>1, <1>2 DEF BronzeRow, StagedRow
<1>4. ASSUME NEW r \in Rows(staged[d], k), NEW s \in Rows(staged[d], k), r.p = s.p, r.o = s.o
      PROVE  r = s
  <2>1. PICK b \in staged[d] : r = Row(b)
    BY <1>1
  <2>2. PICK c \in staged[d] : s = Row(c)
    BY <1>1
  <2>3. b.p = c.p /\ b.o = c.o
    BY <1>4, <2>1, <2>2
  <2>4. b.frame = c.frame /\ b.at = c.at
    BY <1>2, <2>3
  <2> QED BY <2>1, <2>2, <2>3, <2>4
<1>5. ASSUME NEW p \in Partitions, NEW o \in Nat,
             low[p] <= o, current[d].from[p] <= o, o < current[d].to[p]
      PROVE  \E r \in Rows(staged[d], k) : r.p = p /\ r.o = o
  <2>1. PICK c \in staged[d] : c.p = p /\ c.o = o
    BY <1>5 DEF BronzeInv, StagedRange
  <2>2. Row(c) \in Rows(staged[d], k)
    BY DEF Rows
  <2> QED BY <2>1, <2>2
<1> QED BY <1>3, <1>4, <1>5

(* A snapshot appends the range of an entry below which there is no hole.  *)
LEMMA EpochKeepsBronze ==
    ASSUME BronzeInv, NEW d \in Drivers, CommitEpoch(d)
    PROVE  BronzeInv'
<1> DEFINE new == Rows(staged[d], appends + 1)
           q == current[d]
<1>1. /\ running[d] = "writing"
      /\ bronze' = bronze \cup new
      /\ lastStamp' = <<losses, q.n>>
      /\ appends' = appends + 1
      /\ sink' = [sink EXCEPT ![d] = "done"]
      /\ UNCHANGED <<topicVars, queryVars, staged>>
  BY DEF CommitEpoch
<1>2. UNCHANGED <<log, low, clock, plan, committed, running, current, losses, staged>>
  BY <1>1 DEF topicVars, queryVars, checkpointVars, driverVars
<1>3. /\ q \in Plan /\ q.n \in Nat /\ plan \in Plan /\ plan.n \in Nat
      /\ committed \in Nat /\ losses \in Nat /\ appends \in Nat
      /\ \A p \in Partitions : /\ q.from[p] \in Nat /\ q.to[p] \in Nat /\ low[p] \in Nat
                               /\ plan.from[p] \in Nat /\ q.from[p] <= q.to[p]
  BY DEF BronzeInv, CheckpointInv, QueryTypeOK, Plan, Offsets, TopicTypeOK, Planned, BronzeTypeOK
<1>4. q.n <= plan.n /\ (q.n = plan.n => q = plan)
  BY <1>1 DEF BronzeInv, CheckpointInv, Follows
<1>5. /\ \A r \in new : /\ r \in BronzeRow
                        /\ q.from[r.p] <= r.o /\ r.o < q.to[r.p]
                        /\ r.o < Len(log[r.p]) /\ r.frame = log[r.p][r.o + 1]
      /\ \A p \in Partitions, o \in Nat :
           low[p] <= o /\ q.from[p] <= o /\ o < q.to[p]
               => \E r \in new : r.p = p /\ r.o = o
  <2> HIDE DEF new
  <2>1. appends + 1 \in Nat
    BY <1>3
  <2> QED BY <1>1, <2>1, RowsOfRange DEF new
<1> HIDE DEF new, q
<1>6. CheckpointInv'
  BY <1>1, CheckpointKept DEF BronzeInv
<1>7. BronzeTypeOK'
  BY <1>1, <1>3, <1>5 DEF BronzeInv, BronzeTypeOK, SinkStates
<1>8. RowsFromLog' /\ StampBelow'
  BY <1>1, <1>2, <1>3, <1>4, <1>5 DEF BronzeInv, TableInv, RowsFromLog, StampBelow
<1>9. ASSUME NEW p \in Partitions, NEW o \in Nat, low[p] <= o, o < q.to[p]
      PROVE  \E r \in bronze' : r.p = p /\ r.o = o
  <2>1. CASE q.n < plan.n
    BY <1>1, <1>9, <2>1, OlderIsHeld DEF Holds, InBronze, q
  <2>2. CASE q = plan /\ o < q.from[p]
    BY <1>1, <1>9, <2>2 DEF BronzeInv, TableInv, BehindPlan, InBronze
  <2>3. CASE q.from[p] <= o
    BY <1>1, <1>5, <1>9, <2>3
  <2> QED BY <1>3, <1>4, <2>1, <2>2, <2>3
<1>10. BehindPlan'
  <2>1. \A p \in Partitions, o \in Nat : low[p] <= o /\ o < plan.from[p] => InBronze(p, o)'
    BY <1>1, <1>2 DEF BronzeInv, TableInv, BehindPlan, InBronze
  <2>2. CASE committed = plan.n
    <3>1. Holds(plan)
      BY <2>2 DEF BronzeInv, TableInv, BehindPlan
    <3>2. Holds(plan)'
      BY <1>1, <1>2, <3>1 DEF Holds, InBronze
    <3> QED BY <1>2, <2>1, <3>2 DEF BehindPlan
  <2>3. CASE q = plan
    <3>1. Holds(plan)'
      BY <1>2, <1>9, <2>3 DEF Holds, InBronze
    <3> QED BY <1>2, <2>1, <3>1 DEF BehindPlan
  <2>4. CASE q.n < plan.n /\ committed # plan.n
    <3>1. ~KnownEpoch(plan.n)'
      BY <1>1, <1>2, <1>3, <2>4 DEF KnownEpoch
    <3> QED BY <1>2, <2>1, <2>4, <3>1 DEF BehindPlan
  <2> QED BY <1>3, <1>4, <2>2, <2>3, <2>4
<1>11. NoHole'
  <2> SUFFICES ASSUME NEW r \in bronze', NEW o \in low[r.p]..r.o
               PROVE  \E s \in bronze' : s.p = r.p /\ s.o = o
    BY <1>2 DEF NoHole
  <2>1. r.p \in Partitions /\ r.o \in Nat
    BY <1>7 DEF BronzeTypeOK, BronzeRow
  <2>2. CASE r \in bronze
    BY <1>1, <2>2 DEF BronzeInv, TableInv, NoHole
  <2>3. CASE r \in new
    <3>1. o \in Nat /\ low[r.p] <= o /\ o < q.to[r.p]
      BY <1>3, <1>5, <2>1, <2>3
    <3> QED BY <1>9, <2>1, <3>1
  <2> QED BY <1>1, <2>2, <2>3
<1>12. FirstEntry'
  BY <1>2 DEF BronzeInv, FirstEntry
<1>13. ASSUME NEW e \in Drivers PROVE StagedRange(e)' /\ SinkTrue(e)'
  <2>1. StagedRange(e)'
    BY <1>2 DEF BronzeInv, StagedRange
  <2>2. CASE e = d
    <3>1. Holds(current[d])'
      BY <1>2, <1>9 DEF Holds, InBronze, q
    <3> QED BY <1>1, <1>2, <2>1, <2>2, <3>1 DEF BronzeInv, SinkTrue
  <2>3. CASE e # d
    <3>1. sink'[e] = sink[e]
      BY <1>1, <2>3 DEF BronzeInv, BronzeTypeOK
    <3>2. sink[e] = "done" => Holds(current[e])'
      BY <1>1, <1>2 DEF BronzeInv, SinkTrue, Holds, InBronze
    <3> QED BY <1>2, <2>1, <3>1, <3>2 DEF BronzeInv, SinkTrue
  <2> QED BY <2>2, <2>3
<1> QED BY <1>6, <1>7, <1>8, <1>10, <1>11, <1>12, <1>13 DEF BronzeInv, TableInv

(* An entry is confirmed when its sink is done: the table has it. *)
LEMMA CommitKeepsBronze ==
    ASSUME BronzeInv, NEW d \in Drivers, Commit(d)
    PROVE  BronzeInv'
<1>1. CheckpointInv'
  BY CommitKeeps DEF BronzeInv, Commit
<1>2. UNCHANGED <<topicVars, bronze, lastStamp, losses, plan>>
  BY DEF Commit, CommitBatch
<1>3. BronzeTypeOK' /\ FirstEntry'
  BY DEF BronzeInv, BronzeTypeOK, SinkStates, FirstEntry, Commit, CommitBatch, Forget
<1>4. RowsFromLog' /\ StampBelow' /\ NoHole'
  BY <1>2 DEF BronzeInv, TableInv, RowsFromLog, StampBelow, NoHole, topicVars
<1>5. BehindPlan'
  <2>1. committed' = plan.n => committed = plan.n \/ Holds(plan)
    <3>1. CASE committed < current[d].n
      <4>1. current[d] = plan
        BY <3>1, CommitsNewest DEF BronzeInv, Commit
      <4>2. Holds(current[d])
        BY DEF BronzeInv, SinkTrue, Commit
      <4> QED BY <4>1, <4>2
    <3>2. CASE ~(committed < current[d].n)
      BY <3>2 DEF Commit, CommitBatch
    <3> QED BY <3>1, <3>2
  <2>2. KnownEpoch(plan.n)' = KnownEpoch(plan.n)
    BY <1>2 DEF KnownEpoch
  <2>3. Holds(plan)' = Holds(plan)
    BY <1>2 DEF Holds, InBronze, topicVars
  <2> QED BY <1>2, <2>1, <2>2, <2>3 DEF BronzeInv, TableInv, BehindPlan, InBronze, topicVars
<1>6. \A e \in Drivers : StagedRange(e)' /\ SinkTrue(e)'
  <2>1. staged' = [staged EXCEPT ![d] = {}] /\ sink' = [sink EXCEPT ![d] = "idle"]
        /\ sink'[d] = "idle"
    BY DEF BronzeInv, BronzeTypeOK, Commit, Forget
  <2>2. CASE committed < current[d].n
    <3>1. running \in [Drivers -> DriverStates] /\ current \in [Drivers -> Plan]
      BY DEF BronzeInv, CheckpointInv, QueryTypeOK
    <3>2. running' = [running EXCEPT ![d] = "waiting"] /\ UNCHANGED current
      BY <2>2 DEF Commit, CommitBatch
    <3>3. ASSUME NEW e \in Drivers, e # d PROVE StagedRange(e)' /\ SinkTrue(e)'
      BY <1>2, <2>1, <3>1, <3>2, <3>3, OthersKept
    <3>4. StagedRange(d)'
      BY <3>1, <3>2 DEF StagedRange
    <3>5. running[d] # "down"
      BY DEF Commit, CommitBatch
    <3>6. SinkTrue(d)'
      BY <1>2, <2>1, <3>1, <3>2, <3>5 DEF BronzeInv, SinkTrue
    <3> QED BY <3>3, <3>4, <3>6
  <2>3. CASE ~(committed < current[d].n)
    BY <1>2, <2>1, <2>3, StopKeepsDrivers DEF Commit, CommitBatch
  <2> QED BY <2>2, <2>3
<1> QED BY <1>1, <1>3, <1>4, <1>5, <1>6 DEF BronzeInv, TableInv

(* A new query id: no snapshot carries an epoch of it. *)
LEMMA LoseKeepsBronze ==
    ASSUME BronzeInv, LoseCheckpoint
    PROVE  BronzeInv'
<1> USE DEF bronzeVars
<1>1. CheckpointInv'
  BY DeleteKeeps DEF BronzeInv, LoseCheckpoint
<1>2. /\ losses \in Nat /\ losses' = losses + 1 /\ plan' = NoPlan /\ committed' = 0
      /\ \A e \in Drivers : running[e] = "down"
      /\ UNCHANGED <<log, low, clock, bronze, lastStamp, appends, staged, sink, running, current>>
  BY DEF BronzeInv, CheckpointInv, QueryTypeOK, LoseCheckpoint, DeleteCheckpoint, topicVars
<1>3. StampBelow'
  BY <1>2 DEF BronzeInv, BronzeTypeOK, TableInv, StampBelow
<1>4. RowsFromLog' /\ NoHole'
  BY <1>2 DEF BronzeInv, TableInv, RowsFromLog, NoHole
<1>5. BehindPlan'
  BY <1>2 DEF BehindPlan, Holds, NoPlan
<1>6. BronzeTypeOK' /\ FirstEntry'
  BY <1>2 DEF BronzeInv, BronzeTypeOK, FirstEntry, NoPlan
<1>7. \A e \in Drivers : StagedRange(e)' /\ SinkTrue(e)'
  BY <1>2 DEF BronzeInv, StagedRange, SinkTrue
<1> QED BY <1>1, <1>3, <1>4, <1>5, <1>6, <1>7 DEF BronzeInv, TableInv

-----------------------------------------------------------------------------
(* What one driver keeps in addition.                                      *)

(* While no checkpoint is lost the table has nothing of the newest range   *)
(* before a snapshot carries its epoch, and nothing above it ever.         *)
NotAhead ==
    losses = 0 =>
        \A r \in bronze : /\ r.o < plan.to[r.p]
                          /\ KnownEpoch(plan.n) \/ r.o < plan.from[r.p]

(* commits/N is written only when the table's last epoch is N or later. *)
ConfirmedKnown == committed > 0 => KnownEpoch(committed)

(* What the sink found when it looked is still so. *)
SinkExact(d) == /\ sink[d] = "done" => KnownEpoch(current[d].n)
                /\ sink[d] = "append" => ~KnownEpoch(current[d].n)

OnceInv == NotAhead /\ AppendedOnce /\ ConfirmedKnown /\ \A d \in Drivers : SinkExact(d)

(* A sink that did not find the epoch works for the newest entry: an older *)
(* one is confirmed, and what is confirmed is known.                       *)
LEMMA UnknownIsNewest ==
    ASSUME BronzeInv, ConfirmedKnown, NEW d \in Drivers, running[d] = "writing",
           ~KnownEpoch(current[d].n)
    PROVE  current[d] = plan
<1>1. plan.n \in Nat /\ committed \in Nat /\ current[d].n \in Nat /\ lastStamp[2] \in Nat
  BY DEF BronzeInv, BronzeTypeOK, CheckpointInv, QueryTypeOK, Plan
<1>2. current[d].n <= plan.n /\ (current[d].n = plan.n => current[d] = plan)
  BY DEF BronzeInv, CheckpointInv, Follows
<1>3. plan.n = committed \/ plan.n = committed + 1
  BY DEF BronzeInv, CheckpointInv, OffsetsAtMostOneAhead
<1>4. current[d].n > 0
  BY DEF BronzeInv, StagedRange
<1>5. ~(current[d].n <= committed)
  BY <1>1, <1>4 DEF ConfirmedKnown, KnownEpoch
<1> QED BY <1>1, <1>2, <1>3, <1>5

(* A snapshot whose epoch was unknown appends records the table has not. *)
LEMMA EpochKeepsOnce ==
    ASSUME OneDriver, BronzeInv, OnceInv, NEW d \in Drivers, CommitEpoch(d)
    PROVE  OnceInv'
<1> DEFINE new == Rows(staged[d], appends + 1)
<1>1. /\ running[d] = "writing" /\ sink[d] = "append"
      /\ bronze' = bronze \cup new
      /\ lastStamp' = <<losses, current[d].n>>
      /\ sink' = [sink EXCEPT ![d] = "done"]
      /\ UNCHANGED <<topicVars, queryVars>>
  BY DEF CommitEpoch
<1>2. UNCHANGED <<plan, committed, current, losses>>
  BY <1>1 DEF queryVars, checkpointVars, driverVars
<1>3. ~KnownEpoch(current[d].n)
  BY <1>1 DEF OnceInv, SinkExact
<1>4. current[d] = plan
  BY <1>1, <1>3, UnknownIsNewest DEF OnceInv
<1>5. /\ plan.n \in Nat /\ committed \in Nat /\ losses \in Nat /\ appends + 1 \in Nat
      /\ committed <= plan.n
      /\ \A p \in Partitions : plan.from[p] \in Nat /\ plan.to[p] \in Nat
                               /\ plan.from[p] <= plan.to[p]
  BY DEF BronzeInv, CheckpointInv, QueryTypeOK, Plan, Offsets, Planned, BronzeTypeOK,
         OffsetsAtMostOneAhead
<1>6. /\ \A r \in new : r \in BronzeRow /\ plan.from[r.p] <= r.o /\ r.o < plan.to[r.p]
      /\ \A r, s \in new : r.p = s.p /\ r.o = s.o => r = s
  <2> HIDE DEF new
  <2> QED BY <1>1, <1>4, <1>5, RowsOfRange DEF new
<1> HIDE DEF new
<1>7. KnownEpoch(plan.n)' /\ KnownEpoch(committed)' /\ KnownEpoch(current[d].n)'
  BY <1>1, <1>2, <1>4, <1>5 DEF KnownEpoch
<1>8. ASSUME losses = 0, NEW r \in bronze PROVE r.o < plan.from[r.p]
  BY <1>3, <1>4, <1>8 DEF OnceInv, NotAhead
<1>9. NotAhead'
  <2> SUFFICES ASSUME losses = 0, NEW r \in bronze' PROVE r.o < plan.to[r.p]
    BY <1>2, <1>7 DEF NotAhead
  <2> QED BY <1>1, <1>6 DEF OnceInv, NotAhead
<1>10. AppendedOnce'
  <2> SUFFICES ASSUME losses = 0, NEW r \in bronze', NEW s \in bronze', r.p = s.p, r.o = s.o
               PROVE  r = s
    BY <1>2 DEF AppendedOnce
  <2>1. \A x \in bronze \cup new : x.p \in Partitions /\ x.o \in Nat
    BY <1>6 DEF BronzeInv, BronzeTypeOK, BronzeRow
  <2>2. r.p \in Partitions /\ r.o \in Nat
    BY <1>1, <2>1
  <2>3. CASE r \in bronze /\ s \in bronze
    BY <2>3 DEF OnceInv, AppendedOnce
  <2>4. CASE r \in new /\ s \in new
    BY <2>4, <1>6
  <2>5. CASE r \in bronze /\ s \in new
    BY <2>5, <1>5, <1>6, <1>8, <2>2
  <2>6. CASE r \in new /\ s \in bronze
    BY <2>6, <1>5, <1>6, <1>8, <2>2
  <2> QED BY <1>1, <2>3, <2>4, <2>5, <2>6
<1>11. ConfirmedKnown'
  BY <1>7 DEF ConfirmedKnown
<1>12. ASSUME NEW e \in Drivers PROVE SinkExact(e)'
  <2>1. e = d /\ sink'[d] = "done"
    BY <1>1 DEF OneDriver, BronzeInv, BronzeTypeOK
  <2> QED BY <1>7, <2>1 DEF SinkExact
<1> QED BY <1>9, <1>10, <1>11, <1>12 DEF OnceInv

(* What leaves the table and its last stamp alone leaves AppendedOnce and  *)
(* every answer of the sink alone.                                         *)
LEMMA OnceKept ==
    ASSUME OnceInv, UNCHANGED <<bronze, lastStamp, losses, plan, committed>>,
           \A d \in Drivers : \/ sink'[d] = "idle"
                              \/ sink'[d] = sink[d] /\ current'[d] = current[d]
    PROVE  OnceInv'
BY DEF OnceInv, NotAhead, AppendedOnce, ConfirmedKnown, SinkExact, KnownEpoch

(* The other steps. *)
LEMMA OnceStep ==
    ASSUME OneDriver, BronzeInv, OnceInv, [Next]_vars
    PROVE  OnceInv'
<1> USE DEF checkpointVars, driverVars, queryVars, bronzeVars
<1>1. /\ running \in [Drivers -> DriverStates] /\ current \in [Drivers -> Plan]
      /\ sink \in [Drivers -> SinkStates] /\ plan.n \in Nat /\ committed \in Nat /\ losses \in Nat
      /\ lastStamp[1] \in Nat /\ lastStamp[2] \in Nat
  BY DEF BronzeInv, BronzeTypeOK, CheckpointInv, QueryTypeOK, Plan
<1>2. \A d \in Drivers : running[d] # "writing" => sink[d] = "idle"
  BY DEF BronzeInv, SinkTrue
<1>3. CASE (TopicNext /\ UNCHANGED <<bronzeVars, queryVars>>) \/ UNCHANGED vars
  BY <1>3, OnceKept DEF vars
<1>4. ASSUME NEW d \in Drivers, Start(d) \/ WriteFiles(d) PROVE OnceInv'
  <2>1. UNCHANGED <<bronze, lastStamp, losses, plan, committed, sink>>
    BY <1>4 DEF Start, StartDriver, WriteFiles, BeginBatch
  <2>2. \A e \in Drivers : sink[e] = "idle" \/ current'[e] = current[e]
    BY <1>1, <1>2, <1>4 DEF Start, StartDriver, WriteFiles, BeginBatch
  <2> QED BY <2>1, <2>2, OnceKept
<1>5. ASSUME NEW d \in Drivers, Trigger(d) PROVE OnceInv'
  <2>1. UNCHANGED <<bronze, lastStamp, losses, committed, sink>> /\ sink[d] = "idle"
        /\ running[d] = "waiting"
    BY <1>2, <1>5 DEF Trigger, PlanBatch
  <2>2. \A e \in Drivers : sink[e] = "idle" \/ current'[e] = current[e]
    BY <1>1, <1>5, <2>1 DEF Trigger, PlanBatch, StopDriver
  <2>3. AppendedOnce' /\ ConfirmedKnown' /\ \A e \in Drivers : SinkExact(e)'
    BY <2>1, <2>2 DEF OnceInv, AppendedOnce, ConfirmedKnown, SinkExact, KnownEpoch
  <2>4. CASE plan' = plan
    BY <2>1, <2>2, <2>4, OnceKept
  <2>5. CASE plan' # plan
    <3>1. PICK to \in EndsFrom(StartOf(plan)) :
            plan' = [n |-> plan.n + 1, from |-> StartOf(plan), to |-> to, at |-> clock]
      BY <1>5, <2>5 DEF Trigger, PlanBatch
    <3>2. ASSUME losses = 0, NEW r \in bronze
          PROVE  r.o < StartOf(plan)[r.p] /\ r.o < to[r.p]
      <4>1. r.p \in Partitions /\ r.o \in Nat /\ r.o < plan.to[r.p]
        BY <3>2 DEF BronzeInv, BronzeTypeOK, BronzeRow, OnceInv, NotAhead
      <4>2. plan.n > 0
        BY <1>1, <4>1 DEF BronzeInv, FirstEntry
      <4>3. r.o < StartOf(plan)[r.p]
        BY <4>1, <4>2 DEF StartOf
      <4>4. StartOf(plan)[r.p] <= to[r.p] /\ to[r.p] \in 0..MaxLog
        BY <4>1, RangeOfBatch
      <4>5. StartOf(plan)[r.p] \in Nat
        BY <4>1, <4>2 DEF StartOf, BronzeInv, CheckpointInv, QueryTypeOK, Plan, Offsets
      <4> QED BY <4>1, <4>3, <4>4, <4>5, TopicAssumption
    <3>3. NotAhead'
      BY <2>1, <3>1, <3>2 DEF NotAhead
    <3> QED BY <2>3, <3>3 DEF OnceInv
  <2> QED BY <2>4, <2>5
<1>6. ASSUME NEW d \in Drivers, LookUpEpoch(d) PROVE OnceInv'
  <2>1. UNCHANGED <<bronze, lastStamp, losses, plan, committed, current>>
        /\ sink' = [sink EXCEPT ![d] = IF KnownEpoch(current[d].n) THEN "done" ELSE "append"]
    BY <1>6 DEF LookUpEpoch
  <2>2. NotAhead' /\ AppendedOnce' /\ ConfirmedKnown'
    BY <2>1 DEF OnceInv, NotAhead, AppendedOnce, ConfirmedKnown, KnownEpoch
  <2>3. ASSUME NEW e \in Drivers PROVE SinkExact(e)'
    <3>1. KnownEpoch(current[e].n)' = KnownEpoch(current[e].n)
      BY <2>1 DEF KnownEpoch
    <3>2. sink'[e] = sink[e] \/ (e = d /\ sink'[e] = IF KnownEpoch(current[e].n) THEN "done" ELSE "append")
      BY <1>1, <2>1
    <3> QED BY <3>1, <3>2 DEF OnceInv, SinkExact
  <2> QED BY <2>2, <2>3 DEF OnceInv
<1>7. ASSUME NEW d \in Drivers, CommitEpoch(d) PROVE OnceInv'
  BY <1>7, EpochKeepsOnce
<1>8. ASSUME NEW d \in Drivers, Commit(d) PROVE OnceInv'
  <2>1. /\ UNCHANGED <<bronze, lastStamp, losses, plan>> /\ sink[d] = "done"
        /\ sink' = [sink EXCEPT ![d] = "idle"]
        /\ committed' \in {committed, current[d].n}
        /\ \A e \in Drivers \ {d} : current'[e] = current[e]
    BY <1>1, <1>8 DEF Commit, CommitBatch, StopDriver, Forget
  <2>2. KnownEpoch(current[d].n)
    BY <2>1 DEF OnceInv, SinkExact
  <2>3. NotAhead' /\ AppendedOnce' /\ ConfirmedKnown'
    BY <2>1, <2>2 DEF OnceInv, NotAhead, AppendedOnce, ConfirmedKnown, KnownEpoch
  <2>4. ASSUME NEW e \in Drivers PROVE SinkExact(e)'
    <3>1. sink'[e] = "idle" \/ (sink'[e] = sink[e] /\ current'[e] = current[e])
      BY <1>1, <2>1
    <3> QED BY <2>1, <3>1 DEF OnceInv, SinkExact, KnownEpoch
  <2> QED BY <2>3, <2>4 DEF OnceInv
<1>9. ASSUME NEW d \in Drivers, Crash(d) PROVE OnceInv'
  <2>1. UNCHANGED <<bronze, lastStamp, losses, plan, committed>>
    BY <1>9 DEF Crash, CrashDriver
  <2>2. \A e \in Drivers : sink'[e] = "idle" \/ (sink'[e] = sink[e] /\ current'[e] = current[e])
    BY <1>1, <1>9 DEF Crash, CrashDriver, StopDriver, Forget
  <2> QED BY <2>1, <2>2, OnceKept
<1>10. CASE LoseCheckpoint
  <2>1. /\ losses' = losses + 1 /\ committed' = 0 /\ UNCHANGED sink
        /\ \A e \in Drivers : sink[e] = "idle"
    BY <1>2, <1>10 DEF LoseCheckpoint, DeleteCheckpoint
  <2> QED BY <1>1, <2>1 DEF OnceInv, NotAhead, AppendedOnce, ConfirmedKnown, SinkExact
<1> QED BY <1>3, <1>4, <1>5, <1>6, <1>7, <1>8, <1>9, <1>10 DEF Next, BronzeNext, DriverStep

-----------------------------------------------------------------------------
(* The theorems.                                                           *)

(* An empty table and no checkpoint. *)
LEMMA BronzeInvInit == Init => BronzeInv /\ OnceInv
<1> SUFFICES ASSUME Init PROVE BronzeInv /\ OnceInv
  OBVIOUS
<1>1. CheckpointInv
  BY CheckpointInit DEF Init
<1>2. BronzeTypeOK /\ RowsFromLog /\ StampBelow /\ NotAhead /\ AppendedOnce /\ NoHole
  BY DEF Init, BronzeInit, QueryInit, NoPlan, NoStamp, BronzeTypeOK, SinkStates, RowsFromLog,
         StampBelow, NotAhead, AppendedOnce, NoHole
<1>3. BehindPlan /\ FirstEntry /\ ConfirmedKnown
  BY DEF Init, QueryInit, NoPlan, BehindPlan, Holds, FirstEntry, ConfirmedKnown
<1>4. \A d \in Drivers : StagedRange(d) /\ SinkTrue(d) /\ SinkExact(d)
  BY DEF Init, QueryInit, BronzeInit, StagedRange, SinkTrue, SinkExact
<1> QED BY <1>1, <1>2, <1>3, <1>4 DEF BronzeInv, TableInv, OnceInv

(* Every step keeps the inductive invariant. *)
LEMMA BronzeInvStep == BronzeInv /\ [Next]_vars => BronzeInv'
<1> SUFFICES ASSUME BronzeInv, [Next]_vars PROVE BronzeInv'
  OBVIOUS
<1>1. CASE TopicNext /\ UNCHANGED <<bronzeVars, queryVars>>
  BY <1>1, TopicKeepsBronze
<1>2. ASSUME NEW d \in Drivers, DriverStep(d) \/ Crash(d) PROVE BronzeInv'
  BY <1>2, StartKeepsBronze, TriggerKeepsBronze, WriteFilesKeepsBronze, LookUpKeepsBronze,
     EpochKeepsBronze, CommitKeepsBronze, CrashKeepsBronze DEF DriverStep
<1>3. CASE LoseCheckpoint
  BY <1>3, LoseKeepsBronze
<1>4. CASE UNCHANGED vars
  <2> USE <1>4 DEF vars, topicVars, bronzeVars, queryVars, checkpointVars, driverVars
  <2>1. CheckpointInv'
    BY CheckpointKept DEF BronzeInv
  <2>2. TableInv'
    BY TableKept DEF BronzeInv
  <2>3. BronzeTypeOK' /\ FirstEntry'
    BY DEF BronzeInv, BronzeTypeOK, FirstEntry
  <2>4. \A d \in Drivers : StagedRange(d)' /\ SinkTrue(d)'
    BY DriverKept DEF BronzeInv
  <2> QED BY <2>1, <2>2, <2>3, <2>4 DEF BronzeInv
<1> QED BY <1>1, <1>2, <1>3, <1>4 DEF Next, BronzeNext

(* The inductive invariant holds in every reachable state. *)
LEMMA AlwaysBronzeInv == Spec => []BronzeInv
<1>1. Init => BronzeInv
  BY BronzeInvInit
<1> QED BY <1>1, BronzeInvStep, PTL DEF Spec

(* With one driver, so does what it keeps in addition. *)
LEMMA AlwaysOnceInv ==
    ASSUME OneDriver
    PROVE  Spec => [](BronzeInv /\ OnceInv)
<1>1. BronzeInv /\ OnceInv /\ [Next]_vars => OnceInv'
  BY OnceStep
<1> QED BY <1>1, BronzeInvInit, BronzeInvStep, PTL DEF Spec

(* Whatever drivers run, crash or lose their checkpoint, the state is      *)
(* well typed.                                                             *)
THEOREM BronzeTypeCorrect == Spec => []TypeOK
<1>1. BronzeInv => TypeOK
  BY DEF BronzeInv, CheckpointInv, TypeOK
<1> QED BY <1>1, AlwaysBronzeInv, PTL

(* With one driver on the checkpoint no Kafka record is appended twice     *)
(* while the checkpoint is not lost, however often a batch is replayed:    *)
(* the epoch's stamp refuses the second snapshot.  With two drivers the    *)
(* sink does not promise it: both can look before either appends.          *)
THEOREM BronzeAppendedOnce ==
    ASSUME OneDriver
    PROVE  Spec => []AppendedOnce
<1>1. OnceInv => AppendedOnce
  BY DEF OnceInv
<1> QED BY <1>1, AlwaysOnceInv, PTL

(* Retention apart, the rows of a partition have no hole at any instant,   *)
(* however many drivers append.                                            *)
THEOREM BronzeNoHole == Spec => []NoHole
<1>1. BronzeInv => NoHole
  BY DEF BronzeInv, TableInv
<1> QED BY <1>1, AlwaysBronzeInv, PTL

(* Every unexpired record of a confirmed batch has its row, with the       *)
(* record's payload, also when two drivers race to confirm it.             *)
THEOREM BronzeHoldsWhatKafkaHas == Spec => []HoldsWhatKafkaHas
<1>1. ASSUME BronzeInv PROVE HoldsWhatKafkaHas
  <2> SUFFICES ASSUME NEW p \in Partitions, NEW o \in low[p]..(Confirmed(p) - 1)
               PROVE  \E r \in bronze : r.p = p /\ r.o = o /\ r.frame = log[p][o + 1]
    BY DEF HoldsWhatKafkaHas
  <2>1. /\ low[p] \in Nat /\ plan.from[p] \in Nat /\ plan.to[p] \in Nat
    BY <1>1 DEF BronzeInv, CheckpointInv, TopicTypeOK, QueryTypeOK, Plan, Offsets
  <2>2. Confirmed(p) \in Nat
    BY <2>1 DEF Confirmed
  <2>3. o \in Nat /\ low[p] <= o /\ o < Confirmed(p)
    BY <2>1, <2>2
  <2>4. InBronze(p, o)
    BY <1>1, <2>3 DEF Confirmed, BronzeInv, TableInv, BehindPlan, Holds
  <2> QED BY <1>1, <2>4 DEF InBronze, BronzeInv, TableInv, RowsFromLog
<1> QED BY <1>1, AlwaysBronzeInv, PTL

-----------------------------------------------------------------------------
(* The verdict of bronze_offsets_are_contiguous.                           *)

(* The offsets of a partition with rows lie between a least and a greatest *)
(* one, which are among them.                                              *)
LEMMA OffsetBounds ==
    ASSUME BronzeInv, NEW p \in Partitions, NEW x \in bronze, x.p = p
    PROVE  /\ OffsetsOf(p) \subseteq Nat
           /\ Min(OffsetsOf(p)) \in OffsetsOf(p) /\ Max(OffsetsOf(p)) \in OffsetsOf(p)
           /\ \A o \in OffsetsOf(p) : Min(OffsetsOf(p)) <= o /\ o <= Max(OffsetsOf(p))
<1>1. \A r \in RowsOf(p) : r.p = p /\ r.o \in Nat /\ r.o < Len(log[p])
  BY DEF RowsOf, BronzeInv, BronzeTypeOK, BronzeRow, TableInv, RowsFromLog
<1>2. Len(log[p]) \in Nat
  BY DEF BronzeInv, CheckpointInv, TopicTypeOK
<1>3. x.o \in OffsetsOf(p)
  BY DEF OffsetsOf, RowsOf
<1>4. OffsetsOf(p) \subseteq Nat /\ \A o \in OffsetsOf(p) : o <= Len(log[p])
  BY <1>1, <1>2 DEF OffsetsOf
<1> DEFINE S == OffsetsOf(p)
<1>5. S \in SUBSET Nat /\ S # {} /\ \A o \in S : o <= Len(log[p])
  BY <1>3, <1>4
<1> HIDE DEF S
<1>6. \E lo \in S : \A o \in S : lo <= o
  BY <1>5, LeastNumber
<1>7. \E hi \in S : \A o \in S : hi >= o
  <2>1. S \in SUBSET Int /\ Len(log[p]) \in Int
    BY <1>2, <1>5
  <2> QED BY <1>5, <2>1, GreatestNumber
<1>8. Min(S) \in S /\ \A o \in S : Min(S) <= o
  BY <1>6 DEF Min
<1>9. Max(S) \in S /\ \A o \in S : Max(S) >= o
  BY <1>7 DEF Max
<1>10. \A o \in S : o <= Max(S)
  BY <1>5, <1>9
<1> QED BY <1>5, <1>8, <1>9, <1>10 DEF S

(* Where no record is missing and none doubled, the rows of a partition    *)
(* are as many as its offsets, which fill an interval.                     *)
LEMMA CleanIsContiguous ==
    ASSUME BronzeInv, NEW p \in Partitions, NEW x \in bronze, x.p = p,
           Missing(p) = {}, Doubled(p) = {}
    PROVE  Cardinality(RowsOf(p)) = Expected(p)
<1> DEFINE lo == Min(OffsetsOf(p))
           hi == Max(OffsetsOf(p))
           f == [r \in RowsOf(p) |-> r.o]
<1>1. /\ lo \in Nat /\ hi \in Nat /\ lo <= hi
      /\ OffsetsOf(p) \subseteq lo..hi
  BY OffsetBounds
<1>2. lo..hi \subseteq OffsetsOf(p)
  BY DEF Missing
<1>3. f \in [RowsOf(p) -> lo..hi]
  BY <1>1 DEF OffsetsOf
<1>4. \A r, s \in RowsOf(p) : f[r] = f[s] => r = s
  BY DEF Doubled, OffsetsOf
<1>5. f \in Injection(RowsOf(p), lo..hi)
  BY <1>3, <1>4 DEF Injection, IsInjective
<1>6. \A o \in lo..hi : \E r \in RowsOf(p) : f[r] = o
  BY <1>2 DEF OffsetsOf
<1>7. f \in Surjection(RowsOf(p), lo..hi)
  BY <1>3, <1>6 DEF Surjection
<1>8. IsFiniteSet(lo..hi) /\ Cardinality(lo..hi) = hi - lo + 1
  <2> HIDE DEF lo, hi
  <2> QED BY <1>1, FS_Interval
<1>9. Cardinality(RowsOf(p)) = Cardinality(lo..hi)
  <2> HIDE DEF lo, hi, f
  <2> QED BY <1>5, <1>7, <1>8, FS_Injection
<1> QED BY <1>8, <1>9 DEF Expected

(* Conversely, when no record is doubled, as many rows as the interval has *)
(* offsets leave no offset out.                                            *)
LEMMA ContiguousIsClean ==
    ASSUME BronzeInv, NEW p \in Partitions, NEW x \in bronze, x.p = p, Doubled(p) = {},
           Cardinality(RowsOf(p)) = Expected(p)
    PROVE  Missing(p) = {}
<1> DEFINE lo == Min(OffsetsOf(p))
           hi == Max(OffsetsOf(p))
           f == [r \in RowsOf(p) |-> r.o]
<1>1. /\ lo \in Nat /\ hi \in Nat /\ lo <= hi
      /\ OffsetsOf(p) \subseteq lo..hi
  BY OffsetBounds
<1>2. f \in [RowsOf(p) -> lo..hi]
  BY <1>1 DEF OffsetsOf
<1>3. \A r, s \in RowsOf(p) : f[r] = f[s] => r = s
  BY DEF Doubled, OffsetsOf
<1>4. f \in Injection(RowsOf(p), lo..hi)
  BY <1>2, <1>3 DEF Injection, IsInjective
<1>5. IsFiniteSet(lo..hi) /\ Cardinality(lo..hi) = hi - lo + 1
  <2> HIDE DEF lo, hi
  <2> QED BY <1>1, FS_Interval
<1>6. f \in Surjection(RowsOf(p), lo..hi)
  <2>1. Cardinality(RowsOf(p)) = Cardinality(lo..hi)
    BY <1>5 DEF Expected
  <2> HIDE DEF lo, hi, f
  <2> QED BY <2>1, <1>4, <1>5, FS_Injection
<1>7. \A o \in lo..hi : \E r \in RowsOf(p) : f[r] = o
  BY <1>6 DEF Surjection
<1> QED BY <1>7 DEF Missing, OffsetsOf

(* bronze_offsets_are_contiguous reports a partition only for a record     *)
(* that expired before bronze read it or that a lost checkpoint made it    *)
(* read again; and while no checkpoint is lost a partition it passes has   *)
(* neither a missing nor a doubled record.  For one driver: two of them    *)
(* can append one range twice.                                             *)
THEOREM BronzeContiguityVerdict ==
    ASSUME OneDriver
    PROVE  Spec => []ContiguityVerdict
<1>1. ASSUME BronzeInv, OnceInv PROVE ContiguityVerdict
  <2>1. ASSUME losses = 0, NEW p \in Partitions PROVE Doubled(p) = {}
    BY <1>1, <2>1 DEF OnceInv, AppendedOnce, Doubled, RowsOf
  <2>2. ASSUME NEW p \in Partitions, NEW x \in bronze, x.p = p,
               \A o \in Missing(p) : ~(o < low[p])
        PROVE  Missing(p) = {}
    <3> SUFFICES ASSUME NEW o \in Missing(p) PROVE FALSE
      OBVIOUS
    <3>1. /\ OffsetsOf(p) \subseteq Nat
          /\ Min(OffsetsOf(p)) \in OffsetsOf(p) /\ Max(OffsetsOf(p)) \in OffsetsOf(p)
      BY <1>1, <2>2, OffsetBounds
    <3>2. o \in Nat /\ o <= Max(OffsetsOf(p)) /\ o \notin OffsetsOf(p) /\ ~(o < low[p])
      BY <2>2, <3>1 DEF Missing
    <3>3. PICK r \in bronze : r.p = p /\ r.o = Max(OffsetsOf(p))
      BY <3>1 DEF OffsetsOf, RowsOf
    <3>4. o \in low[p]..r.o
      BY <1>1, <3>1, <3>2, <3>3 DEF BronzeInv, CheckpointInv, TopicTypeOK
    <3>5. \E s \in bronze : s.p = p /\ s.o = o
      BY <1>1, <3>3, <3>4 DEF BronzeInv, TableInv, NoHole
    <3> QED BY <3>2, <3>5 DEF OffsetsOf, RowsOf
  <2>3. ASSUME NEW p \in Gaps
        PROVE  \/ \E o \in Missing(p) : o < low[p]
               \/ losses > 0 /\ Doubled(p) # {}
    <3>1. PICK x \in bronze : x.p = p
      BY DEF Gaps
    <3>2. p \in Partitions /\ losses \in Nat
      BY <1>1, <3>1 DEF BronzeInv, BronzeTypeOK, BronzeRow, CheckpointInv, QueryTypeOK
    <3>3. Cardinality(RowsOf(p)) # Expected(p)
      BY DEF Gaps
    <3>4. Missing(p) # {} \/ Doubled(p) # {}
      BY <1>1, <3>1, <3>2, <3>3, CleanIsContiguous
    <3> QED BY <2>1, <2>2, <3>1, <3>2, <3>4
  <2>4. ASSUME losses = 0, NEW p \in { r.p : r \in bronze } \ Gaps
        PROVE  Missing(p) = {} /\ Doubled(p) = {}
    <3>1. PICK x \in bronze : x.p = p
      OBVIOUS
    <3>2. p \in Partitions
      BY <1>1, <3>1 DEF BronzeInv, BronzeTypeOK, BronzeRow
    <3>3. Cardinality(RowsOf(p)) = Expected(p)
      BY DEF Gaps
    <3> QED BY <1>1, <2>1, <2>4, <3>1, <3>2, <3>3, ContiguousIsClean
  <2> QED BY <2>3, <2>4 DEF ContiguityVerdict
<1> QED BY <1>1, AlwaysOnceInv, PTL
=============================================================================
