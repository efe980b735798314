--------------------------- MODULE StreamingQuery ---------------------------
(***************************************************************************)
(* One Spark Structured Streaming query reading the topic, as both streams *)
(* configure it (streaming/kafka_source.py, write_bronze, write_silver):   *)
(* its checkpoint, and the driver processes that run on it.  What a        *)
(* micro-batch writes is left to the modules that extend this one.         *)
(*                                                                         *)
(* Spark writes the offset range of micro-batch N, together with the       *)
(* timestamp current_timestamp() will return in it, to offsets/N before    *)
(* the batch runs, and commits/N after it (docs/correctness.md, section    *)
(* 2).  A driver that starts on a checkpoint whose newest offsets entry    *)
(* has no commit runs that entry again.                                    *)
(*                                                                         *)
(* A driver is one SparkSubmit process.  There should be one; scripts/     *)
(* stream.sh and runbook entry 12 tell how a second one comes to run on    *)
(* the same checkpoint.  Spark writes both logs with put-if-absent, so the *)
(* loser of a race dies with "Multiple streaming queries are concurrently  *)
(* using ...".                                                             *)
(***************************************************************************)
EXTENDS Topic, FiniteSetsExt

CONSTANTS
    Drivers,                  \* the driver processes of the query
    MAX_OFFSETS_PER_TRIGGER,  \* most records in one micro-batch
    MaxCrashes,               \* bound: driver crashes
    MaxLosses                 \* bound: checkpoint losses

ASSUME QueryAssumption == /\ MAX_OFFSETS_PER_TRIGGER \in Nat
                          /\ MaxCrashes \in Nat
                          /\ MaxLosses \in Nat

VARIABLES
    plan,       \* the newest entry of <checkpoint>/offsets
    committed,  \* the newest batch number in <checkpoint>/commits, 0 if none
    running,    \* running[d]: what driver d is doing
    current,    \* current[d]: the offsets entry driver d works from
    crashes,    \* driver crashes so far
    losses      \* checkpoint losses so far; numbers the query ids

checkpointVars == <<plan, committed>>
driverVars == <<running, current, crashes, losses>>
queryVars == <<checkpointVars, driverVars>>

-----------------------------------------------------------------------------
Offsets == [Partitions -> Nat]

(* Micro-batch n reads from[p] up to, not including, to[p]; at is its      *)
(* current_timestamp().  The code counts batches from 0, this model from   *)
(* 1, so that 0 can mean none.                                             *)
Plan == [n: Nat, from: Offsets, to: Offsets, at: Nat]

NoPlan == [n |-> 0,
           from |-> [p \in Partitions |-> 0],
           to |-> [p \in Partitions |-> 0],
           at |-> 0]

(* A driver is down; waits for a trigger; has an offsets entry to run;     *)
(* runs it.                                                                *)
DriverStates == {"down", "waiting", "planned", "writing"}

QueryTypeOK == /\ plan \in Plan
               /\ committed \in Nat
               /\ running \in [Drivers -> DriverStates]
               /\ current \in [Drivers -> Plan]
               /\ crashes \in Nat
               /\ losses \in Nat

QueryInit == /\ plan = NoPlan
             /\ committed = 0
             /\ running = [d \in Drivers |-> "down"]
             /\ current = [d \in Drivers |-> NoPlan]
             /\ crashes = 0
             /\ losses = 0

-----------------------------------------------------------------------------
(* Where the next micro-batch starts: startingOffsets=earliest on a fresh  *)
(* checkpoint, the end of the last one otherwise.                          *)
StartOf(last) == IF last.n = 0 THEN low ELSE last.to

(* Mutant of EndsFrom: a trigger waits until it can fill a batch. *)
FullEndsFrom(from) ==
    { to \in [Partitions -> 0..MaxLog] :
        /\ \A p \in Partitions : from[p] <= to[p] /\ to[p] <= Len(log[p])
        /\ MapThenSumSet(LAMBDA p : to[p] - from[p], Partitions)
               = MAX_OFFSETS_PER_TRIGGER }

(* Where it may end: something new, at most MAX_OFFSETS_PER_TRIGGER of it. *)
EndsFrom(from) ==
    { to \in [Partitions -> 0..MaxLog] :
        /\ \A p \in Partitions : from[p] <= to[p] /\ to[p] <= Len(log[p])
        /\ to # from
        /\ MapThenSumSet(LAMBDA p : to[p] - from[p], Partitions)
               <= MAX_OFFSETS_PER_TRIGGER }

(* Mutant of ReadRange: a replay stamps its rows with the time it runs at. *)
ReadRangeNow(q) ==
    UNION { { [p |-> p, o |-> o, frame |-> log[p][o + 1], at |-> clock]
                : o \in { i \in q.from[p]..(q.to[p] - 1) : low[p] <= i } }
            : p \in Partitions }

(* The records of a planned range, stamped with the batch's timestamp.     *)
(* failOnDataLoss=false: what expired before the read is skipped.          *)
ReadRange(q) ==
    UNION { { [p |-> p, o |-> o, frame |-> log[p][o + 1], at |-> q.at]
                : o \in { i \in q.from[p]..(q.to[p] - 1) : low[p] <= i } }
            : p \in Partitions }

-----------------------------------------------------------------------------
(* The driver process ends. *)
StopDriver(d) ==
    /\ running' = [running EXCEPT ![d] = "down"]
    /\ current' = [current EXCEPT ![d] = NoPlan]

(* Mutant of StartDriver: offsets/N alone counts as done. *)
StartDriverPast(d) ==
    /\ running[d] = "down"
    /\ running' = [running EXCEPT ![d] = "waiting"]
    /\ current' = [current EXCEPT ![d] = plan]
    /\ UNCHANGED <<checkpointVars, crashes, losses>>

(* The query is started.  The checkpoint's newest entry is run again       *)
(* unless it is committed.                                                 *)
StartDriver(d) ==
    /\ running[d] = "down"
    /\ running' = [running EXCEPT ![d] = IF committed < plan.n THEN "planned" ELSE "waiting"]
    /\ current' = [current EXCEPT ![d] = plan]
    /\ UNCHANGED <<checkpointVars, crashes, losses>>

(* Mutant of PlanBatch: offsets/N is overwritten, not put if absent. *)
PlanBatchOver(d) ==
    /\ running[d] = "waiting"
    /\ \E to \in EndsFrom(StartOf(current[d])) :
         /\ plan' = [n |-> current[d].n + 1, from |-> StartOf(current[d]),
                     to |-> to, at |-> clock]
         /\ running' = [running EXCEPT ![d] = "planned"]
         /\ current' = [current EXCEPT ![d] = plan']
    /\ UNCHANGED <<committed, crashes, losses>>

(* A trigger fires and finds new records: offsets/N is written, unless     *)
(* another driver wrote it first.                                          *)
PlanBatch(d) ==
    /\ running[d] = "waiting"
    /\ \E to \in EndsFrom(StartOf(current[d])) :
         IF plan = current[d]
         THEN /\ plan' = [n |-> plan.n + 1, from |-> StartOf(plan), to |-> to, at |-> clock]
              /\ running' = [running EXCEPT ![d] = "planned"]
              /\ current' = [current EXCEPT ![d] = plan']
         ELSE /\ StopDriver(d)
              /\ UNCHANGED plan
    /\ UNCHANGED <<committed, crashes, losses>>

(* The batch is handed to the sink. *)
BeginBatch(d) ==
    /\ running[d] = "planned"
    /\ running' = [running EXCEPT ![d] = "writing"]
    /\ UNCHANGED <<checkpointVars, current, crashes, losses>>

(* The sink is done: commits/N is written, unless another driver wrote it  *)
(* first.                                                                  *)
CommitBatch(d) ==
    /\ running[d] = "writing"
    /\ IF committed < current[d].n
       THEN /\ committed' = current[d].n
            /\ running' = [running EXCEPT ![d] = "waiting"]
            /\ UNCHANGED current
       ELSE /\ StopDriver(d)
            /\ UNCHANGED committed
    /\ UNCHANGED <<plan, crashes, losses>>

(* SIGKILL, an exception, a stop between batches: the driver is gone,      *)
(* wherever it was.                                                        *)
CrashDriver(d) ==
    /\ running[d] # "down"
    /\ crashes < MaxCrashes
    /\ crashes' = crashes + 1
    /\ StopDriver(d)
    /\ UNCHANGED <<checkpointVars, losses>>

(* Runbook entry 6: the checkpoint is deleted while the query is down.     *)
DeleteCheckpoint ==
    /\ \A d \in Drivers : running[d] = "down"
    /\ losses < MaxLosses
    /\ losses' = losses + 1
    /\ plan' = NoPlan
    /\ committed' = 0
    /\ UNCHANGED <<running, current, crashes>>

-----------------------------------------------------------------------------
(* A healthy checkpoint has the same newest batch number in both logs, or  *)
(* offsets one ahead (runbook entry 6): whatever drivers race on it, no    *)
(* batch is planned on top of one that is not confirmed, and no            *)
(* confirmation is taken back.                                             *)
OffsetsAtMostOneAhead == plan.n \in {committed, committed + 1}

(* Offsets below Confirmed(p) belong to confirmed micro-batches. *)
Confirmed(p) == IF committed = plan.n THEN plan.to[p] ELSE plan.from[p]

=============================================================================
