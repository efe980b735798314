---------------------------- MODULE BronzeStream ----------------------------
(***************************************************************************)
(* The bronze streaming query (streaming/bronze.py): read_kafka feeds      *)
(* to_bronze_rows, and write_bronze appends every micro-batch to           *)
(* bronze.recentchange_raw through Iceberg's streaming sink.               *)
(*                                                                         *)
(* The sink stamps each snapshot with the query id and the epoch (the      *)
(* batch number) and skips an epoch the table already has                  *)
(* (docs/correctness.md, section 2): it looks back through the snapshots   *)
(* for the last stamp of its query, and appends if that stamp is older.    *)
(* The two are apart, and appends do not conflict with each other.  The    *)
(* query id lives in the checkpoint: it changes exactly when the           *)
(* checkpoint is lost, so losses numbers it.  Every row is appended,       *)
(* whatever its payload.                                                   *)
(***************************************************************************)
EXTENDS StreamingQuery

VARIABLES
    bronze,     \* bronze.recentchange_raw
    lastStamp,  \* the newest (query id, epoch) stamp in the table's history
    appends,    \* snapshots committed so far
    staged,     \* staged[d]: the rows whose data files driver d has written
    sink        \* sink[d]: what the sink of driver d knows of its epoch

bronzeVars == <<bronze, lastStamp, appends, staged, sink>>
vars == <<topicVars, bronzeVars, queryVars>>

(* A row keeps the payload (the frame), its Kafka coordinates, ingested_at *)
(* and the number of the snapshot that appended it.                        *)
BronzeRow == [p: Partitions, o: Nat, frame: Frame, at: Nat, snap: Nat]
StagedRow == [p: Partitions, o: Nat, frame: Frame, at: Nat]

(* Epochs count from 1 here, so that this one is older than any. *)
NoStamp == <<0, 0>>

(* The sink has not looked for the epoch; did not find it; has it in the   *)
(* table, found there or appended.                                         *)
SinkStates == {"idle", "append", "done"}

BronzeTypeOK == /\ bronze \subseteq BronzeRow
                /\ lastStamp \in Nat \X Nat
                /\ appends \in Nat
                /\ staged \in [Drivers -> SUBSET StagedRow]
                /\ sink \in [Drivers -> SinkStates]

TypeOK == /\ TopicTypeOK
          /\ QueryTypeOK
          /\ BronzeTypeOK

BronzeInit == /\ bronze = {}
              /\ lastStamp = NoStamp
              /\ appends = 0
              /\ staged = [d \in Drivers |-> {}]
              /\ sink = [d \in Drivers |-> "idle"]

Init == /\ TopicInit
        /\ QueryInit
        /\ BronzeInit

-----------------------------------------------------------------------------
(* make stream-bronze *)
Start(d) == StartDriver(d) /\ UNCHANGED <<topicVars, bronzeVars>>

Trigger(d) == PlanBatch(d) /\ UNCHANGED <<topicVars, bronzeVars>>

(* The tasks read the range and write its data files; no snapshot yet. *)
WriteFiles(d) == /\ BeginBatch(d)
                 /\ staged' = [staged EXCEPT ![d] = ReadRange(current[d])]
                 /\ UNCHANGED <<topicVars, bronze, lastStamp, appends, sink>>

(* Mutant of KnownEpoch: the epoch is compared without the query id. *)
KnownEpochOfAny(n) == lastStamp[2] >= n

(* The last epoch of this query in the table is n or a later one.  A stamp *)
(* of another query id is of a checkpoint lost before, and hides nothing.  *)
KnownEpoch(n) == lastStamp[1] = losses /\ lastStamp[2] >= n

(* Mutant of LookUpEpoch: the sink does not look for the epoch's stamp. *)
LookUpEpochBlind(d) ==
    /\ running[d] = "writing" /\ sink[d] = "idle"
    /\ sink' = [sink EXCEPT ![d] = "append"]
    /\ UNCHANGED <<topicVars, queryVars, bronze, lastStamp, appends, staged>>

(* The sink looks whether the table has the epoch, from this run or an     *)
(* earlier one.                                                            *)
LookUpEpoch(d) ==
    /\ running[d] = "writing" /\ sink[d] = "idle"
    /\ sink' = [sink EXCEPT ![d] = IF KnownEpoch(current[d].n) THEN "done" ELSE "append"]
    /\ UNCHANGED <<topicVars, queryVars, bronze, lastStamp, appends, staged>>

Rows(S, snap) ==
    { [p |-> c.p, o |-> c.o, frame |-> c.frame, at |-> c.at, snap |-> snap] : c \in S }

(* It commits an epoch it did not find, all rows in one snapshot, and does *)
(* not look again: two drivers that replay one epoch can both append it.   *)
CommitEpoch(d) ==
    /\ running[d] = "writing" /\ sink[d] = "append"
    /\ appends' = appends + 1
    /\ bronze' = bronze \cup Rows(staged[d], appends')
    /\ lastStamp' = <<losses, current[d].n>>
    /\ sink' = [sink EXCEPT ![d] = "done"]
    /\ UNCHANGED <<topicVars, queryVars, staged>>

(* The driver's files and what its sink knew are of no more use. *)
Forget(d) == /\ staged' = [staged EXCEPT ![d] = {}]
             /\ sink' = [sink EXCEPT ![d] = "idle"]

(* The epoch is in the table: Spark confirms the batch. *)
Commit(d) == /\ sink[d] = "done"
             /\ CommitBatch(d)
             /\ Forget(d)
             /\ UNCHANGED <<topicVars, bronze, lastStamp, appends>>

(* Data files without a snapshot are orphans: no reader sees them. *)
Crash(d) == /\ CrashDriver(d)
            /\ Forget(d)
            /\ UNCHANGED <<topicVars, bronze, lastStamp, appends>>

LoseCheckpoint == DeleteCheckpoint /\ UNCHANGED <<topicVars, bronzeVars>>

DriverStep(d) == \/ Start(d) \/ Trigger(d) \/ WriteFiles(d)
                 \/ LookUpEpoch(d) \/ CommitEpoch(d) \/ Commit(d)

BronzeNext == \/ \E d \in Drivers : DriverStep(d) \/ Crash(d)
              \/ LoseCheckpoint

Next == \/ TopicNext /\ UNCHANGED <<bronzeVars, queryVars>>
        \/ BronzeNext

Spec == Init /\ [][Next]_vars

-----------------------------------------------------------------------------
(* A Kafka record is appended at most once while no checkpoint is lost:    *)
(* the epoch stamp refuses the replay of a batch whose snapshot was        *)
(* committed but whose commits/N was not (docs/correctness.md, section 2;  *)
(* runbook entry 6 gives the checkpoint loss as the case where bronze may  *)
(* hold a record twice).  This is for one driver on the checkpoint: two    *)
(* can both look before either appends.                                    *)
AppendedOnce ==
    losses = 0 => \A r, s \in bronze : r.p = s.p /\ r.o = s.o => r = s

(* Bronze holds everything Kafka still has (streaming/kafka_source.py):    *)
(* each unexpired record of a confirmed micro-batch has its row, with the  *)
(* record's payload.                                                       *)
HoldsWhatKafkaHas ==
    \A p \in Partitions : \A o \in low[p]..(Confirmed(p) - 1) :
        \E r \in bronze : r.p = p /\ r.o = o /\ r.frame = log[p][o + 1]

(* The offsets of a partition in bronze have no hole that retention did    *)
(* not make, even between a snapshot and its confirmation and across a     *)
(* replay: bronze_offsets_are_contiguous rests on this.                    *)
NoHole ==
    \A r \in bronze : \A o \in low[r.p]..r.o :
        \E s \in bronze : s.p = r.p /\ s.o = o

(* The query keeps running, and somebody restarts it: as in SilverStream. *)
FairSpec == Spec /\ \A d \in Drivers : WF_vars(DriverStep(d))

(* A published record reaches bronze, unless retention deletes it first. *)
EventuallyInBronze ==
    \A p \in Partitions : \A o \in 0..(MaxLog - 1) :
        o < Len(log[p]) ~> \/ o < low[p]
                           \/ \E r \in bronze : r.p = p /\ r.o = o

=============================================================================
