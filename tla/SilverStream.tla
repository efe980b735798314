---------------------------- MODULE SilverStream ----------------------------
(***************************************************************************)
(* The silver streaming query (streaming/silver.py): read_kafka feeds      *)
(* to_candidates, and write_silver hands every micro-batch to merge_batch. *)
(* Its drivers are the writers of MergeBatch that this module moves.       *)
(***************************************************************************)
EXTENDS StreamingQuery, MergeBatch

ASSUME SilverAssumption == Drivers \subseteq Writers

vars == <<topicVars, silverVars, queryVars>>

TypeOK == /\ TopicTypeOK
          /\ SilverTypeOK
          /\ QueryTypeOK

Init == /\ TopicInit
        /\ SilverInit
        /\ QueryInit

-----------------------------------------------------------------------------
(* make stream-silver *)
Start(d) == StartDriver(d) /\ UNCHANGED <<topicVars, silverVars>>

Trigger(d) == PlanBatch(d) /\ UNCHANGED <<topicVars, silverVars>>

(* foreachBatch calls merge_batch on the records of the planned range. *)
RunBatch(d) == /\ BeginBatch(d)
               /\ BeginMerge(d, ReadRange(current[d]))
               /\ UNCHANGED topicVars

Merge(d) == /\ running[d] = "writing"
            /\ MergeStep(d)
            /\ UNCHANGED <<topicVars, queryVars>>

(* merge_batch has returned. *)
Commit(d) == /\ EndMerge(d)
             /\ CommitBatch(d)
             /\ UNCHANGED topicVars

Crash(d) == /\ CrashDriver(d)
            /\ AbandonMerge(d)
            /\ UNCHANGED topicVars

LoseCheckpoint == DeleteCheckpoint /\ UNCHANGED <<topicVars, silverVars>>

DriverStep(d) == Start(d) \/ Trigger(d) \/ RunBatch(d) \/ Merge(d) \/ Commit(d)

SilverNext == \/ \E d \in Drivers : DriverStep(d) \/ Crash(d)
              \/ LoseCheckpoint

Next == \/ TopicNext /\ UNCHANGED <<silverVars, queryVars>>
        \/ SilverNext

Spec == Init /\ [][Next]_vars

(* The query keeps running, and somebody restarts it (it is an operator's  *)
(* foreground command, not a service): a step of a driver that stays       *)
(* possible is taken.                                                      *)
FairSpec == Spec /\ \A d \in Drivers : WF_vars(DriverStep(d))

-----------------------------------------------------------------------------
(* The tables are append-only, whole commits of new keys: the promise      *)
(* stated in SilverContract, which the stream implements as long as one    *)
(* driver runs.                                                            *)
Contract == INSTANCE SilverContract
MeetsContract == Contract!Spec

Quarantined(p, o) == \E q \in quarantine : q.p = p /\ q.o = o

(* The record at offset o of partition p is in quarantine, or it could     *)
(* have passed the rules at some time up to now and its event id is in     *)
(* silver.edits.                                                           *)
Accounted(p, o) ==
    \/ Quarantined(p, o)
    \/ LET f == log[p][o + 1]
       IN  /\ \E at \in 0..clock : Verdict(f, at) = Valid
           /\ \E r \in edits : r.id = f.id

(* Nothing is dropped (docs/correctness.md, section 5): every record that  *)
(* a confirmed micro-batch covered and that retention has not deleted is   *)
(* accounted for, through any crash, replay, checkpoint loss or second     *)
(* driver.  The commit entry must come after both MERGEs.                  *)
NothingSkipped ==
    \A p \in Partitions : \A o \in low[p]..(Confirmed(p) - 1) : Accounted(p, o)

(* Every frame lands in exactly one of the two tables (docs/correctness.md,*)
(* section 5): while no checkpoint is lost, no Kafka record has a row in   *)
(* both.  A replay must reach the verdict of the first run although the    *)
(* clock has moved on.                                                     *)
ExactlyOneTable ==
    losses = 0 => \A r \in edits : ~Quarantined(r.p, r.o)

(* First arrival wins (docs/correctness.md, section 1): while no           *)
(* checkpoint is lost, the row of an event comes from the earliest record  *)
(* that carries its id; an earlier one in confirmed, unexpired offsets was *)
(* refused by a rule.                                                      *)
FirstArrivalWins ==
    losses = 0 =>
        \A r \in edits : \A o \in low[r.p]..(r.o - 1) :
            o < Confirmed(r.p) /\ log[r.p][o + 1].id = r.id => Quarantined(r.p, o)

(* A published record is eventually accounted for, unless retention        *)
(* deletes it first: no crash or restart leaves a record behind.           *)
EventuallyAccounted ==
    \A p \in Partitions : \A o \in 0..(MaxLog - 1) :
        o < Len(log[p]) ~> \/ o < low[p]
                           \/ o < Len(log[p]) /\ Accounted(p, o)

=============================================================================
