----------------------- MODULE StreamingQuery_proofs -----------------------
(***************************************************************************)
(* Lemmas about one streaming query, its checkpoint and the drivers that   *)
(* may share it.  CheckpointInv is kept by every step of the query,        *)
(* whatever the sink does between BeginBatch and CommitBatch.              *)
(***************************************************************************)
EXTENDS StreamingQuery, FiniteSetTheorems, TLAPS

(* A planned range lies in the log and was planned in the past. *)
Planned(q) == /\ \A p \in Partitions : q.from[p] <= q.to[p] /\ q.to[p] <= Len(log[p])
              /\ q.at <= clock

(* A driver that is up follows the checkpoint: it never is ahead of it,    *)
(* agrees with its newest entry when it works from that one, and waits for *)
(* a trigger only on a confirmed entry.                                    *)
Follows(d) ==
    running[d] # "down" =>
        /\ current[d].n <= plan.n
        /\ current[d].n = plan.n => current[d] = plan
        /\ running[d] = "waiting" => current[d].n <= committed

CheckpointInv == /\ TopicTypeOK
                 /\ QueryTypeOK
                 /\ OffsetsAtMostOneAhead
                 /\ Planned(plan)
                 /\ \A d \in Drivers : Planned(current[d]) /\ Follows(d)

(* The hypothesis of the theorems that two drivers on one checkpoint can   *)
(* break.                                                                  *)
OneDriver == \A d, e \in Drivers : d = e

-----------------------------------------------------------------------------
(* The topic.                                                              *)

(* Publishing and retention leave the records at their offsets. *)
LEMMA LogGrows ==
    ASSUME TopicTypeOK, TopicNext
    PROVE  /\ TopicTypeOK'
           /\ clock <= clock'
           /\ \A p \in Partitions :
                /\ low[p] <= low'[p]
                /\ Len(log[p]) <= Len(log'[p])
                /\ \A i \in 1..Len(log[p]) : log'[p][i] = log[p][i]
<1>1. ASSUME NEW p \in Partitions, NEW f \in Frame, Publish(p, f)
      PROVE  /\ TopicTypeOK'
             /\ \A q \in Partitions :
                  /\ Len(log[q]) <= Len(log'[q])
                  /\ \A i \in 1..Len(log[q]) : log'[q][i] = log[q][i]
  BY <1>1 DEF TopicTypeOK, Publish
<1>2. ASSUME NEW p \in Partitions, Expire(p)
      PROVE  TopicTypeOK' /\ \A q \in Partitions : low[q] <= low'[q]
  BY <1>2 DEF TopicTypeOK, Expire
<1>3. CASE Tick
  BY <1>3 DEF TopicTypeOK, Tick
<1>4. CASE \E p \in Partitions, f \in Frame : Publish(p, f)
  BY <1>1, <1>4 DEF TopicTypeOK, Publish
<1>5. CASE \E p \in Partitions : Expire(p)
  BY <1>2, <1>5 DEF TopicTypeOK, Expire
<1> QED BY <1>3, <1>4, <1>5 DEF TopicNext

(* A planned range stays one while the topic moves. *)
LEMMA PlannedKept ==
    ASSUME TopicTypeOK, TopicNext, NEW q \in Plan, Planned(q)
    PROVE  Planned(q)'
BY LogGrows DEF TopicTypeOK, Plan, Offsets, Planned

(* The topic cannot make a checkpoint unhealthy. *)
LEMMA TopicKeepsCheckpoint ==
    ASSUME CheckpointInv, TopicNext, UNCHANGED queryVars
    PROVE  CheckpointInv'
<1>1. TopicTypeOK' /\ QueryTypeOK' /\ OffsetsAtMostOneAhead'
  BY LogGrows DEF CheckpointInv, QueryTypeOK, OffsetsAtMostOneAhead, queryVars,
                  checkpointVars, driverVars
<1>2. Planned(plan)' /\ \A d \in Drivers : Planned(current[d])'
  BY PlannedKept DEF CheckpointInv, QueryTypeOK, queryVars, checkpointVars, driverVars, Planned
<1>3. \A d \in Drivers : Follows(d)'
  BY DEF CheckpointInv, Follows, queryVars, checkpointVars, driverVars
<1> QED BY <1>1, <1>2, <1>3 DEF CheckpointInv

-----------------------------------------------------------------------------
(* The query.                                                              *)

(* Nor can what leaves topic and query alone. *)
LEMMA CheckpointKept ==
    ASSUME CheckpointInv, UNCHANGED <<topicVars, queryVars>>
    PROVE  CheckpointInv'
BY DEF CheckpointInv, TopicTypeOK, QueryTypeOK, OffsetsAtMostOneAhead, Planned, Follows,
       topicVars, queryVars, checkpointVars, driverVars

(* A planned range ends within the log. *)
LEMMA RangeOfBatch ==
    ASSUME NEW from, NEW to \in EndsFrom(from)
    PROVE  /\ to \in [Partitions -> 0..MaxLog]
           /\ \A p \in Partitions : from[p] <= to[p] /\ to[p] <= Len(log[p])
BY DEF EndsFrom

(* A driver that ends leaves a healthy checkpoint behind. *)
LEMMA StopKeeps ==
    ASSUME CheckpointInv, NEW d \in Drivers, StopDriver(d),
           UNCHANGED <<topicVars, plan, committed>>, crashes' \in Nat, losses' = losses
    PROVE  CheckpointInv'
<1>1. NoPlan \in Plan /\ Planned(NoPlan)
  BY DEF CheckpointInv, TopicTypeOK, NoPlan, Plan, Offsets, Planned
<1>2. QueryTypeOK'
  BY <1>1 DEF CheckpointInv, QueryTypeOK, StopDriver, DriverStates
<1>3. ASSUME NEW e \in Drivers PROVE Planned(current[e])' /\ Follows(e)'
  BY <1>1, <1>2 DEF CheckpointInv, QueryTypeOK, StopDriver, topicVars, Planned, Follows
<1> QED BY <1>2, <1>3 DEF CheckpointInv, TopicTypeOK, topicVars, Planned, OffsetsAtMostOneAhead

(* A driver that starts recovers the newest entry or waits behind it. *)
LEMMA StartKeeps ==
    ASSUME CheckpointInv, NEW d \in Drivers, StartDriver(d), UNCHANGED topicVars
    PROVE  CheckpointInv'
<1>1. QueryTypeOK'
  BY DEF CheckpointInv, QueryTypeOK, StartDriver, checkpointVars, DriverStates
<1>2. ASSUME NEW e \in Drivers PROVE Planned(current[e])' /\ Follows(e)'
  <2>1. CASE e = d
    BY <2>1, <1>1 DEF CheckpointInv, QueryTypeOK, StartDriver, checkpointVars, topicVars,
                      Planned, Follows, Plan
  <2>2. CASE e # d
    BY <2>2 DEF CheckpointInv, QueryTypeOK, StartDriver, checkpointVars, topicVars,
                Planned, Follows
  <2> QED BY <2>1, <2>2
<1> QED BY <1>1, <1>2 DEF CheckpointInv, TopicTypeOK, topicVars, Planned, OffsetsAtMostOneAhead,
                          StartDriver, checkpointVars

(* Handing the batch to the sink writes nothing to the checkpoint. *)
LEMMA BeginKeeps ==
    ASSUME CheckpointInv, NEW d \in Drivers, BeginBatch(d), UNCHANGED topicVars
    PROVE  CheckpointInv'
<1>1. QueryTypeOK'
  BY DEF CheckpointInv, QueryTypeOK, BeginBatch, checkpointVars, DriverStates
<1>2. ASSUME NEW e \in Drivers PROVE Planned(current[e])' /\ Follows(e)'
  BY DEF CheckpointInv, QueryTypeOK, BeginBatch, checkpointVars, topicVars, Planned, Follows
<1> QED BY <1>1, <1>2 DEF CheckpointInv, TopicTypeOK, topicVars, Planned, OffsetsAtMostOneAhead,
                          BeginBatch, checkpointVars

(* A deleted checkpoint is that of a query never started. *)
LEMMA DeleteKeeps ==
    ASSUME CheckpointInv, DeleteCheckpoint, UNCHANGED topicVars
    PROVE  CheckpointInv'
<1>1. NoPlan \in Plan /\ Planned(NoPlan)'
  BY DEF CheckpointInv, TopicTypeOK, NoPlan, Plan, Offsets, Planned, topicVars
<1>2. QueryTypeOK'
  BY <1>1 DEF CheckpointInv, QueryTypeOK, DeleteCheckpoint
<1>3. ASSUME NEW e \in Drivers PROVE Planned(current[e])' /\ Follows(e)'
  BY DEF CheckpointInv, DeleteCheckpoint, topicVars, Planned, Follows
<1> QED BY <1>1, <1>2, <1>3 DEF CheckpointInv, TopicTypeOK, topicVars, OffsetsAtMostOneAhead,
                                DeleteCheckpoint, NoPlan, Planned

(* A crash changes no entry. *)
LEMMA CrashKeeps ==
    ASSUME CheckpointInv, NEW d \in Drivers, CrashDriver(d), UNCHANGED topicVars
    PROVE  CheckpointInv'
<1>1. crashes' \in Nat
  BY DEF CheckpointInv, QueryTypeOK, CrashDriver
<1> QED BY <1>1, StopKeeps DEF CrashDriver, checkpointVars

(* The put-if-absent of offsets/N lets a driver plan behind the newest,    *)
(* confirmed entry only.                                                   *)
LEMMA PlanKeeps ==
    ASSUME CheckpointInv, NEW d \in Drivers, PlanBatch(d), UNCHANGED topicVars
    PROVE  CheckpointInv'
<1>1. CASE plan # current[d]
  BY <1>1, StopKeeps DEF PlanBatch, CheckpointInv, QueryTypeOK
<1>2. CASE plan = current[d]
  <2>1. PICK to \in EndsFrom(StartOf(plan)) :
          /\ plan' = [n |-> plan.n + 1, from |-> StartOf(plan), to |-> to, at |-> clock]
          /\ running' = [running EXCEPT ![d] = "planned"]
          /\ current' = [current EXCEPT ![d] = plan']
    BY <1>2 DEF PlanBatch
  <2>2. StartOf(plan) \in Offsets
    BY DEF CheckpointInv, TopicTypeOK, QueryTypeOK, StartOf, Offsets, Plan
  <2>3. to \in Offsets
    BY RangeOfBatch, TopicAssumption DEF Offsets
  <2>4. plan' \in Plan
    BY <2>1, <2>2, <2>3 DEF CheckpointInv, TopicTypeOK, QueryTypeOK, Plan
  <2>5. QueryTypeOK'
    BY <2>1, <2>4 DEF CheckpointInv, QueryTypeOK, PlanBatch, DriverStates
  <2>6. Planned(plan)'
    BY <2>1, RangeOfBatch DEF CheckpointInv, TopicTypeOK, topicVars, Planned
  <2>7. committed = plan.n
    BY <1>2 DEF CheckpointInv, QueryTypeOK, OffsetsAtMostOneAhead, Follows, PlanBatch, Plan
  <2>8. OffsetsAtMostOneAhead'
    BY <2>1, <2>7 DEF OffsetsAtMostOneAhead, PlanBatch
  <2>9. ASSUME NEW e \in Drivers PROVE Planned(current[e])' /\ Follows(e)'
    <3>1. CASE e = d
      BY <2>1, <2>4, <2>6, <3>1 DEF CheckpointInv, QueryTypeOK, Planned, Follows, Plan
    <3>2. CASE e # d
      BY <2>1, <3>2 DEF CheckpointInv, QueryTypeOK, PlanBatch, topicVars, Planned, Follows, Plan
    <3> QED BY <3>1, <3>2
  <2> QED BY <2>5, <2>6, <2>8, <2>9 DEF CheckpointInv, TopicTypeOK, topicVars
<1> QED BY <1>1, <1>2

(* Only the newest entry can be confirmed. *)
LEMMA CommitsNewest ==
    ASSUME CheckpointInv, NEW d \in Drivers, CommitBatch(d), committed < current[d].n
    PROVE  current[d] = plan /\ committed = plan.n - 1 /\ committed' = plan.n
<1>1. plan.n \in Nat /\ committed \in Nat /\ current[d].n \in Nat
  BY DEF CheckpointInv, QueryTypeOK, Plan
<1>2. current[d].n <= plan.n /\ (current[d].n = plan.n => current[d] = plan)
  BY DEF CheckpointInv, Follows, CommitBatch
<1>3. plan.n = committed \/ plan.n = committed + 1
  BY DEF CheckpointInv, OffsetsAtMostOneAhead
<1>4. committed' = current[d].n
  BY DEF CommitBatch
<1> QED BY <1>1, <1>2, <1>3, <1>4

(* The put-if-absent of commits/N confirms each entry once. *)
LEMMA CommitKeeps ==
    ASSUME CheckpointInv, NEW d \in Drivers, CommitBatch(d), UNCHANGED topicVars
    PROVE  CheckpointInv'
<1>1. CASE ~(committed < current[d].n)
  BY <1>1, StopKeeps DEF CommitBatch, CheckpointInv, QueryTypeOK
<1>2. CASE committed < current[d].n
  <2>1. current[d] = plan /\ committed = plan.n - 1 /\ committed' = plan.n
    BY <1>2, CommitsNewest
  <2>2. QueryTypeOK'
    BY <1>2, <2>1 DEF CheckpointInv, QueryTypeOK, CommitBatch, DriverStates, Plan
  <2>3. ASSUME NEW e \in Drivers PROVE Planned(current[e])' /\ Follows(e)'
    BY <1>2, <2>1 DEF CheckpointInv, QueryTypeOK, CommitBatch, topicVars, Planned, Follows, Plan
  <2> QED BY <1>2, <2>1, <2>2, <2>3 DEF CheckpointInv, TopicTypeOK, topicVars, Planned,
             OffsetsAtMostOneAhead, CommitBatch
<1> QED BY <1>1, <1>2

(* The query starts without a checkpoint. *)
LEMMA CheckpointInit == TopicInit /\ QueryInit => CheckpointInv
<1> SUFFICES ASSUME TopicInit, QueryInit PROVE CheckpointInv
  OBVIOUS
<1>1. TopicTypeOK
  BY DEF TopicInit, TopicTypeOK
<1>2. NoPlan \in Plan /\ Planned(NoPlan)
  BY DEF TopicInit, NoPlan, Plan, Offsets, Planned
<1>3. QueryTypeOK
  BY <1>2 DEF QueryInit, QueryTypeOK, DriverStates
<1>4. OffsetsAtMostOneAhead
  BY DEF QueryInit, OffsetsAtMostOneAhead, NoPlan
<1> QED BY <1>1, <1>2, <1>3, <1>4 DEF QueryInit, CheckpointInv, Follows

-----------------------------------------------------------------------------
(* Least and greatest numbers, for the Min and Max of the checks.          *)

(* A set of natural numbers has a least one. *)
LEMMA LeastNumber ==
    ASSUME NEW S \in SUBSET Nat, S # {}
    PROVE  \E x \in S : \A y \in S : x <= y
<1> DEFINE Below == { ss \in Nat \X Nat : ss[1] < ss[2] }
<1>1. IsWellFoundedOn(Below, Nat)
  BY NatLessThanWellFounded DEF OpToRel
<1>2. \A x, y \in Nat : y < x => <<y, x>> \in Below
  OBVIOUS
<1> HIDE DEF Below
<1>3. PICK x \in S : \A y \in S : ~(<<y, x>> \in Below)
  BY <1>1, WFMin
<1>4. ASSUME NEW y \in S PROVE x <= y
  <2>1. x \in Nat /\ y \in Nat
    OBVIOUS
  <2>2. ~(y < x)
    BY <1>2, <1>3, <2>1
  <2> QED BY <2>1, <2>2
<1> QED BY <1>4

(* A set of integers with an upper bound has a greatest one. *)
LEMMA GreatestNumber ==
    ASSUME NEW S \in SUBSET Int, S # {}, NEW b \in Int, \A x \in S : x <= b
    PROVE  \E x \in S : \A y \in S : x >= y
<1> DEFINE T == { i \in Nat : \E x \in S : i = b - x }
<1>1. T # {}
  <2>1. PICK x \in S : TRUE
    OBVIOUS
  <2>2. b - x \in T
    BY <2>1
  <2> QED BY <2>2
<1>2. T \in SUBSET Nat
  OBVIOUS
<1> HIDE DEF T
<1>3. PICK i \in T : \A j \in T : i <= j
  BY <1>1, <1>2, LeastNumber
<1>4. PICK x \in S : i = b - x
  BY DEF T
<1>5. ASSUME NEW y \in S PROVE x >= y
  <2>1. b - y \in T
    BY DEF T
  <2> QED BY <2>1, <1>3, <1>4
<1> QED BY <1>5

-----------------------------------------------------------------------------
(* How Confirmed moves.                                                    *)

(* What is confirmed has been published. *)
LEMMA ConfirmedInLog ==
    ASSUME CheckpointInv, NEW p \in Partitions
    PROVE  Confirmed(p) \in Nat /\ Confirmed(p) <= Len(log[p])
<1>1. plan.from[p] \in Nat /\ plan.to[p] \in Nat /\ Len(log[p]) \in Nat
  BY DEF CheckpointInv, QueryTypeOK, Plan, Offsets, TopicTypeOK
<1>2. plan.from[p] <= plan.to[p] /\ plan.to[p] <= Len(log[p])
  BY DEF CheckpointInv, Planned
<1> QED BY <1>1, <1>2 DEF Confirmed

(* A step that leaves low alone confirms a new unexpired offset only by    *)
(* confirming the newest entry, whose range holds it.                      *)
LEMMA ConfirmedByPlan ==
    ASSUME CheckpointInv, NEW d \in Drivers, PlanBatch(d), UNCHANGED topicVars,
           NEW p \in Partitions, NEW o \in Nat, low[p] <= o, o < Confirmed(p)'
    PROVE  o < Confirmed(p)
<1>1. CASE plan # current[d]
  BY <1>1 DEF PlanBatch, Confirmed
<1>2. CASE plan = current[d]
  <2>1. plan'.n = plan.n + 1 /\ plan'.from = StartOf(plan) /\ committed' = committed
    BY <1>2 DEF PlanBatch
  <2>2. committed = plan.n /\ plan.n \in Nat
    BY <1>2 DEF CheckpointInv, QueryTypeOK, OffsetsAtMostOneAhead, Follows, PlanBatch, Plan
  <2>3. Confirmed(p)' = StartOf(plan)[p]
    BY <2>1, <2>2 DEF Confirmed
  <2>4. low[p] \in Nat
    BY DEF CheckpointInv, TopicTypeOK
  <2> QED BY <2>2, <2>3, <2>4 DEF Confirmed, StartOf
<1> QED BY <1>1, <1>2

(* An offset that commits/N confirms lies in the range of the entry. *)
LEMMA ConfirmedByCommit ==
    ASSUME CheckpointInv, NEW d \in Drivers, CommitBatch(d), UNCHANGED topicVars,
           NEW p \in Partitions, NEW o \in Nat, o < Confirmed(p)', ~(o < Confirmed(p))
    PROVE  current[d].from[p] <= o /\ o < current[d].to[p]
<1>1. committed < current[d].n
  BY DEF CommitBatch, Confirmed
<1>2. current[d] = plan /\ committed = plan.n - 1 /\ committed' = plan.n /\ plan' = plan
  BY <1>1, CommitsNewest DEF CommitBatch
<1>3. Confirmed(p)' = plan.to[p] /\ Confirmed(p) = plan.from[p]
  BY <1>2 DEF Confirmed, CheckpointInv, QueryTypeOK, Plan
<1>4. plan.from[p] \in Nat
  BY DEF CheckpointInv, QueryTypeOK, Plan, Offsets
<1> QED BY <1>2, <1>3, <1>4

=============================================================================
