-------------------------------- MODULE Topic --------------------------------
(***************************************************************************)
(* The Kafka topic wiki.recentchange, as the two streams use it: one       *)
(* append-only log of frames per partition, keyed by meta.domain, whose    *)
(* oldest records expire (24 h retention), and the clock whose reading     *)
(* Spark binds to a micro-batch.  The broker is not code of this           *)
(* repository.                                                             *)
(***************************************************************************)
EXTENDS Frames, FiniteSets

CONSTANTS
    Partitions,  \* partition numbers; their order is the order of <
    Hash,        \* the partitioner: domain -> partition
    MaxLog,      \* bound: records published per partition
    MaxExpired,  \* bound: records expired per partition
    MaxClock     \* bound: ticks of the clock

ASSUME TopicAssumption == /\ Partitions \subseteq Nat
                          /\ IsFiniteSet(Partitions)
                          /\ Hash \in [Domains -> Partitions]
                          /\ MaxLog \in Nat
                          /\ MaxExpired \in Nat
                          /\ MaxClock \in Nat

VARIABLES
    log,    \* log[p]: the frames published to partition p; offset o is entry o+1
    low,    \* low[p]: the earliest offset the broker still holds
    clock   \* the wall clock

topicVars == <<log, low, clock>>

TopicTypeOK == /\ log \in [Partitions -> Seq(Frame)]
               /\ low \in [Partitions -> Nat]
               /\ \A p \in Partitions : low[p] <= Len(log[p])
               /\ clock \in Nat

TopicInit == /\ log = [p \in Partitions |-> <<>>]
             /\ low = [p \in Partitions |-> 0]
             /\ clock = 0

-----------------------------------------------------------------------------
(* The partitions a frame may go to: the one its domain hashes to, and any *)
(* partition when it has no key.                                           *)
Route(f) == IF f.domain = Absent THEN Partitions ELSE {Hash[f.domain]}

Publish(p, f) == /\ p \in Route(f)
                 /\ Len(log[p]) < MaxLog
                 /\ log' = [log EXCEPT ![p] = Append(@, f)]
                 /\ UNCHANGED <<low, clock>>

(* Retention deletes the oldest record, read or not. *)
Expire(p) == /\ low[p] < Len(log[p])
             /\ low[p] < MaxExpired
             /\ low' = [low EXCEPT ![p] = @ + 1]
             /\ UNCHANGED <<log, clock>>

Tick == /\ clock < MaxClock
        /\ clock' = clock + 1
        /\ UNCHANGED <<log, low>>

TopicNext == \/ \E p \in Partitions, f \in Frame : Publish(p, f)
             \/ \E p \in Partitions : Expire(p)
             \/ Tick

=============================================================================
