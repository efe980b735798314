-------------------------- MODULE MC_SilverStream --------------------------
(* The silver stream on two partitions, with the checks of its tables.     *)
(* Wiki "a" hashes to partition 0 and wiki "b" to partition 1.             *)
EXTENDS SilverChecks

MCPartitions == {0, 1}
MCDomains == {"a", "b"}
MCHash == [d \in MCDomains |-> IF d = "a" THEN 0 ELSE 1]

OnePartition == {0}
OneHash == [d \in MCDomains |-> 0]

(* An ordinary edit; a frame with the same id whose clock is ahead, so     *)
(* that its verdict depends on when it is read; a payload that is not      *)
(* JSON, which has no key.                                                 *)
good  == [parsed |-> TRUE, id |-> "e1", dt |-> 0, domain |-> "a"]
early == [parsed |-> TRUE, id |-> "e1", dt |-> 2, domain |-> "a"]
bad   == [parsed |-> FALSE, id |-> Absent, dt |-> Absent, domain |-> Absent]

MCFrames == {good, early, bad}
=============================================================================
