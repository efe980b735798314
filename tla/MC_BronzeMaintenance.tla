------------------------ MODULE MC_BronzeMaintenance ------------------------
(* Maintenance of bronze.  One tick is longer than either age threshold:   *)
(* what is of an earlier tick is old, and a commit takes less than one.    *)
EXTENDS Observation

MCPartitions == {0}
MCDomains == {"a"}
MCHash == [d \in MCDomains |-> 0]
good == [parsed |-> TRUE, id |-> "e1", dt |-> 0, domain |-> "a"]
MCFrames == {good}
=============================================================================
