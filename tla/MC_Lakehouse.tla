---------------------------- MODULE MC_Lakehouse ----------------------------
(* Both streams and the rebuild on one partition.  One tick is a day, so   *)
(* the hour of FUTURE_TOLERANCE rounds to none.                            *)
EXTENDS Lakehouse

MCPartitions == {0}
MCDomains == {"a"}
MCHash == [d \in MCDomains |-> 0]

good  == [parsed |-> TRUE, id |-> "e1", dt |-> 0, domain |-> "a"]
early == [parsed |-> TRUE, id |-> "e1", dt |-> 1, domain |-> "a"]
MCFrames == {good, early}
=============================================================================
