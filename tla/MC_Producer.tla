----------------------------- MODULE MC_Producer -----------------------------
(* The producer on two partitions: an edit of a wiki, and a frame that     *)
(* cannot be decoded and so has no key.                                    *)
EXTENDS Producer

MCPartitions == {0, 1}
OnePartition == {0}
MCDomains == {"a"}
MCHash == [d \in MCDomains |-> 0]

good == [parsed |-> TRUE, id |-> "e1", dt |-> 0, domain |-> "a"]
bad  == [parsed |-> FALSE, id |-> Absent, dt |-> Absent, domain |-> Absent]
MCFrames == {good, bad}
OneFrame == {good}
==============================================================================
