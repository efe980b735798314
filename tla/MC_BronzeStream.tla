-------------------------- MODULE MC_BronzeStream --------------------------
(* The bronze stream on one partition whose log is long enough for a hole  *)
(* and a repetition at once.  Nothing in bronze.py relates two partitions  *)
(* to each other but the bound on a batch and its epoch.  Rows do not      *)
(* depend on a verdict, so two frames are enough.                          *)
EXTENDS BronzeChecks

OnePartition == {0}
MCDomains == {"a"}
MCHash == [d \in MCDomains |-> 0]
good == [parsed |-> TRUE, id |-> "e1", dt |-> 0, domain |-> "a"]
bad  == [parsed |-> FALSE, id |-> Absent, dt |-> Absent, domain |-> Absent]
MCFrames == {good, bad}
=============================================================================
