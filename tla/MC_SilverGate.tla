---------------------------- MODULE MC_SilverGate ----------------------------
(* Two drivers on one checkpoint, with the duplicate gate and the freshness *)
(* check next to them.                                                     *)
EXTENDS MC_SilverStream, SilverGate

(* A frame with a clock ahead, by one tick more than the tolerance of this *)
(* run.                                                                    *)
soon == [parsed |-> TRUE, id |-> "e1", dt |-> 1, domain |-> "a"]

(* The frames that reach either table, one of them depending on the clock. *)
TwoFrames == {good, soon}
=============================================================================
