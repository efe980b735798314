---------------------------- MODULE BronzeChecks ----------------------------
(***************************************************************************)
(* What Dagster reads off the bronze table while its stream runs: the      *)
(* asset check bronze_offsets_are_contiguous (wikistream_dagster           *)
(* checks.py, sql.py).  A check is one query and sees one snapshot, so it  *)
(* is a state predicate here.                                              *)
(***************************************************************************)
EXTENDS BronzeStream

RowsOf(p) == { r \in bronze : r.p = p }
OffsetsOf(p) == { r.o : r \in RowsOf(p) }

(* The rows a partition without holes or repetitions would have. *)
Expected(p) == Max(OffsetsOf(p)) - Min(OffsetsOf(p)) + 1

(* The partitions the check reports.  The query groups by partition, so    *)
(* one without rows is not looked at, and an empty table passes.           *)
Gaps == { p \in { r.p : r \in bronze } : Cardinality(RowsOf(p)) # Expected(p) }

bronze_offsets_are_contiguous == Gaps = {}

-----------------------------------------------------------------------------
Missing(p) == { o \in Min(OffsetsOf(p))..Max(OffsetsOf(p)) : o \notin OffsetsOf(p) }
Doubled(p) == { o \in OffsetsOf(p) : \E r, s \in RowsOf(p) : r.o = o /\ s.o = o /\ r # s }

(* What the check's verdict is worth, at any instant of the stream's life: *)
(* also between a snapshot and its confirmation, or after a replay.  It    *)
(* reports a partition only for a record retention deleted before bronze   *)
(* read it, or one a lost checkpoint made bronze read again (its two       *)
(* descriptions, "lost" and "written twice").  While no checkpoint is      *)
(* lost, a partition it passes has neither.  After a loss a missing and a  *)
(* doubled record can cancel, which the check cannot see.                  *)
ContiguityVerdict ==
    /\ \A p \in Gaps : \/ \E o \in Missing(p) : o < low[p]
                       \/ losses > 0 /\ Doubled(p) # {}
    /\ losses = 0 => \A p \in { r.p : r \in bronze } \ Gaps :
                         Missing(p) = {} /\ Doubled(p) = {}

=============================================================================
