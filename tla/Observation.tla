---------------------------- MODULE Observation ----------------------------
(***************************************************************************)
(* The observation lakehouse_state makes of the topic and of the bronze    *)
(* table while the stream and its maintenance run (wikistream_dagster      *)
(* lakehouse.py, resources.py, sql.py).  Dagster compares the data version *)
(* of an observation with the one a mart was built from, and shows the     *)
(* mart as stale when they differ.  An observation reads and changes       *)
(* nothing, so it is a set of state functions here.                        *)
(***************************************************************************)
EXTENDS BronzeMaintenance

(* partition_watermarks: the low and the high watermark of a partition.    *)
partition_watermarks == [p \in Partitions |-> <<low[p], Len(log[p])>>]

(* The sum of the high watermarks, as a count of the offsets below them.   *)
TopicVersion == Cardinality(UNION { {p} \X (1..partition_watermarks[p][2]) : p \in Partitions })

(* Mutant of BronzeVersion: the data files of the current snapshot. *)
VersionByFiles == Cardinality(Current)

(* count( * ), which Trino answers from the current snapshot. *)
BronzeVersion == RowCount(Current)

-----------------------------------------------------------------------------
(* A data version changes exactly when what it stands for has grown: never *)
(* because retention deletes from the low end of the topic, nor because a  *)
(* compaction, an expiry or an orphan removal commits between two of the   *)
(* stream's appends (lakehouse.py: a mart shows as stale when the table    *)
(* under it has grown; the sum of high watermarks identifies the topic's   *)
(* state).                                                                 *)
VersionsTellGrowth ==
    [][/\ (TopicVersion' = TopicVersion) = (log' = log)
       /\ (BronzeVersion' = BronzeVersion) = (bronze' = bronze)]_allVars

=============================================================================
